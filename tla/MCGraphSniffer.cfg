\* The trace path of a NIC changes, then its trace is switched off.
CONSTANTS
  n1 = n1  n2 = n2  n3 = n3  v1 = v1  v2 = v2  None = None
  NicId = {n1}
  Vni = {v1}
  ConfigTrace = TRUE
  TraceModes = {TRUE}
  BypassModes = {FALSE}
  Updates = {"packet_trace", "packet_trace_path"}
  VhostMax = 3
  VtepMax = 2
  SwitchMax = 3
  MayFail = FALSE
  MaxPerVni = 3
  MaxBacklog = 4
SPECIFICATION Spec
INVARIANT CallsOnLiveBricks
