\* Traces switched on and off, one NIC per VNI; NICs are added with and without.
CONSTANTS
  n1 = n1  n2 = n2  n3 = n3  v1 = v1  v2 = v2  None = None
  NicId = {n1, n2}
  Vni = {v1, v2}
  ConfigTrace = FALSE
  TraceModes = {TRUE, FALSE}
  BypassModes = {TRUE, FALSE}
  Updates = {"packet_trace"}
  VhostMax = 50
  VtepMax = 2
  SwitchMax = 3
  MayFail = TRUE
  MaxPerVni = 1
  MaxBacklog = 3
SYMMETRY NicSymmetry
SPECIFICATION Spec
INVARIANTS CallsOnLiveBricks NicsConnected
