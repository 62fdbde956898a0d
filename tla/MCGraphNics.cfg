\* Three NICs that come and go in two VNIs: vtep, switch, back to vtep.
CONSTANTS
  n1 = n1  n2 = n2  n3 = n3  v1 = v1  v2 = v2  None = None
  NicId = {n1, n2, n3}
  Vni = {v1, v2}
  ConfigTrace = FALSE
  TraceModes = {FALSE}
  BypassModes = {TRUE, FALSE}
  Updates = {}
  VhostMax = 3
  VtepMax = 2
  SwitchMax = 3
  MayFail = TRUE
  MaxPerVni = 3
  MaxBacklog = 4
SYMMETRY NicSymmetry
SPECIFICATION Spec
INVARIANTS
  CallsOnLiveBricks PolledBricksLive NicsConnected VniIsolation
  PollListComplete
PROPERTIES DestroyedBricksIsolated
