\* Started with -t; NICs of one VNI are traced or not; both threads are fair.
CONSTANTS
  n1 = n1  n2 = n2  n3 = n3  v1 = v1  v2 = v2  None = None
  NicId = {n1, n2}
  Vni = {v1}
  ConfigTrace = TRUE
  TraceModes = {TRUE}
  BypassModes = {TRUE, FALSE}
  Updates = {"packet_trace"}
  VhostMax = 50
  VtepMax = 2
  SwitchMax = 3
  MayFail = TRUE
  MaxPerVni = 2
  MaxBacklog = 4
SPECIFICATION FairSpec
INVARIANT NoUnfilteredPath
PROPERTIES NicsEventuallyPolled DeletesComplete
