\* Two NICs, two groups, a CIDR rule and a rule on the members of s2.
CONSTANTS
  n1 = n1  n2 = n2  s1 = s1  s2 = s2  i1 = i1  i2 = i2
  cidrIn = cidrIn  fromS2 = fromS2  fromS1 = fromS1  cidrOut = cidrOut
  badPorts = badPorts
  NoSg = NoSg  AnySrc = AnySrc  Dhcp = Dhcp  NoNic = NoNic  NoRule = NoRule
  NicId = {n1, n2}
  SgId = {s1, s2}
  Ip = {i1}
  Rule = {cidrIn, fromS2}
  RemoteSg <- MCRemoteSg
  Outbound = {}
  Malformed = {}
  SgLists <- TwoGroups
  IpLists <- OneIp
  Bypass = {FALSE}
  AntiSpoof = {FALSE}
  MayFail = FALSE
  MaxBacklog = 1
SYMMETRY NicSymmetry
SPECIFICATION Spec
INVARIANTS IngressSynced NoUseAfterDestroy
PROPERTIES NoStaleOpening
