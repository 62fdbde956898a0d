\* One NIC, two groups, a rule on the two addresses of s2; packetgraph
\* calls may fail, NICs may bypass the filtering; both threads are fair.
CONSTANTS
  n1 = n1  s1 = s1  s2 = s2  i1 = i1  i2 = i2
  fromS2 = fromS2
  NoSg = NoSg  AnySrc = AnySrc  Dhcp = Dhcp  NoNic = NoNic  NoRule = NoRule
  NicId = {n1}
  SgId = {s1, s2}
  Ip = {i1, i2}
  Rule = {fromS2}
  RemoteSg <- MCRemoteSg
  Outbound = {}
  Malformed = {}
  SgLists <- OneOrNone
  IpLists <- OneIp
  Bypass = {TRUE, FALSE}
  AntiSpoof = {FALSE}
  MayFail = TRUE
  MaxBacklog = 1
SPECIFICATION SpecH
PROPERTIES RevocationApplied RequestsAnswered ImplementsEnforcement
