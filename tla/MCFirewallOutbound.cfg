\* An OUTBOUND rule in a group of one NIC.
CONSTANTS
  n1 = n1  n2 = n2  s1 = s1  s2 = s2  i1 = i1  i2 = i2
  cidrIn = cidrIn  fromS2 = fromS2  fromS1 = fromS1  cidrOut = cidrOut
  badPorts = badPorts
  NoSg = NoSg  AnySrc = AnySrc  Dhcp = Dhcp  NoNic = NoNic  NoRule = NoRule
  NicId = {n1}
  SgId = {s1}
  Ip = {i1}
  Rule = {cidrOut}
  RemoteSg <- MCRemoteSg
  Outbound = {cidrOut}
  Malformed = {}
  SgLists <- OneGroup
  IpLists <- OneIp
  Bypass = {FALSE}
  AntiSpoof = {FALSE}
  MayFail = FALSE
  MaxBacklog = 1
SPECIFICATION Spec
INVARIANT OnlyInboundRulesIn
