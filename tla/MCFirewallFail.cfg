\* One NIC; packetgraph calls may fail; OUTBOUND and malformed rules; NICs that
\* bypass the filtering; antispoof on and off.
CONSTANTS
  n1 = n1  n2 = n2  s1 = s1  s2 = s2  i1 = i1  i2 = i2
  cidrIn = cidrIn  fromS2 = fromS2  fromS1 = fromS1  cidrOut = cidrOut
  badPorts = badPorts
  NoSg = NoSg  AnySrc = AnySrc  Dhcp = Dhcp  NoNic = NoNic  NoRule = NoRule
  NicId = {n1}
  SgId = {s1}
  Ip = {i1}
  Rule = {cidrOut, fromS1, badPorts}
  RemoteSg <- MCRemoteSg
  Outbound = {cidrOut}
  Malformed = {badPorts}
  SgLists <- OneGroup
  IpLists <- NoOrOneIp
  Bypass = {TRUE, FALSE}
  AntiSpoof = {TRUE, FALSE}
  MayFail = TRUE
  MaxBacklog = 1
SPECIFICATION Spec
INVARIANTS EgressSynced ModelMatchesGraph SyncInv
