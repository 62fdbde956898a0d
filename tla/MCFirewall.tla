----------------------------- MODULE MCFirewall -----------------------------
(* Small instances of Firewall for TLC.                                    *)
EXTENDS Firewall, TLC

CONSTANTS n1, n2, s1, s2, i1, i2, cidrIn, fromS2, fromS1, cidrOut, badPorts

(* A rule with a CIDR and a rule whose sources are the members of s2.      *)
MCRemoteSg ==
  [r \in Rule |-> CASE r = fromS2 -> s2 [] r = fromS1 -> s1 [] OTHER -> NoSg]

NicSymmetry == Permutations(NicId)

OneGroup == {{s1}}
TwoGroups == {{s1, s2}}
NoOrOneIp == {{}, {i1}}
OneIp == {{i1}}
=============================================================================
