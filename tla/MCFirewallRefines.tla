------------------------- MODULE MCFirewallRefines -------------------------
(* A small instance of FirewallRefines for TLC.                            *)
EXTENDS FirewallRefines

CONSTANTS n1, s1, s2, i1, i2, fromS2

MCRemoteSg ==
  [r \in Rule |-> CASE r = fromS2 -> s2 [] OTHER -> NoSg]

OneOrNone == {{}, {s1}}
OneIp == {{i1}}
=============================================================================
