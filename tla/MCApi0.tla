------------------------------- MODULE MCApi0 -------------------------------
(* Small instances of Api0 for TLC.                                        *)
EXTENDS Api0

CONSTANTS n1, s1, s2, a4, b6, b6long, bad, path

MCFamily == [t \in Text |-> CASE t = a4 -> "v4" [] t \in {b6, b6long} -> "v6"
                              [] OTHER -> "bad"]
MCCanonical == [t \in Text |-> IF t = b6long THEN b6 ELSE t]
MCDefaultPath == [n \in NicId |-> n]

PlainNic ==
  [id |-> n1, mac |-> "good", vni |-> 16777215, ip |-> {a4, b6long},
   security_group |-> {s1}, ip_anti_spoof |-> None, packet_trace |-> None,
   packet_trace_path |-> None, bypass_filtering |-> None, type |-> None,
   btype |-> None, dip |-> None]
Bench(btype, dip) == [PlainNic EXCEPT !.type = "BENCH", !.btype = btype,
                                      !.dip = dip]

(* NICs of two types, at the limits of what is accepted.                   *)
MCNics ==
  {PlainNic,
   [Bench("ICMP_SND_LIKE", a4) EXCEPT !.ip = {a4, b6}, !.ip_anti_spoof = TRUE,
      !.bypass_filtering = TRUE, !.packet_trace_path = path],
   [PlainNic EXCEPT !.mac = "bad"], [PlainNic EXCEPT !.vni = 16777216],
   [PlainNic EXCEPT !.ip = {a4, bad}],
   [PlainNic EXCEPT !.packet_trace = TRUE, !.packet_trace_path = path],
   Bench(None, None), Bench("ICMP_SND_LIKE", None),
   Bench("ICMP_SND_LIKE", bad)}

PlainUpdate ==
  [id |-> n1, ip |-> {}, security_group |-> {}, ip_anti_spoof |-> None,
   packet_trace |-> None, packet_trace_path |-> None]
MCUpdates ==
  {PlainUpdate, [PlainUpdate EXCEPT !.ip = {EmptyText}],
   [PlainUpdate EXCEPT !.ip = {EmptyText, a4}],
   [PlainUpdate EXCEPT !.ip = {b6long, a4}, !.ip_anti_spoof = TRUE],
   [PlainUpdate EXCEPT !.security_group = {EmptyText}],
   [PlainUpdate EXCEPT !.security_group = {s1, EmptyText}, !.ip_anti_spoof = FALSE],
   [PlainUpdate EXCEPT !.packet_trace = TRUE],
   [PlainUpdate EXCEPT !.packet_trace = FALSE, !.packet_trace_path = path],
   [PlainUpdate EXCEPT !.packet_trace_path = path]}

Cidr(t, n) == [address |-> t, mask_size |-> n]
Rule(protocol, start, end, cidr, sg) ==
  [direction |-> "INBOUND", protocol |-> protocol, port_start |-> start,
   port_end |-> end, cidr |-> cidr, security_group |-> sg]
(* Rules whose ports are only set for TCP and UDP.                         *)
TidyRules ==
  {Rule(6, 0, 65535, Cidr(a4, 32), None), Rule(6, 1, 65536, Cidr(a4, 0), None),
   Rule(17, 2, 1, Cidr(a4, 0), None), Rule(17, 80, None, None, s2),
   Rule(17, 80, 80, Cidr(b6long, 128), None),
   Rule(17, 80, 80, Cidr(b6, 128), None), Rule(-1, None, None, None, s2),
   Rule(255, None, None, Cidr(a4, 33), None),
   Rule(256, None, None, None, s2), Rule(-2, None, None, None, s2),
   Rule(1, None, None, Cidr(bad, 0), None), Rule(1, None, None, None, None),
   Rule(1, None, None, Cidr(b6, 129), None),
   Rule(1, None, None, Cidr(a4, 8), s2),
   Rule(1, None, None, None, EmptyText)}
MCSgs == {[member |-> {a4, b6long}, rule |-> {}], [member |-> {bad}, rule |-> {}]}
           \cup {[member |-> {}, rule |-> {r}] : r \in RuleMessages}
=============================================================================
