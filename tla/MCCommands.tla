----------------------------- MODULE MCCommands -----------------------------
(* Small instances of Commands for TLC.                                    *)
EXTENDS Commands

CONSTANTS n1, s1, s2, a4, bad, path, admin, other

MCFamily == [t \in Text |-> IF t = a4 THEN "v4" ELSE "bad"]
MCCanonical == [t \in Text |-> t]
MCDefaultPath == [n \in NicId |-> n]

NicAddLine ==
  [do |-> "nic add", id |-> n1, mac |-> "good", vni |-> 1, ip |-> {a4}, sg |-> {s1},
   enable_antispoof |-> FALSE, bypass_filtering |-> FALSE, packet_trace |-> None,
   trace_path |-> None, type |-> None, btype |-> None, dip |-> None]
NicAdds ==
  {NicAddLine, [NicAddLine EXCEPT !.sg = {s1, s2}],
   [NicAddLine EXCEPT !.mac = None], [NicAddLine EXCEPT !.vni = NotANumber],
   [NicAddLine EXCEPT !.vni = 16777216], [NicAddLine EXCEPT !.type = "other"],
   [NicAddLine EXCEPT !.type = "BENCH"],
   [NicAddLine EXCEPT !.type = "TAP", !.bypass_filtering = TRUE, !.sg = {},
      !.trace_path = path]}

NicUpdateLine ==
  [do |-> "nic update", id |-> n1, ip |-> {}, enable_antispoof |-> None,
   packet_trace |-> None, trace_path |-> None, more |-> FALSE]
NicUpdates ==
  {[NicUpdateLine EXCEPT !.ip = {ClearIps}],
   [NicUpdateLine EXCEPT !.ip = {ClearIps}, !.more = TRUE],
   [NicUpdateLine EXCEPT !.ip = {bad}], [NicUpdateLine EXCEPT !.id = None],
   [NicUpdateLine EXCEPT !.packet_trace = FALSE, !.trace_path = path],
   [NicUpdateLine EXCEPT !.ip = {a4, EmptyText}, !.enable_antispoof = TRUE,
      !.packet_trace = TRUE, !.trace_path = path]}

NicSgs ==
  [do : {"nic sg add", "nic sg del"}, id : {n1},
   words : {<<s1>>, <<s2>>, <<s2, s1>>}, more : {FALSE}]
    \cup {[do |-> "nic sg set", id |-> n1, words |-> <<s2, s1>>, more |-> FALSE]}
    \cup {[do |-> d, id |-> n1, words |-> <<>>, more |-> m] :
            d \in {"nic sg add", "nic sg set"}, m \in BOOLEAN}

Words == {[do |-> d, words |-> w] : d \in {"nic del"}, w \in {<<>>, <<n1, n1>>}}
  \cup {[do |-> d, words |-> w] : d \in {"sg add", "sg del"}, w \in {<<s1, s1>>}}

RuleLine ==
  [do |-> "sg rule add", sg |-> s1, dir |-> "in", ip_proto |-> 6, port |-> 80,
   port_start |-> None, port_end |-> None, cidr |-> None, sg_members |-> s2,
   more |-> FALSE]
Net(mask) == [address |-> a4, mask_size |-> mask]
Ports(o, start, end) == [o EXCEPT !.port = None, !.port_start = start, !.port_end = end]
RuleLines ==
  {RuleLine, Ports(RuleLine, 79, 81), Ports(RuleLine, 80, 79), Ports(RuleLine, 80, None),
   Ports([RuleLine EXCEPT !.ip_proto = 1], 80, None),
   Ports([RuleLine EXCEPT !.ip_proto = 256], None, None),
   Ports(RuleLine, 65536, 65536), [RuleLine EXCEPT !.port = 65536],
   [RuleLine EXCEPT !.cidr = Net(8)], [RuleLine EXCEPT !.sg_members = None],
   [RuleLine EXCEPT !.sg_members = None, !.cidr = Net(33)],
   [RuleLine EXCEPT !.sg_members = None, !.cidr = Net(NotANumber)],
   [RuleLine EXCEPT !.dir = "both"], [RuleLine EXCEPT !.ip_proto = None]}
BareRule ==
  Ports([RuleLine EXCEPT !.dir = None, !.ip_proto = None, !.sg_members = None],
        None, None)
Hashed(o) == [do |-> "sg rule del hash", sg |-> s1, rule |-> RuleMessage(ConvertRule(RuleOf(o, 0)))]
Rules ==
  RuleLines \cup {[o EXCEPT !.do = "sg rule del"] :
                    o \in {RuleLine, Ports([RuleLine EXCEPT !.ip_proto = 1], 80, None),
                           BareRule, [BareRule EXCEPT !.more = TRUE]}}
    \cup {Hashed(RuleLine), Hashed(Ports(RuleLine, 79, 81)),
          Hashed(Ports([RuleLine EXCEPT !.ip_proto = 1], 80, None))}

Members ==
  {[do |-> d, sg |-> s1, ip |-> a4, more |-> m] :
     d \in {"sg member add", "sg member del"}, m \in BOOLEAN}
    \cup {[do |-> "sg member add", sg |-> s1, ip |-> bad, more |-> FALSE]}
Reads ==
  {[do |-> d, id |-> n1] : d \in {"nic details", "nic stats", "nic sg list"}}
    \cup {[do |-> d, sg |-> s1, more |-> TRUE] : d \in {"sg rule list", "sg member list"}}
    \cup {[do |-> d] : d \in {"dump", "help", "nic list", "sg list",
                              "status", "shutdown"}}
(* Request files: the second message is refused, or there is none.         *)
File(messages) == [do |-> "request", messages |-> messages]
Requests == {File(<<>>), File(<<<<"nic_del", n1>>, <<"sg_member_add", s1, bad>>>>)}

(* Every command of one client, and the ones of another that interfere.    *)
AdminLines == {<<cmd>> : cmd \in NicAdds \cup NicUpdates \cup NicSgs \cup Words
                                   \cup Rules \cup Members \cup Reads \cup Requests}
  \cup {<<[do |-> "invalid"], NicAddLine>>}
(* The file of a client that does not wait, which edits NIC and group.     *)
LateFile == File(SgUpdate(n1, {s2}) \o <<<<"sg_del", s1>>>>)
OtherLines ==
  {<<[do |-> "nic del", words |-> <<n1>>], NicAddLine>>,
   <<LateFile>>,
   <<[RuleLine EXCEPT !.do = "sg rule del"], RuleLine>>}
MCHasty == {LateFile}

(* The last request, its response and the status a client left with are    *)
(* not looked at by any action, and by a property only in the step that    *)
(* sets them.                                                              *)
CommandsView ==
  <<model, api_0_error, [c \in Client |-> [clients[c] EXCEPT !.status = None]], busy, late>>

MCLines == [c \in Client |-> IF c = admin THEN AdminLines ELSE OtherLines]
=============================================================================
