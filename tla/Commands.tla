------------------------------ MODULE Commands ------------------------------
(***************************************************************************)
(* The commands of the client (api/client/nic.cc, sg.cc, status.cc,        *)
(* shutdown.cc, dump.cc, request.cc and client.cc) on the handlers of      *)
(* Api0: how the words of a command line become requests, what the client  *)
(* makes of the responses, and which exit status it leaves.  Several       *)
(* clients run at once; the server thread executes the messages of one     *)
(* request after the other, and one request at a time.  A client that does *)
(* not wait leaves its request behind, to be executed later or never.      *)
(*                                                                         *)
(* A command is a record: do tells the subcommand, the other fields are    *)
(* its words and options, each option given once.  more tells whether      *)
(* global options follow the words.  How a request travels and is          *)
(* encrypted is module Requests.                                           *)
(***************************************************************************)
EXTENDS Api0, SequencesExt

CONSTANTS
  Client,        \* client processes
  Lines,         \* Lines[c]: command lines c may be started with, sequences
                 \* of commands separated by "+"
  NotANumber,    \* a word that is not a number where one is expected
  ClearIps,      \* the word "-e" after --ip
  AnyPort,       \* what a port that was never assigned may hold
  Hasty,         \* commands that are given a --timeout
  MayThrow       \* whether a handler may throw a std::exception

VARIABLES
  clients,       \* a record for every client process, see Idle
  busy,          \* the client whose request the server executes, "late" when
                 \* that client is gone, or None
  late           \* messages left of a request whose client gave up: one
                 \* such request at a time, to bound the model

cvars == <<vars, clients, busy, late>>

(* left: the commands still to run, the current one first; todo: messages  *)
(* of the current request not yet executed; good: every response to it so  *)
(* far is a success; read: what the responses of the command brought;      *)
(* before: the model when its first message was executed, None once        *)
(* another client's message was; status: how the last command line ended.  *)
Idle == [left |-> <<>>, todo |-> <<>>, good |-> TRUE, read |-> <<>>,
         before |-> None, status |-> "none"]

Command(c) == Head(clients[c].left)
Running(c) == clients[c].left # <<>>
-----------------------------------------------------------------------------
(* Options.  A parser answers "run", or how the command ends at once.      *)

(* A number in range.  --port-start and --port-end rethrow without an      *)
(* exception when it is not, which ends the process.                       *)
PortStatus(p, out) ==
  CASE p = None -> "run"
    [] p = NotANumber -> "fail"
    [] OTHER -> IF p \in 0..65535 THEN "run" ELSE out

(* RuleAddOptions: --port stands for both ends.                            *)
PortStart(o) == OrElse(o.port, o.port_start)
PortEnd(o) == OrElse(o.port, o.port_end)

WrongPorts(o) ==
  /\ o.ip_proto \in {6, 17}
  /\ \/ PortStart(o) = None \/ PortEnd(o) = None
     \/ PortStart(o) > PortEnd(o)

(* Without a slash a CIDR is refused at once; a mask that is not a number  *)
(* makes a request that cannot be parsed.                                  *)
CidrFails(c) == c # None /\ c.mask_size = NotANumber

RuleAddOptionsParse(o) ==
  LET ports == {PortStatus(o.port, "fail"), PortStatus(o.port_start, "abort"),
                PortStatus(o.port_end, "abort")}
  IN  IF "abort" \in ports THEN "abort"
      ELSE IF \/ "fail" \in ports \/ o.dir \notin {"in", "out"}
              \/ o.ip_proto \in {None, NotANumber} \/ WrongPorts(o)
              \/ CidrFails(o.cidr)
              \/ (o.cidr = None) = (o.sg_members = None)
      THEN "fail" ELSE "run"

(* The rule of a request: port_end is sent with port_start, set or not.    *)
RuleOf(o, any) ==
  [direction |-> IF o.dir = "in" THEN "INBOUND" ELSE "OUTBOUND",
   protocol |-> o.ip_proto,
   port_start |-> PortStart(o),
   port_end |-> IF PortStart(o) = None THEN None ELSE OrElse(PortEnd(o), any),
   cidr |-> o.cidr, security_group |-> o.sg_members]

(* A path needs a trace that is switched on.                               *)
TraceFails(o) == o.trace_path # None /\ o.packet_trace \in {None, FALSE}

(* "sg rule del" with a group alone, or with nothing, is a call for help.  *)
NoOptions(o) ==
  /\ \A f \in {"dir", "ip_proto", "port", "port_start", "port_end", "cidr",
                "sg_members"} : o[f] = None
  /\ ~ o.more

(* The text of the request must parse: a VNI is a number.                  *)
NicAddOptionsParse(o) ==
  IF \/ TraceFails(o) \/ o.id = None \/ o.mac = None
     \/ o.type \notin {None, "VHOST_USER_SERVER", "TAP", "BENCH"}
     \/ o.vni \in {None, NotANumber}
  THEN "fail" ELSE "run"

NicAddMessage(o) ==
  [id |-> o.id, mac |-> o.mac, vni |-> o.vni, ip |-> o.ip,
   security_group |-> o.sg, ip_anti_spoof |-> o.enable_antispoof,
   packet_trace |-> o.packet_trace, packet_trace_path |-> o.trace_path,
   bypass_filtering |-> o.bypass_filtering,
   type |-> OrElse(o.type, "VHOST_USER_SERVER"),
   btype |-> o.btype, dip |-> o.dip]

(* GlobalOptions::Parse takes "--ip -e" for --endpoint when a word follows, *)
(* and connecting to that word throws.                                     *)
NicUpdateOptionsParse(o) ==
  IF o.id = None \/ TraceFails(o) THEN "fail"
  ELSE IF ClearIps \in o.ip /\ o.more THEN "abort" ELSE "run"

NicUpdateMessage(o) ==
  [id |-> o.id,
   ip |-> {IF t = ClearIps THEN EmptyText ELSE t : t \in o.ip \ {EmptyText}},
   security_group |-> {}, ip_anti_spoof |-> o.enable_antispoof,
   packet_trace |-> o.packet_trace, packet_trace_path |-> o.trace_path]

(* SgUpdate of nic.cc.                                                     *)
SgUpdate(n, sgs) ==
  <<<<"nic_update", [id |-> n, ip |-> {}, security_group |-> sgs,
                     ip_anti_spoof |-> None, packet_trace |-> None,
                     packet_trace_path |-> None]>>>>
-----------------------------------------------------------------------------
(* What a command does before it sends anything.                           *)
Parse(cmd) ==
  CASE cmd.do = "help" -> "ok"
    [] cmd.do = "invalid" -> "fail"
    [] cmd.do = "nic add" -> NicAddOptionsParse(cmd)
    [] cmd.do = "nic update" -> NicUpdateOptionsParse(cmd)
    [] cmd.do \in {"nic del", "sg add", "sg del", "nic sg add", "nic sg del"} ->
         IF cmd.words = <<>> THEN "fail" ELSE "run"
    [] cmd.do = "nic sg set" ->
         IF cmd.words = <<>> /\ ~ cmd.more THEN "fail" ELSE "run"
    [] cmd.do = "sg rule add" -> RuleAddOptionsParse(cmd)
    [] cmd.do = "sg rule del" ->
         IF NoOptions(cmd) THEN "ok" ELSE RuleAddOptionsParse(cmd)
    [] cmd.do \in {"sg member list", "sg member del"} ->
         IF cmd.more THEN "run" ELSE "fail"
    [] cmd.do = "request" -> IF cmd.messages = <<>> THEN "fail" ELSE "run"
    [] OTHER -> "run"

(* A message for every word, in one request.                               *)
Each(kind, words) == [i \in DOMAIN words |-> <<kind, words[i]>>]

(* The first request of the commands on NICs.                              *)
SubNicList == <<<<"nic_list">>>>
SubNicStats(cmd) == <<<<"nic_stats", cmd.id>>>>
SubNicDetails(cmd) == <<<<"nic_details", cmd.id>>>>
SubNicAdd(cmd) == <<<<"nic_add", NicAddMessage(cmd)>>>>
SubNicUpdate(cmd) == <<<<"nic_update", NicUpdateMessage(cmd)>>>>
SubNicDel(cmd) == Each("nic_del", cmd.words)

(* SgList of nic.cc reads the groups for the commands "nic sg".            *)
SgList(cmd) == <<<<"nic_details", cmd.id>>>>
SubNicSgList(cmd) == SgList(cmd)
SubNicSgSet(cmd) ==
  SgUpdate(cmd.id, IF cmd.words = <<>> THEN {EmptyText} ELSE ToSet(cmd.words))

(* The first request of the commands on groups.                            *)
SubSgList == <<<<"sg_list">>>>
SubSgAdd(cmd) == Each("sg_add", cmd.words)
SubSgDel(cmd) == Each("sg_del", cmd.words)
SubSgRuleList(cmd) == <<<<"sg_rule_list", cmd.sg>>>>
SubSgRuleAdd(cmd, any) == <<<<"sg_rule_add", cmd.sg, RuleOf(cmd, any)>>>>
SubSgParamRuleDel(cmd, any) == <<<<"sg_rule_del", cmd.sg, RuleOf(cmd, any)>>>>
SubSgMemberList(cmd) == <<<<"sg_member_list", cmd.sg>>>>
SubSgMemberAdd(cmd) == <<<<"sg_member_add", cmd.sg, cmd.ip>>>>
SubSgMemberDel(cmd) == <<<<"sg_member_del", cmd.sg, cmd.ip>>>>

(* The other commands.  A dump asks for all NICs, then for all groups; a   *)
(* request file holds any messages.                                        *)
SubStatus == <<<<"app_status">>>>
SubShutdown == <<<<"app_quit">>>>
SubDump == <<<<"nic_details", EmptyText>>, <<"sg_details", EmptyText>>>>
SubRequest(cmd) == cmd.messages

(* A command is told by its first words.                                   *)
Request(cmd, any) ==
  CASE cmd.do = "nic list" -> SubNicList
    [] cmd.do = "nic stats" -> SubNicStats(cmd)
    [] cmd.do = "nic details" -> SubNicDetails(cmd)
    [] cmd.do = "nic add" -> SubNicAdd(cmd)
    [] cmd.do = "nic update" -> SubNicUpdate(cmd)
    [] cmd.do = "nic del" -> SubNicDel(cmd)
    [] cmd.do = "nic sg list" -> SubNicSgList(cmd)
    [] cmd.do \in {"nic sg add", "nic sg del"} -> SgList(cmd)
    [] cmd.do = "nic sg set" -> SubNicSgSet(cmd)
    [] cmd.do = "sg list" -> SubSgList
    [] cmd.do = "sg add" -> SubSgAdd(cmd)
    [] cmd.do = "sg del" -> SubSgDel(cmd)
    [] cmd.do \in {"sg rule list", "sg rule del hash"} -> SubSgRuleList(cmd)
    [] cmd.do = "sg rule add" -> SubSgRuleAdd(cmd, any)
    [] cmd.do = "sg rule del" -> SubSgParamRuleDel(cmd, any)
    [] cmd.do = "sg member list" -> SubSgMemberList(cmd)
    [] cmd.do = "sg member add" -> SubSgMemberAdd(cmd)
    [] cmd.do = "sg member del" -> SubSgMemberDel(cmd)
    [] cmd.do = "status" -> SubStatus
    [] cmd.do = "shutdown" -> SubShutdown
    [] cmd.do = "dump" -> SubDump
    [] cmd.do = "request" -> SubRequest(cmd)
-----------------------------------------------------------------------------
(* What a command does with the responses to its first request: the second *)
(* request, empty when there is none.                                      *)

(* Mutant of SubNicSgAdd: only the new groups are sent.                    *)
SubNicSgAddOnly(cmd, list) == SgUpdate(cmd.id, ToSet(cmd.words))

(* The list, sorted and unique, is compared with the old one by its length *)
(* only.                                                                   *)
SubNicSgAdd(cmd, list) ==
  LET all == list \cup ToSet(cmd.words)
  IN  IF Cardinality(all) = Cardinality(list) THEN <<>> ELSE SgUpdate(cmd.id, all)

(* Mutant of SubNicSgDel: the new list is compared with the words.         *)
SubNicSgDelWords(cmd, list) ==
  LET kept == list \ ToSet(cmd.words)
  IN  IF Cardinality(kept) = Len(cmd.words) THEN <<>> ELSE SgUpdate(cmd.id, kept)

SubNicSgDel(cmd, list) ==
  LET kept == list \ ToSet(cmd.words)
  IN  IF Cardinality(kept) = Cardinality(list) THEN <<>> ELSE SgUpdate(cmd.id, kept)

(* Mutant of RuleHash: two rules on different ports have the same hash.    *)
RuleHashNoPort(m) == [m EXCEPT !.port_start = None, !.port_end = None]

(* The hash of a rule's text, which tells different rules apart.           *)
RuleHash(m) == m

(* The first rule listed whose hash is the one given is sent back as it    *)
(* was received.                                                           *)
SubSgHashedRuleDel(cmd, rules) ==
  {<<<<"sg_rule_del", cmd.sg, m>>>> :
     m \in {r \in rules : RuleHash(r) = RuleHash(cmd.rule)}}
-----------------------------------------------------------------------------
(* What the response to a message carries that a command looks at.         *)
Response(m) ==
  CASE m = <<"nic_details", EmptyText>> ->
         [n \in Nics |-> NicMessage(n, nics[n])]
    [] m[1] = "sg_details" -> [s \in Groups |-> SgMessage(groups[s])]
    [] m[1] = "nic_details" ->
         IF m[2] \in Nics THEN nics[m[2]].sgs ELSE {}
    [] m[1] = "sg_rule_list" ->
         IF m[2] \in Groups THEN SgMessage(groups[m[2]]).rule ELSE {}
    [] OTHER -> None

(* Api0::Process on a message.                                             *)
Handle(m) ==
  \/ m[1] = "nic_add" /\ NicAdd(m[2])
  \/ m[1] = "nic_update" /\ NicUpdate(m[2])
  \/ m[1] = "nic_del" /\ NicDel(m[2])
  \/ m[1] = "nic_details" /\ NicDetails(m[2])
  \/ m[1] = "nic_stats" /\ NicRead(m[2])
  \/ m[1] = "sg_add" /\ SgAdd(m[2], [member |-> {}, rule |-> {}])
  \/ m[1] = "sg_del" /\ SgDel(m[2])
  \/ m[1] = "sg_details" /\ SgDetails(m[2])
  \/ m[1] = "sg_rule_list" /\ SgRuleList(m[2])
  \/ m[1] = "sg_rule_add" /\ SgRuleAdd(m[2], m[3])
  \/ m[1] = "sg_rule_del" /\ SgRuleDel(m[2], m[3])
  \/ m[1] = "sg_member_list" /\ SgMemberList(m[2])
  \/ m[1] = "sg_member_add" /\ SgMemberAdd(m[2], m[3])
  \/ m[1] = "sg_member_del" /\ SgMemberDel(m[2], m[3])
  \/ m[1] \in {"nic_list", "sg_list", "app_status", "app_quit"} /\ ReadOnly(m[1], TRUE)

(* A command ends: the next one of the line starts after a success.        *)
Ended(k, status) ==
  [Idle EXCEPT !.left = IF status = "ok" THEN Tail(k.left) ELSE <<>>,
               !.status = status]

CommandsInit ==
  /\ Init
  /\ clients = [c \in Client |-> Idle] /\ busy = None /\ late = <<>>

Launch(c) ==
  /\ ~ Running(c)
  /\ \E line \in Lines[c] : clients' = [clients EXCEPT ![c] = [Idle EXCEPT !.left = line]]
  /\ UNCHANGED <<vars, busy, late>>

(* A command parses its words, and sends its first request or ends.        *)
Begin(c) ==
  LET k == clients[c]
      cmd == Command(c)
  IN  /\ Running(c) /\ k.todo = <<>>
      /\ \/ /\ Parse(cmd) = "run"
            /\ \E any \in AnyPort :
                 clients' = [clients EXCEPT ![c].todo = Request(cmd, any)]
         \/ /\ Parse(cmd) # "run"
            /\ clients' = [clients EXCEPT ![c] = Ended(k, Parse(cmd))]
      /\ UNCHANGED <<vars, busy, late>>

(* What is left of client k once the responses to a request are complete:  *)
(* the possible ways to go on.                                             *)
After(k) ==
  LET cmd == Head(k.left)
      Go(todo) == IF todo = <<>> THEN Ended(k, "ok") ELSE [k EXCEPT !.todo = todo]
      found == SubSgHashedRuleDel(cmd, k.read[1])
  IN  IF ~ k.good THEN {Ended(k, "fail")}
      ELSE IF Len(k.read) > 1 THEN {Ended(k, "ok")}
      ELSE CASE cmd.do = "nic sg add" -> {Go(SubNicSgAdd(cmd, k.read[1]))}
             [] cmd.do = "nic sg del" -> {Go(SubNicSgDel(cmd, k.read[1]))}
             [] cmd.do = "sg rule del hash" ->
                  IF found = {} THEN {Ended(k, "fail")} ELSE {Go(t) : t \in found}
             [] OTHER -> {Ended(k, "ok")}

(* Mutant of MaySend: requests are executed concurrently.                  *)
MaySendAlways(c) == TRUE

(* The server thread takes a request when it has answered the last.        *)
MaySend(c) == busy \in {None, c}

(* The server executes the next message of a request.  The response to the *)
(* last one is the answer to the client.                                   *)
Execute(c) ==
  LET k == clients[c]
      m == Head(k.todo)
      after == [k EXCEPT !.todo = Tail(@), !.read = Append(@, Response(m)),
                  !.good = @ /\ res'.status = "ok",
                  !.before = IF k.read = <<>> THEN model ELSE @]
  IN  /\ Running(c) /\ k.todo # <<>> /\ MaySend(c)
      /\ Handle(m)
      /\ busy' = IF after.todo = <<>> THEN None ELSE c
      /\ \E k1 \in IF after.todo = <<>> THEN After(after) ELSE {after} :
           clients' = [d \in Client |-> IF d = c THEN k1
                                        ELSE [clients[d] EXCEPT !.before = None]]
      /\ UNCHANGED late

(* A handler throws: the messages after it are not executed, and the only  *)
(* answer is an internal error.                                            *)
Throw(c) ==
  /\ MayThrow /\ Running(c) /\ clients[c].todo # <<>> /\ MaySend(c)
  /\ clients' = [clients EXCEPT ![c] = Ended(@, "fail")]
  /\ busy' = None
  /\ UNCHANGED <<vars, late>>

(* The time-out of a client: its process exits.  The request was not sent, *)
(* or the server has it and goes on with it, unless it has another that    *)
(* was left behind.                                                        *)
GiveUp(c) ==
  LET k == clients[c]
  IN  /\ Running(c) /\ Command(c) \in Hasty /\ k.todo # <<>>
      /\ clients' = [clients EXCEPT ![c] = Ended(k, "fail")]
      /\ \/ busy # c /\ UNCHANGED <<busy, late>>
         \/ /\ late = <<>> /\ late' = k.todo
            /\ busy' = IF busy = c THEN "late" ELSE busy
      /\ UNCHANGED vars

(* The server executes the next message of a request nobody waits for.     *)
ExecuteLate ==
  /\ late # <<>> /\ MaySend("late")
  /\ \/ /\ Handle(Head(late))
        /\ late' = Tail(late)
        /\ clients' = [d \in Client |-> [clients[d] EXCEPT !.before = None]]
     \/ MayThrow /\ late' = <<>> /\ UNCHANGED <<vars, clients>>
  /\ busy' = IF late' = <<>> THEN None ELSE "late"

CommandsNext ==
  \/ \E c \in Client : Launch(c) \/ Begin(c) \/ Execute(c) \/ Throw(c) \/ GiveUp(c)
  \/ ExecuteLate

CommandsSpec == CommandsInit /\ [][CommandsNext]_cvars
-----------------------------------------------------------------------------
(* Properties.  A command of c ends in this step, with this status.        *)
Ends(c, status) ==
  /\ Len(clients'[c].left) < Len(clients[c].left)
  /\ clients'[c].status = status

(* No other client's message was executed since the first one of c was,    *)
(* before which the model was Before(c).                                   *)
Alone(c) == clients[c].read = <<>> \/ clients[c].before # None
Before(c) == IF clients[c].read = <<>> THEN model ELSE clients[c].before

(* What an administrator sees of a model: the groups of a NIC and what a   *)
(* rule filters.  The path of a trace may be lost, see ConvertNicUpdate.   *)
Seen(b) ==
  <<[n \in NicId |-> IF b[1][n] = None THEN None
                     ELSE [b[1][n] EXCEPT !.path = None]],
    [s \in SgId |-> IF b[2][s] = None THEN None ELSE SgEffect(b[2][s])]>>

NewNic(o) ==
  [vni |-> o.vni, ips |-> {Canonical[t] : t \in o.ip}, sgs |-> o.sg,
   antiSpoof |-> o.enable_antispoof, bypass |-> o.bypass_filtering,
   trace |-> OrElse(o.packet_trace, ConfigTrace), path |-> None,
   type |-> OrElse(o.type, "VHOST_USER_SERVER")]

ChangedNic(o, nic) ==
  [nic EXCEPT
     !.ips = IF o.ip \in {{}, {EmptyText}} THEN @
             ELSE {Canonical[t] : t \in o.ip \ {ClearIps, EmptyText}},
     !.antiSpoof = OrElse(o.enable_antispoof, @),
     !.trace = OrElse(o.packet_trace, @)]

(* What the help of the commands says they make of the model v.            *)
Meaning(cmd, v) ==
  LET rules == {Effect(ConvertRule(RuleOf(cmd, 0)))}
      hashed == {Effect(ConvertRule(cmd.rule))}
      sg == OrElse(v[2][cmd.sg], NoSg)
      ip == {Canonical[cmd.ip]}
      In(g) == [v EXCEPT ![2][cmd.sg] = g]
      If(g) == IF v[2][cmd.sg] = None THEN v ELSE In(g)
  IN  CASE Parse(cmd) = "ok" -> v
        [] cmd.do = "nic add" -> [v EXCEPT ![1][cmd.id] = NewNic(cmd)]
        [] cmd.do = "nic update" -> [v EXCEPT ![1][cmd.id] = ChangedNic(cmd, @)]
        [] cmd.do = "nic del" ->
             [v EXCEPT ![1] = [n \in NicId |-> IF n \in ToSet(cmd.words)
                                               THEN None ELSE @[n]]]
        [] cmd.do = "nic sg add" -> [v EXCEPT ![1][cmd.id].sgs = @ \cup ToSet(cmd.words)]
        [] cmd.do = "nic sg del" -> [v EXCEPT ![1][cmd.id].sgs = @ \ ToSet(cmd.words)]
        [] cmd.do = "nic sg set" -> [v EXCEPT ![1][cmd.id].sgs = ToSet(cmd.words)]
        [] cmd.do \in {"sg add", "sg del"} ->
             [v EXCEPT ![2] = [s \in SgId |-> IF s \notin ToSet(cmd.words) THEN @[s]
                                  ELSE IF cmd.do = "sg add" THEN NoSg ELSE None]]
        [] cmd.do = "sg rule add" -> In([sg EXCEPT !.rules = @ \cup rules])
        [] cmd.do = "sg rule del" -> If([sg EXCEPT !.rules = @ \ rules])
        [] cmd.do = "sg rule del hash" -> If([sg EXCEPT !.rules = @ \ hashed])
        [] cmd.do = "sg member add" -> In([sg EXCEPT !.members = @ \cup ip])
        [] cmd.do = "sg member del" -> If([sg EXCEPT !.members = @ \ ip])
        [] OTHER -> v

(* The list of groups a command of c works on.                             *)
ListRead(c) ==
  IF clients[c].read = <<>> THEN nics[Command(c).id].sgs ELSE clients[c].read[1]

(* Where the code departs from it: an update with an empty list leaves the *)
(* groups as they are.                                                     *)
DelSkipped(c) ==
  /\ Command(c).do = "nic sg del" /\ ListRead(c) # {}
  /\ ListRead(c) \subseteq ToSet(Command(c).words)

(* Ports given for another protocol than TCP and UDP are kept in the model *)
(* but are not in the list of rules, so that the rule is not found again.  *)
PortsKept(cmd, b) ==
  /\ cmd.do \in {"sg rule del", "sg rule del hash"}
  /\ b[2][cmd.sg] # None
  /\ \E r \in b[2][cmd.sg].rules : ~ TcpOrUdp(r.protocol) /\ r.port_start # 0

(* A command that no other client interferes with and that exits with 0    *)
(* has made of the model what its help says, all of it and nothing else.   *)
(* A request file means what its messages do, whatever that is.            *)
CommandsMeanWhatTheySay ==
  [][\A c \in Client :
       Ends(c, "ok") /\ Alone(c) /\ Command(c).do # "request" =>
         \/ DelSkipped(c) \/ PortsKept(Command(c), Before(c))
         \/ Seen(model') = Meaning(Command(c), Seen(Before(c)))]_cvars

(* Whatever other clients do between the list and the deletion, deleting a *)
(* rule by its hash never removes a rule other than the one named.         *)
HashNamesTheRule ==
  [][\A c \in Client, s \in SgId :
       /\ Running(c) /\ Command(c).do = "sg rule del hash"
       /\ clients'[c].todo # clients[c].todo /\ groups'[s] # groups[s]
       => \A r \in groups[s].rules \ groups'[s].rules :
            s = Command(c).sg /\ RuleMessage(r) = Command(c).rule]_cvars

(* A command on the groups of a NIC reads the list and writes it back: even *)
(* when another client writes between, the groups named are in the list,   *)
(* or gone from it, when the command exits with 0.                         *)
GroupEditsHold ==
  [][\A c \in Client :
       Ends(c, "ok") =>
         LET cmd == Command(c)
             named == ToSet(cmd.words)
             now == nics'[cmd.id].sgs
         IN  CASE cmd.do = "nic sg add" -> named \subseteq now
               [] cmd.do = "nic sg del" -> DelSkipped(c) \/ named \cap now = {}
               [] OTHER -> TRUE]_cvars

(* The NICs and the groups of a dump are those of one moment, although two *)
(* messages ask for them.                                                  *)
DumpIsSnapshot ==
  [][\A c \in Client :
       Ends(c, "ok") /\ Command(c).do = "dump" =>
         clients[c].read[1] = [n \in Nics |-> NicMessage(n, nics[n])]]_cvars
=============================================================================
