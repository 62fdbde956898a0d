------------------------------ MODULE Firewall ------------------------------
(***************************************************************************)
(* Security groups, NICs and the firewall brick of every NIC.              *)
(*                                                                         *)
(* The API thread (api/server/api.cc) changes app::model, then walks over  *)
(* the NICs the change concerns and rewrites the rule table of their       *)
(* firewall brick (api/server/graph.cc).  The table only takes effect when *)
(* the poller thread executes an FW_RELOAD call that the API thread left   *)
(* in Graph::queue_.  Firewalls are also created and destroyed by the      *)
(* poller, on FW_NEW and BRICK_DESTROY calls.                              *)
(*                                                                         *)
(* A pcap filter is abstracted to the set of alternatives it is the        *)
(* disjunction of: an atom <<rule, source>> for each source the rule       *)
(* admits, so an empty string is the empty set.  Ports, protocols and the  *)
(* spelling of the filter are left out.                                    *)
(***************************************************************************)
EXTENDS Naturals, Sequences, FiniteSets

CONSTANTS
  NicId,       \* ids of NICs
  SgId,        \* ids of security groups
  Ip,          \* IP addresses: group members and addresses of NICs
  Rule,        \* firewall rules, told apart by std::hash<app::Rule>
  RemoteSg,    \* RemoteSg[r]: the group whose members are r's sources, or NoSg
  Outbound,    \* the rules whose direction is OUTBOUND
  Malformed,   \* the rules FwBuildRule rejects (bad port range)
  NoSg,        \* app::Rule::security_group is empty: the rule has a CIDR
  AnySrc,      \* the source of a rule with a CIDR
  Dhcp,        \* the DHCP alternative of the default outgoing filter
  NoNic,       \* no NIC
  NoRule,      \* no rule to add: FwUpdate rebuilds everything
  SgLists,     \* values of app::Nic::security_groups requests carry
  IpLists,     \* values of app::Nic::ip_list requests carry
  Bypass,      \* values of app::Nic::bypass_filtering requests carry
  AntiSpoof,   \* values of app::Nic::ip_anti_spoof requests carry
  MayFail,     \* whether packetgraph calls may fail
  MaxBacklog   \* bound: calls left in the queue when a request starts

ASSUME ConstantsAssumption ==
  /\ RemoteSg \in [Rule -> SgId \cup {NoSg}]
  /\ NoSg \notin SgId
  /\ AnySrc \notin Ip
  /\ Dhcp \notin Ip
  /\ NoNic \notin NicId
  /\ NoRule \notin Rule
  /\ Outbound \subseteq Rule
  /\ Malformed \subseteq Rule
  /\ SgLists \subseteq SUBSET SgId
  /\ IpLists \subseteq SUBSET Ip
  /\ Bypass \subseteq BOOLEAN
  /\ AntiSpoof \subseteq BOOLEAN
  /\ MayFail \in BOOLEAN
  /\ MaxBacklog \in Nat

VARIABLES
  \* app::model
  groups,      \* ids in app::model.security_groups
  rules,       \* rules[s]: app::Sg::rules
  members,     \* members[s]: app::Sg::members
  nics,        \* ids in app::model.nics
  conf,        \* conf[n]: the app::Nic object of n (its parameters)
  \* Graph::vnis_ and the bricks of its NICs
  branches,    \* NICs found in Graph::vnis_
  live,        \* NICs whose firewall brick exists and is referred to
  stagedIn,    \* stagedIn[n]: rules added on PG_WEST_SIDE since the last flush
  stagedOut,   \* stagedOut[n]: the same on PG_EAST_SIDE
  loadedIn,    \* loadedIn[n]: what the last reload made effective, west side
  loadedOut,   \* loadedOut[n]: the same, east side
  defaultOut,  \* NICs whose GraphNic::default_outbound_rule is true
  arp,         \* arp[n]: state of the antispoof brick of n
  \* the two threads
  queue,       \* Graph::queue_, calls that concern firewalls
  running,     \* the call the poller has popped and not finished
  pc,          \* where the API thread is
  todo,        \* NICs SgUpdate and SgUpdateRuleMembers still have to visit
  cur,         \* NIC whose firewall FwUpdate or FwAddRule is rewriting
  req,         \* what the handler in progress still has to do (see Request)
  failed       \* history: NICs whose last rule rewrite pg_firewall refused

model == <<groups, rules, members, nics, conf>>
bricks == <<stagedIn, stagedOut, loadedIn, loadedOut, defaultOut>>
vars == <<model, branches, live, bricks, arp, queue, running, pc, todo, cur,
          req, failed>>

Atom == Rule \X (Ip \cup {AnySrc})
NicConf == [sgs : SUBSET SgId, ips : SUBSET Ip, bypass : BOOLEAN,
            antiSpoof : BOOLEAN]
EmptyConf == [sgs |-> {}, ips |-> {}, bypass |-> FALSE, antiSpoof |-> FALSE]
NoArp == [on |-> FALSE, ips |-> {}]
Rpc == {c \in [action : {"FW_NEW", "FW_RELOAD", "BRICK_DESTROY", "NOTHING"},
                nic : NicId \cup {NoNic}] :
          c.action = "NOTHING" <=> c.nic = NoNic}
Idle == [action |-> "NONE", nic |-> NoNic]   \* the poller executes no call
Nothing == [action |-> "NOTHING", nic |-> NoNic]
Call(a, n) == [action |-> a, nic |-> n]

(* The continuation of a handler: the NIC that NicAdd will create after    *)
(* NicDel, or is creating; the rule that FwAddRule will add to each NIC of  *)
(* todo, NoRule when it is FwUpdate that rebuilds them.                     *)
Request == [adding : NicId \cup {NoNic}, conf : NicConf,
            rule : Rule \cup {NoRule}]
NoRequest == [adding |-> NoNic, conf |-> EmptyConf, rule |-> NoRule]
AddRequest(n, c) == [adding |-> n, conf |-> c, rule |-> NoRule]

Pcs == {"idle", "nic_del", "nic_new", "visit", "fw_in", "fw_out",
        "add_rule", "fw_reload"}

TypeOK ==
  /\ groups \subseteq SgId
  /\ rules \in [SgId -> SUBSET Rule]
  /\ members \in [SgId -> SUBSET Ip]
  /\ nics \subseteq NicId
  /\ conf \in [NicId -> NicConf]
  /\ branches \subseteq NicId
  /\ live \subseteq NicId
  /\ stagedIn \in [NicId -> SUBSET Atom]
  /\ stagedOut \in [NicId -> SUBSET (Atom \cup Ip \cup {Dhcp})]
  /\ loadedIn \in [NicId -> SUBSET Atom]
  /\ loadedOut \in [NicId -> SUBSET (Atom \cup Ip \cup {Dhcp})]
  /\ defaultOut \subseteq NicId
  /\ arp \in [NicId -> [on : BOOLEAN, ips : SUBSET Ip]]
  /\ queue \in Seq(Rpc)
  /\ running \in Rpc \cup {Idle}
  /\ pc \in Pcs
  /\ todo \subseteq ((SgId \cup {NoSg}) \X NicId)
  /\ cur \in NicId \cup {NoNic}
  /\ req \in Request
  /\ failed \subseteq NicId
-----------------------------------------------------------------------------
(* What the rules of the model amount to.                                  *)

(* Graph::FwBuildRule: nothing for a malformed rule, or when the group the *)
(* rule names is missing or has no member.  An OUTBOUND rule is not left   *)
(* out (its CIDR is matched as a destination).                             *)
Sources(r) ==
  IF r \in Malformed THEN {}
  ELSE IF RemoteSg[r] = NoSg THEN {AnySrc}
  ELSE IF RemoteSg[r] \in groups THEN members[RemoteSg[r]] ELSE {}
FwBuildRule(r) == {<<r, src>> : src \in Sources(r)}

(* Graph::FwBuildSg: the disjunction of the rules that are not empty.      *)
FwBuildSg(s) == UNION {FwBuildRule(r) : r \in rules[s]}

(* The in_rules of Graph::FwUpdate: groups that do not exist are skipped.  *)
InRules(n) == UNION {FwBuildSg(s) : s \in conf[n].sgs \cap groups}

(* The out_rules of Graph::FwUpdate: the NIC's addresses, and DHCP.        *)
OutRules(n) == conf[n].ips \cup {Dhcp}

(* Mutant of SgUpdate: NICs with other groups too are missed.              *)
SgUpdateSole(s) == {s} \X {n \in nics : conf[n].sgs = {s}}

(* NICs that Api::SgUpdate visits for group s.                             *)
SgUpdate(s) == {s} \X {n \in nics : s \in conf[n].sgs}

(* Mutant of SgUpdateRuleMembers: only rules of s itself are looked at.    *)
SgUpdateOwnRules(s, gs, rs) ==
  IF \E r \in rs[s] : RemoteSg[r] = s THEN SgUpdate(s) ELSE {}

(* NICs that Api::SgUpdateRuleMembers visits: those of every group, used   *)
(* by some NIC, with a rule whose sources are the members of s.  It reads  *)
(* the model after the change: gs and rs are the new groups and rules.     *)
SgUpdateRuleMembers(s, gs, rs) ==
  UNION {SgUpdate(t) : t \in {t \in gs : \E r \in rs[t] : RemoteSg[r] = s}}
-----------------------------------------------------------------------------
Init ==
  /\ groups = {} /\ nics = {} /\ branches = {} /\ live = {} /\ defaultOut = {}
  /\ rules = [s \in SgId |-> {}]
  /\ members = [s \in SgId |-> {}]
  /\ conf = [n \in NicId |-> EmptyConf]
  /\ stagedIn = [n \in NicId |-> {}] /\ loadedIn = [n \in NicId |-> {}]
  /\ stagedOut = [n \in NicId |-> {}] /\ loadedOut = [n \in NicId |-> {}]
  /\ arp = [n \in NicId |-> NoArp]
  /\ queue = <<>> /\ running = Idle
  /\ pc = "idle" /\ todo = {} /\ cur = NoNic /\ req = NoRequest
  /\ failed = {}

(* A request reaches Api::Process: the API thread is not in a handler.     *)
Ready == pc = "idle" /\ Len(queue) <= MaxBacklog

(* A handler that has changed the model goes on to the NICs in visits.     *)
Visit(visits, rule) ==
  /\ todo' = visits
  /\ pc' = "visit"
  /\ req' = [NoRequest EXCEPT !.rule = rule]
  /\ UNCHANGED <<branches, live, bricks, arp, queue, running, cur, failed>>

ActionSgAdd(s, rs, ms) ==
  /\ Ready
  /\ ~ (s \in groups /\ rules[s] = rs /\ members[s] = ms)
  /\ groups' = groups \cup {s}
  /\ rules' = [rules EXCEPT ![s] = rs]
  /\ members' = [members EXCEPT ![s] = ms]
  /\ UNCHANGED <<nics, conf>>
  /\ Visit(SgUpdate(s) \cup SgUpdateRuleMembers(s, groups', rules'), NoRule)

ActionSgDel(s) ==
  /\ Ready
  /\ s \in groups
  /\ groups' = groups \ {s}
  /\ rules' = [rules EXCEPT ![s] = {}]
  /\ members' = [members EXCEPT ![s] = {}]
  /\ UNCHANGED <<nics, conf>>
  /\ Visit(SgUpdate(s) \cup SgUpdateRuleMembers(s, groups', rules'), NoRule)

(* A missing group is created first.                                       *)
ActionSgRuleAdd(s, r) ==
  /\ Ready
  /\ r \notin rules[s]
  /\ groups' = groups \cup {s}
  /\ rules' = [rules EXCEPT ![s] = @ \cup {r}]
  /\ UNCHANGED <<members, nics, conf>>
  /\ Visit(SgUpdate(s), r)

ActionSgRuleDel(s, r) ==
  /\ Ready
  /\ s \in groups /\ r \in rules[s]
  /\ rules' = [rules EXCEPT ![s] = @ \ {r}]
  /\ UNCHANGED <<groups, members, nics, conf>>
  /\ Visit(SgUpdate(s), NoRule)

(* A missing group is created first.                                       *)
ActionSgMemberAdd(s, ip) ==
  /\ Ready
  /\ ip \notin members[s]
  /\ groups' = groups \cup {s}
  /\ members' = [members EXCEPT ![s] = @ \cup {ip}]
  /\ UNCHANGED <<rules, nics, conf>>
  /\ Visit(SgUpdateRuleMembers(s, groups', rules), NoRule)

(* Mutant of ActionSgMemberDel: no firewall is rewritten.                  *)
SgMemberDelOnly(s, ip) ==
  /\ Ready
  /\ s \in groups /\ ip \in members[s]
  /\ members' = [members EXCEPT ![s] = @ \ {ip}]
  /\ UNCHANGED <<groups, rules, nics, conf>>
  /\ Visit({}, NoRule)

ActionSgMemberDel(s, ip) ==
  /\ Ready
  /\ s \in groups /\ ip \in members[s]
  /\ members' = [members EXCEPT ![s] = @ \ {ip}]
  /\ UNCHANGED <<groups, rules, nics, conf>>
  /\ Visit(SgUpdateRuleMembers(s, groups, rules), NoRule)

-----------------------------------------------------------------------------
(* NIC handlers.  The branch of bricks and its links are in BrickGraph.    *)

Push(calls) == queue' = queue \o calls

(* Graph::WaitEmptyQueue pushes a NOTHING call (see its callers) and       *)
(* returns once the poller has popped it.                                  *)
NoWait == TRUE
WaitEmptyQueue == queue = <<>>

(* Graph::NicDel up to its last WaitEmptyQueue: the firewall is destroyed  *)
(* by the poller.  next is what the handler does afterwards.               *)
NicDel(n, next) ==
  /\ n \in branches
  /\ Push(<<Call("BRICK_DESTROY", n), Nothing>>)
  /\ pc' = "nic_del" /\ cur' = n /\ req' = next
  /\ UNCHANGED <<model, branches, live, bricks, arp, running, todo, failed>>

(* Graph::NicAdd up to its WaitEmptyQueue: the poller makes the firewall.  *)
FwNew(n, c) ==
  /\ Push(<<Call("FW_NEW", n), Nothing>>)
  /\ pc' = "nic_new" /\ cur' = n
  /\ req' = AddRequest(n, c)

ActionNicDel(n) ==
  /\ Ready /\ n \in nics
  /\ NicDel(n, NoRequest)

(* A NIC that exists is deleted first, then the handler starts again.      *)
ActionNicAdd(n, c) ==
  /\ Ready
  /\ \/ /\ n \in nics
        /\ NicDel(n, AddRequest(n, c))
     \/ /\ n \notin nics
        /\ FwNew(n, c)
        /\ UNCHANGED <<model, branches, live, bricks, arp, running, todo,
                       failed>>

(* WaitEmptyQueue returns: the bricks of the NIC leave vnis_ and the NIC   *)
(* leaves the model.  After ActionNicAdd the creation goes on.             *)
NicDelDone ==
  /\ pc = "nic_del" /\ WaitEmptyQueue
  /\ branches' = branches \ {cur}
  /\ nics' = nics \ {cur}
  /\ conf' = [conf EXCEPT ![cur] = EmptyConf]
  /\ arp' = [arp EXCEPT ![cur] = NoArp]
  /\ failed' = failed \ {cur}
  /\ IF req.adding = NoNic
     THEN pc' = "idle" /\ cur' = NoNic /\ UNCHANGED <<queue, req>>
     ELSE FwNew(cur, req.conf)
  /\ UNCHANGED <<groups, rules, members, live, bricks, running, todo>>

(* WaitEmptyQueue returns and the other bricks are made: the branch enters *)
(* vnis_ and NicAdd calls FwUpdate on it.                                  *)
NicNewDone ==
  /\ pc = "nic_new" /\ WaitEmptyQueue
  /\ cur \in live
  /\ branches' = branches \cup {cur}
  /\ conf' = [conf EXCEPT ![cur] = req.conf]
  /\ arp' = [arp EXCEPT ![cur] =
               [on |-> req.conf.antiSpoof,
                ips |-> IF req.conf.antiSpoof THEN req.conf.ips ELSE {}]]
  /\ todo' = {<<NoSg, cur>>}
  /\ pc' = "visit" /\ cur' = NoNic
  /\ UNCHANGED <<groups, rules, members, nics, live, bricks, queue, running,
                 req, failed>>

(* The firewall or another brick could not be made: NicAdd returns false.  *)
(* A firewall that was made is leaked: PgfakeDestroy does not destroy it   *)
(* and nothing refers to it, which is why it leaves live.                  *)
NicNewFails ==
  /\ pc = "nic_new" /\ WaitEmptyQueue
  /\ cur \in live => MayFail
  /\ live' = live \ {cur}
  /\ pc' = "idle" /\ cur' = NoNic /\ req' = NoRequest
  /\ UNCHANGED <<model, branches, bricks, arp, queue, running, todo, failed>>

(* Api::ActionNicUpdate, its address, group and antispoof parts.  c is the *)
(* NIC after the update; a field the request leaves out keeps its value.   *)
ActionNicUpdate(n, c) ==
  /\ Ready
  /\ n \in nics
  /\ c.bypass = conf[n].bypass
  /\ c # conf[n]
  /\ conf' = [conf EXCEPT ![n] = c]
  /\ arp' = IF c.ips = conf[n].ips /\ c.antiSpoof = conf[n].antiSpoof
            THEN arp
            ELSE [arp EXCEPT ![n] = [on |-> c.antiSpoof,
                    ips |-> IF c.antiSpoof THEN c.ips ELSE @.ips]]
  /\ IF c.ips # conf[n].ips \/ c.sgs # conf[n].sgs
     THEN todo' = {<<NoSg, n>>} /\ pc' = "visit"
     ELSE UNCHANGED <<todo, pc>>
  /\ UNCHANGED <<groups, rules, members, nics, branches, live, bricks, queue,
                 running, cur, req, failed>>
-----------------------------------------------------------------------------
(* The API thread rewrites the firewalls of the NICs in todo.  NICs are    *)
(* taken in any order, which covers the order of the std::map.             *)

(* FwUpdate and FwAddRule return at once.                                  *)
Skipped(n) ==
  \/ conf[n].bypass
  \/ n \notin branches
  \/ req.rule # NoRule /\ FwBuildRule(req.rule) = {}

VisitSkip(v) ==
  /\ pc = "visit" /\ v \in todo
  /\ Skipped(v[2])
  /\ todo' = todo \ {v}
  /\ UNCHANGED <<model, branches, live, bricks, arp, queue, running, pc, cur,
                 req, failed>>

(* Mutant of FwUpdateFlush: the rules of the incoming side are kept.       *)
FwUpdateFlushOut(v) ==
  /\ pc = "visit" /\ v \in todo /\ req.rule = NoRule
  /\ ~ Skipped(v[2])
  /\ todo' = todo \ {v}
  /\ stagedOut' = [stagedOut EXCEPT ![v[2]] = {}]
  /\ defaultOut' = defaultOut \cup {v[2]}
  /\ pc' = "fw_in" /\ cur' = v[2]
  /\ UNCHANGED <<model, branches, live, stagedIn, loadedIn, loadedOut, arp,
                 queue, running, req, failed>>

(* Graph::FwUpdate: pg_firewall_rule_flush.                                *)
FwUpdateFlush(v) ==
  /\ pc = "visit" /\ v \in todo /\ req.rule = NoRule
  /\ ~ Skipped(v[2])
  /\ todo' = todo \ {v}
  /\ stagedIn' = [stagedIn EXCEPT ![v[2]] = {}]
  /\ stagedOut' = [stagedOut EXCEPT ![v[2]] = {}]
  /\ defaultOut' = defaultOut \cup {v[2]}
  /\ pc' = "fw_in" /\ cur' = v[2]
  /\ UNCHANGED <<model, branches, live, loadedIn, loadedOut, arp, queue,
                 running, req, failed>>

(* Graph::FwUpdate: pg_firewall_rule_add of in_rules, unless it is empty.  *)
FwUpdateIn ==
  /\ pc = "fw_in"
  /\ stagedIn' = [stagedIn EXCEPT ![cur] = @ \cup InRules(cur)]
  /\ pc' = "fw_out"
  /\ UNCHANGED <<model, branches, live, stagedOut, loadedIn, loadedOut,
                 defaultOut, arp, queue, running, todo, cur, req, failed>>

(* Mutant of FwUpdateOut: DHCP requests are not let out.                   *)
FwUpdateOutNoDhcp ==
  /\ pc = "fw_out"
  /\ stagedOut' = [stagedOut EXCEPT ![cur] = @ \cup conf[cur].ips]
  /\ pc' = "fw_reload"
  /\ UNCHANGED <<model, branches, live, stagedIn, loadedIn, loadedOut,
                 defaultOut, arp, queue, running, todo, cur, req, failed>>

(* Graph::FwUpdate: pg_firewall_rule_add of out_rules.                     *)
FwUpdateOut ==
  /\ pc = "fw_out"
  /\ stagedOut' = [stagedOut EXCEPT ![cur] = @ \cup OutRules(cur)]
  /\ pc' = "fw_reload"
  /\ UNCHANGED <<model, branches, live, stagedIn, loadedIn, loadedOut,
                 defaultOut, arp, queue, running, todo, cur, req, failed>>

(* Graph::FwAddRule up to pg_firewall_rule_flush_side: the first OUTBOUND  *)
(* rule takes the place of the default outgoing filter.                    *)
FwAddRuleFlush(v) ==
  /\ pc = "visit" /\ v \in todo /\ req.rule # NoRule
  /\ ~ Skipped(v[2])
  /\ todo' = todo \ {v}
  /\ IF req.rule \in Outbound /\ v[2] \in defaultOut
     THEN /\ stagedOut' = [stagedOut EXCEPT ![v[2]] = {}]
          /\ defaultOut' = defaultOut \ {v[2]}
     ELSE UNCHANGED <<stagedOut, defaultOut>>
  /\ pc' = "add_rule" /\ cur' = v[2]
  /\ UNCHANGED <<model, branches, live, stagedIn, loadedIn, loadedOut, arp,
                 queue, running, req, failed>>

(* Graph::FwAddRule: pg_firewall_rule_add on the side of the direction.    *)
FwAddRuleAdd ==
  /\ pc = "add_rule"
  /\ IF req.rule \in Outbound
     THEN /\ stagedOut' = [stagedOut EXCEPT ![cur] =
                             @ \cup FwBuildRule(req.rule)]
          /\ UNCHANGED stagedIn
     ELSE /\ stagedIn' = [stagedIn EXCEPT ![cur] =
                            @ \cup FwBuildRule(req.rule)]
          /\ UNCHANGED stagedOut
  /\ pc' = "fw_reload"
  /\ UNCHANGED <<model, branches, live, loadedIn, loadedOut, defaultOut, arp,
                 queue, running, todo, cur, req, failed>>

(* pg_firewall_rule_add fails: the firewall is left as it is, no reload.   *)
FwRuleRefused ==
  /\ MayFail
  /\ \/ pc = "fw_in" /\ InRules(cur) # {}
     \/ pc = "fw_out"
     \/ pc = "add_rule"
  /\ failed' = failed \cup {cur}
  /\ pc' = "visit" /\ cur' = NoNic
  /\ UNCHANGED <<model, branches, live, bricks, arp, queue, running, todo,
                 req>>

(* fw_reload: a whole rewrite makes the NIC's rules right again.           *)
FwReload ==
  /\ pc = "fw_reload"
  /\ Push(<<Call("FW_RELOAD", cur)>>)
  /\ failed' = IF req.rule = NoRule THEN failed \ {cur} ELSE failed
  /\ pc' = "visit" /\ cur' = NoNic
  /\ UNCHANGED <<model, branches, live, bricks, arp, running, todo, req>>

(* Mutant of VisitDone: ActionNicAdd leaves the NIC out of the model.      *)
VisitDoneForgets ==
  /\ pc = "visit" /\ todo = {}
  /\ pc' = "idle" /\ req' = NoRequest
  /\ UNCHANGED <<model, branches, live, bricks, arp, queue, running, todo, cur,
                 failed>>

(* The handler returns; ActionNicAdd puts the NIC in the model.            *)
VisitDone ==
  /\ pc = "visit" /\ todo = {}
  /\ nics' = IF req.adding = NoNic THEN nics ELSE nics \cup {req.adding}
  /\ pc' = "idle" /\ req' = NoRequest
  /\ UNCHANGED <<groups, rules, members, conf, branches, live, bricks, arp,
                 queue, running, todo, cur, failed>>
-----------------------------------------------------------------------------
(* The poller thread: PollerUpdate pops a call, executes it, pops again.   *)

(* Mutant of PollerPop: the last call stays in the queue.                  *)
PollerPopButLast ==
  /\ running = Idle /\ Len(queue) > 1
  /\ running' = Head(queue) /\ queue' = Tail(queue)
  /\ UNCHANGED <<model, branches, live, bricks, arp, pc, todo, cur, req,
                 failed>>

PollerPop ==
  /\ running = Idle /\ queue # <<>>
  /\ running' = Head(queue) /\ queue' = Tail(queue)
  /\ UNCHANGED <<model, branches, live, bricks, arp, pc, todo, cur, req,
                 failed>>

(* The rules of a firewall start and end with the brick.                   *)
DropRules(n) ==
  /\ stagedIn' = [stagedIn EXCEPT ![n] = {}]
  /\ stagedOut' = [stagedOut EXCEPT ![n] = {}]
  /\ loadedIn' = [loadedIn EXCEPT ![n] = {}]
  /\ loadedOut' = [loadedOut EXCEPT ![n] = {}]
  /\ defaultOut' = defaultOut \ {n}

(* pg_firewall_new may fail; a new firewall has no rule.                   *)
PollerFwNew ==
  /\ running.action = "FW_NEW"
  /\ \/ live' = live \cup {running.nic}
     \/ MayFail /\ UNCHANGED live
  /\ DropRules(running.nic)
  /\ running' = Idle
  /\ UNCHANGED <<model, branches, arp, queue, pc, todo, cur, req, failed>>

(* Mutant of PollerFwReload: the call is dropped.                          *)
PollerReloadDropped ==
  /\ running.action = "FW_RELOAD"
  /\ running' = Idle
  /\ UNCHANGED <<model, branches, live, bricks, arp, queue, pc, todo, cur,
                 req, failed>>

(* pg_firewall_reload makes effective the rules staged when it runs.       *)
PollerFwReload ==
  /\ running.action = "FW_RELOAD"
  /\ loadedIn' = [loadedIn EXCEPT ![running.nic] = stagedIn[running.nic]]
  /\ loadedOut' = [loadedOut EXCEPT ![running.nic] = stagedOut[running.nic]]
  /\ running' = Idle
  /\ UNCHANGED <<model, branches, live, stagedIn, stagedOut, defaultOut, arp,
                 queue, pc, todo, cur, req, failed>>

(* pg_firewall_reload fails: the poller logs it and goes on.               *)
PollerFwReloadFails ==
  /\ MayFail
  /\ running.action = "FW_RELOAD"
  /\ failed' = failed \cup {running.nic}
  /\ running' = Idle
  /\ UNCHANGED <<model, branches, live, bricks, arp, queue, pc, todo, cur,
                 req>>

PollerBrickDestroy ==
  /\ running.action = "BRICK_DESTROY"
  /\ live' = live \ {running.nic}
  /\ DropRules(running.nic)
  /\ running' = Idle
  /\ UNCHANGED <<model, branches, arp, queue, pc, todo, cur, req, failed>>

PollerNothing ==
  /\ running.action = "NOTHING"
  /\ running' = Idle
  /\ UNCHANGED <<model, branches, live, bricks, arp, queue, pc, todo, cur,
                 req, failed>>
-----------------------------------------------------------------------------
RequestConf == [sgs : SgLists, ips : IpLists, bypass : Bypass,
                antiSpoof : AntiSpoof]

SgRequest ==
  \E s \in SgId :
    \/ \E rs \in SUBSET Rule, ms \in SUBSET Ip : ActionSgAdd(s, rs, ms)
    \/ ActionSgDel(s)
    \/ \E r \in Rule : ActionSgRuleAdd(s, r) \/ ActionSgRuleDel(s, r)
    \/ \E ip \in Ip : ActionSgMemberAdd(s, ip) \/ ActionSgMemberDel(s, ip)

NicRequest ==
  \E n \in NicId :
    \/ ActionNicDel(n)
    \/ \E c \in RequestConf : ActionNicAdd(n, c) \/ ActionNicUpdate(n, c)

(* The handler in progress goes on.                                        *)
ApiStep ==
  \/ NicDelDone \/ NicNewDone \/ NicNewFails
  \/ \E v \in todo : VisitSkip(v) \/ FwUpdateFlush(v) \/ FwAddRuleFlush(v)
  \/ FwUpdateIn \/ FwUpdateOut \/ FwAddRuleAdd \/ FwRuleRefused
  \/ FwReload \/ VisitDone

PollerStep ==
  \/ PollerPop \/ PollerFwNew \/ PollerFwReload \/ PollerFwReloadFails
  \/ PollerBrickDestroy \/ PollerNothing

Next == SgRequest \/ NicRequest \/ ApiStep \/ PollerStep

Spec == Init /\ [][Next]_vars

(* Both threads keep running; clients need not send anything.              *)
FairSpec == Spec /\ WF_vars(ApiStep) /\ WF_vars(PollerStep)
-----------------------------------------------------------------------------
Filtered == {n \in nics : ~ conf[n].bypass}
Ingress(atoms) == {a \in atoms : a[1] \notin Outbound}
Quiescent == pc = "idle" /\ queue = <<>> /\ running = Idle

(* Once the API thread has answered and the poller has caught up, what a   *)
(* NIC's firewall lets in is what the groups of the model ask for: a rule  *)
(* added alone (FwAddRule) and a rebuild (FwUpdate) agree, and every NIC a *)
(* change of members concerns has been found (SgUpdateRuleMembers).        *)
IngressSynced ==
  Quiescent =>
    \A n \in Filtered \ failed : Ingress(loadedIn[n]) = Ingress(InRules(n))

(* A reload still in the queue never brings back a rule that a request     *)
(* already answered has removed: after the answer, whatever the poller     *)
(* newly lets in is asked for by the model.                                *)
NoStaleOpening ==
  [][pc = "idle" =>
       \A n \in Filtered \ failed :
         Ingress(loadedIn'[n]) \ loadedIn[n] \subseteq InRules(n)]_vars

(* What may go out agrees with the NIC's addresses both in the firewall    *)
(* and in the antispoof brick; once an OUTBOUND rule has taken the place   *)
(* of the default filter, only OUTBOUND rules of the NIC's groups let      *)
(* packets out.                                                            *)
EgressSynced ==
  Quiescent =>
    /\ \A n \in Filtered \ failed :
         IF n \in defaultOut
         THEN loadedOut[n] = OutRules(n)
         ELSE loadedOut[n] \subseteq {a \in InRules(n) : a[1] \in Outbound}
    /\ \A n \in nics :
         /\ arp[n].on = conf[n].antiSpoof
         /\ arp[n].on => arp[n].ips = conf[n].ips

(* app::model.nics and Graph::vnis_ describe the same NICs between two     *)
(* requests, each with a firewall, also when NicAdd failed half way.       *)
ModelMatchesGraph == pc = "idle" => nics = branches /\ branches = live

(* Calls not executed yet, oldest first.                                   *)
Calls == <<running>> \o queue

(* Neither thread touches a firewall that was destroyed: the calls behind  *)
(* a BRICK_DESTROY never name its NIC, and the API thread only rewrites    *)
(* rules of firewalls that exist.                                          *)
NoUseAfterDestroy ==
  /\ \A i \in DOMAIN Calls :
       Calls[i].action \in {"FW_RELOAD", "BRICK_DESTROY"} =>
         /\ Calls[i].nic \in live
         /\ \A j \in 1..(i-1) : Calls[j] # Call("BRICK_DESTROY", Calls[i].nic)
  /\ pc \in {"fw_in", "fw_out", "add_rule", "fw_reload"} => cur \in live

(* The inductive invariant behind the properties above.                    *)
InFirewall == {"fw_in", "fw_out", "add_rule", "fw_reload"}

(* A handler starts with an empty worklist and visits NICs of vnis_ only.  *)
HandlerInv ==
  /\ pc \in {"idle", "nic_del", "nic_new"} => todo = {} /\ req.rule = NoRule
  /\ (pc \in {"idle", "visit"}) <=> (cur = NoNic)
  /\ pc = "idle" => req.adding = NoNic
  /\ pc \in {"fw_in", "fw_out"} => req.rule = NoRule
  /\ pc = "add_rule" => req.rule # NoRule
  /\ pc \in InFirewall => ~ conf[cur].bypass /\ cur \in branches
  /\ pc = "nic_new" => req.adding = cur /\ cur \notin nics

(* vnis_ and the model hold the same NICs, but for the one being added.    *)
OwnedInv ==
  branches = nics \cup (IF pc \in {"idle", "nic_del", "nic_new"} THEN {}
                        ELSE {req.adding} \ {NoNic})

(* Firewalls are only made and destroyed while NicAdd and NicDel wait, and *)
(* the wait ends when everything before its NOTHING has been executed.     *)
BarrierInv ==
  /\ \A i \in DOMAIN queue :
       /\ queue[i].action = "FW_NEW" => pc = "nic_new" /\ queue[i].nic = cur
       /\ queue[i].action = "BRICK_DESTROY" =>
            pc = "nic_del" /\ queue[i].nic = cur
  /\ running.action = "FW_NEW" => pc = "nic_new" /\ running.nic = cur
  /\ running.action = "BRICK_DESTROY" => pc = "nic_del" /\ running.nic = cur
  /\ pc \in {"nic_del", "nic_new"} =>
       IF queue = <<>> THEN running \in {Idle, Nothing}
                       ELSE queue[Len(queue)] = Nothing

AbsentGroupsEmpty ==
  \A s \in SgId \ groups : rules[s] = {} /\ members[s] = {}

ReloadPending(n) ==
  \/ running = Call("FW_RELOAD", n)
  \/ \E i \in DOMAIN queue : queue[i] = Call("FW_RELOAD", n)

Visiting(n) == \E p \in SgId \cup {NoSg} : <<p, n>> \in todo

(* The rules staged in a firewall are right unless its NIC is still to be  *)
(* visited; when one rule is being added they lack at most that rule.      *)
StagedRight(n) == Ingress(stagedIn[n]) = Ingress(InRules(n))
StagedLacksRule(n) ==
  Ingress(stagedIn[n]) \cup Ingress(FwBuildRule(req.rule))
    = Ingress(InRules(n))

StagedOk(n) ==
  /\ (n \notin failed /\ n # cur /\ ~ Visiting(n)) => StagedRight(n)
  /\ (n \notin failed /\ req.rule # NoRule /\ (n = cur \/ Visiting(n))) =>
       StagedLacksRule(n)
  /\ (n = cur /\ pc = "fw_in") => stagedIn[n] = {}
  /\ (n = cur /\ pc = "fw_out") => StagedRight(n)
  /\ (n = cur /\ pc = "fw_reload" /\ (req.rule = NoRule \/ n \notin failed)) =>
       StagedRight(n)

StagedInv == \A n \in branches : ~ conf[n].bypass => StagedOk(n)

(* What is staged for the other side, and the antispoof brick.  FwUpdate   *)
(* rebuilds the default filter; FwAddRule takes it away at the first       *)
(* OUTBOUND rule, and only adds rules of the NIC's groups.                 *)
EgressRight(n) ==
  IF n \in defaultOut
  THEN stagedOut[n] = OutRules(n)
  ELSE stagedOut[n] \subseteq {a \in InRules(n) : a[1] \in Outbound}

EgressOk(n) ==
  /\ (n \notin failed /\ (req.rule = NoRule => n # cur /\ ~ Visiting(n))) =>
       EgressRight(n)
  /\ (req.rule # NoRule /\ (n = cur \/ Visiting(n))) =>
       FwBuildRule(req.rule) \subseteq InRules(n)
  /\ (n = cur /\ pc \in {"fw_in", "fw_out"}) =>
       n \in defaultOut /\ stagedOut[n] = {}
  /\ (n = cur /\ pc = "fw_reload" /\ req.rule = NoRule) =>
       n \in defaultOut /\ EgressRight(n)
  /\ (n = cur /\ pc = "add_rule" /\ req.rule \in Outbound) =>
       n \notin defaultOut

EgressInv == \A n \in branches : ~ conf[n].bypass => EgressOk(n)

ArpInv ==
  \A n \in branches :
    /\ arp[n].on = conf[n].antiSpoof
    /\ arp[n].on => arp[n].ips = conf[n].ips

(* What is loaded is what is staged, or a reload is on its way.            *)
Loaded(n) == loadedIn[n] = stagedIn[n] /\ loadedOut[n] = stagedOut[n]
LoadedInv ==
  \A n \in branches :
    (~ conf[n].bypass /\ n # cur /\ n \notin failed
       /\ (Visiting(n) => req.rule # NoRule))
    => (Loaded(n) \/ ReloadPending(n))

(* A BRICK_DESTROY is the last call but the NOTHING NicDel waits for, and  *)
(* until it is executed the firewalls are those of vnis_.  While NicAdd    *)
(* waits there may be one more.  A reload names a firewall that exists.    *)
DestroyPending == \/ running.action = "BRICK_DESTROY"
                  \/ \E i \in DOMAIN queue : queue[i].action = "BRICK_DESTROY"
LiveInv ==
  /\ \A i \in DOMAIN queue :
       queue[i].action = "BRICK_DESTROY" => i = Len(queue) - 1
  /\ running.action = "BRICK_DESTROY" => Len(queue) = 1
  /\ pc = "nic_del" =>
       /\ cur \in branches
       /\ live = IF DestroyPending THEN branches ELSE branches \ {cur}
  /\ pc = "nic_new" =>
       /\ cur \notin branches
       /\ live \in {branches, branches \cup {cur}}
  /\ pc \notin {"nic_del", "nic_new"} => live = branches
  /\ \A n \in NicId : ReloadPending(n) => n \in live

SyncInv ==
  /\ TypeOK /\ HandlerInv /\ OwnedInv /\ BarrierInv /\ AbsentGroupsEmpty
  /\ LiveInv /\ StagedInv /\ EgressInv /\ ArpInv /\ LoadedInv

(* What the documentation of FwBuildRule promises: "we only take into      *)
(* account inbound rules", so no OUTBOUND rule filters incoming packets.   *)
OnlyInboundRulesIn ==
  \A n \in NicId : \A a \in loadedIn[n] : a[1] \notin Outbound

(* A source the model no longer admits is eventually shut out, unless a    *)
(* later request admits it again or the firewall refuses its rules.        *)
RevocationApplied ==
  \A n \in NicId : \A a \in Atom :
    (n \in Filtered /\ a \in Ingress(loadedIn[n]) /\ a \notin InRules(n))
      ~> (a \notin loadedIn[n] \/ a \in InRules(n) \/ n \in failed)

(* Every request is answered: WaitEmptyQueue always ends.                  *)
RequestsAnswered == (pc # "idle") ~> (pc = "idle")
=============================================================================
