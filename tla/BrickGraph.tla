----------------------------- MODULE BrickGraph -----------------------------
(***************************************************************************)
(* The packet graph of Graph (api/server/graph.cc): bricks, the links      *)
(* between them, the list of bricks the poller polls, and the calls that   *)
(* the API thread leaves to the poller thread in Graph::queue_.            *)
(*                                                                         *)
(*   vtep -- [switch of the VNI] -- firewall -- antispoof -- [sniffer]     *)
(*     -- vhost           (a NIC that bypasses the filtering has neither   *)
(*                         firewall nor antispoof on its way)              *)
(*                                                                         *)
(* A link goes from west to east.  The API thread creates bricks, links a  *)
(* new branch while nothing else refers to it, and destroys bricks when    *)
(* their last reference goes; all other changes are calls in the queue,    *)
(* executed by the poller between two rounds of polling.                   *)
(***************************************************************************)
EXTENDS Naturals, Sequences, FiniteSets

CONSTANTS
  NicId,         \* ids of NICs
  Vni,           \* VXLAN network identifiers
  None,          \* a null pointer, an absent NIC
  ConfigTrace,   \* app::config.packet_trace (command line option -t)
  TraceModes,    \* values of app::Nic::packet_trace NicAdd requests carry
  BypassModes,   \* values of app::Nic::bypass_filtering requests carry
  Updates,       \* parts of ActionNicUpdate that clients use
  VhostMax,      \* GRAPH_VHOST_MAX_SIZE
  VtepMax,       \* most links on the east side of the vtep
  SwitchMax,     \* most links on the east side of a switch
  MayFail,       \* whether the creation of a brick may fail
  MaxPerVni,     \* bound: NICs in one VNI
  MaxBacklog     \* bound: calls left in the queue when a request starts

ASSUME GraphAssumption ==
  /\ None \notin NicId /\ None \notin Vni
  /\ ConfigTrace \in BOOLEAN
  /\ TraceModes \subseteq BOOLEAN
  /\ BypassModes \subseteq BOOLEAN
  /\ Updates \subseteq {"packet_trace", "packet_trace_path"}
  /\ VhostMax \in Nat \ {0} /\ VtepMax \in Nat /\ SwitchMax \in Nat
  /\ MayFail \in BOOLEAN
  /\ MaxPerVni \in Nat /\ MaxBacklog \in Nat

VARIABLES
  branch,   \* branch[n]: the GraphNic of n in vnis_ with n's model, or None
  switch,   \* VNIs whose GraphVni::sw is set
  live,     \* bricks that exist, but for leaked ones
  links,    \* links between bricks, <<west, east>>
  ports,    \* <<vni, brick>>: the vtep sends packets of vni to brick
  poll,     \* NICs in the list the poller polls
  queue,    \* Graph::queue_
  running,  \* the call the poller has popped and not finished
  phase,    \* "poll": the poller handles packets; "update": PollerUpdate
  pc,       \* where the API thread is
  req       \* the NIC NicAdd or NicDel is working on

api == <<pc, req>>
poller == <<running, phase, poll>>
vars == <<branch, switch, live, links, ports, poll, queue, running, phase,
          pc, req>>

(* Bricks.  A change of the trace path creates a sniffer while the one of  *)
(* the NIC, and the one of the last change, still exist.                   *)
Vtep == <<"vtep", None>>
Sw(v) == <<"switch", v>>
Fw(n) == <<"firewall", n>>
As(n) == <<"antispoof", n>>
Vhost(n) == <<"vhost", n>>
Sniffers(n) == {<<"sniffer", n>>, <<"sniffer2", n>>, <<"sniffer3", n>>}
Bricks(n) == {Fw(n), As(n), Vhost(n)} \cup Sniffers(n)
Brick == {Vtep} \cup {Sw(v) : v \in Vni} \cup UNION {Bricks(n) : n \in NicId}

(* GraphNic, with the fields of app::Nic that the graph looks at.          *)
Branch == [vni : Vni, head : Brick, sniffer : Brick \cup {None},
           bypass : BOOLEAN, trace : BOOLEAN, enable : BOOLEAN]

(* A null pointer is neither a brick nor a branch.                         *)
ASSUME NullAssumption == None \notin Brick /\ None \notin Branch

(* Calls.                                                                  *)
Link(w, e) == [action |-> "LINK", args |-> <<w, e>>]
Unlink(b) == [action |-> "UNLINK", args |-> <<b>>]
UnlinkEdge(w, e) == [action |-> "UNLINK_EDGE", args |-> <<w, e>>]
AddVni(b, v) == [action |-> "ADD_VNI", args |-> <<Vtep, b>>, vni |-> v]
FwReload(b) == [action |-> "FW_RELOAD", args |-> <<b>>]
FwNew(n) == [action |-> "FW_NEW", args |-> <<>>, nic |-> n]
BrickDestroy(b) == [action |-> "BRICK_DESTROY", args |-> <<b>>]
UpdatePoll(s) == [action |-> "UPDATE_POLL", args |-> <<>>, nics |-> s]
Nothing == [action |-> "NOTHING", args |-> <<>>]
Idle == [action |-> "NONE", args |-> <<>>]

Rpc ==
  {Link(w, e) : w \in Brick, e \in Brick}
    \cup {Unlink(b) : b \in Brick} \cup {BrickDestroy(b) : b \in Brick}
    \cup {UnlinkEdge(w, e) : w \in Brick, e \in Brick}
    \cup {AddVni(b, v) : b \in Brick, v \in Vni}
    \cup {FwReload(b) : b \in Brick} \cup {FwNew(n) : n \in NicId}
    \cup {UpdatePoll(s) : s \in SUBSET NicId} \cup {Nothing}

Request == [nic : NicId \cup {None}, adding : BOOLEAN, vni : Vni \cup {None},
            bypass : BOOLEAN, trace : BOOLEAN]
NoRequest == [nic |-> None, adding |-> FALSE, vni |-> None,
              bypass |-> FALSE, trace |-> FALSE]

TypeOK ==
  /\ branch \in [NicId -> Branch \cup {None}]
  /\ switch \subseteq Vni
  /\ live \subseteq Brick
  /\ links \subseteq Brick \X Brick
  /\ ports \subseteq Vni \X Brick
  /\ poll \subseteq NicId
  /\ queue \in Seq(Rpc)
  /\ running \in Rpc \cup {Idle}
  /\ phase \in {"poll", "update"}
  /\ pc \in {"idle", "new", "del_switch", "del"}
  /\ req \in Request

Nics == {n \in NicId : branch[n] # None}
NicsOf(v) == {n \in Nics : branch[n].vni = v}
-----------------------------------------------------------------------------
(* What packetgraph does with links.                                       *)

East(w, ls) == {l \in ls : l[1] = w}
West(e, ls) == {l \in ls : l[2] = e}

(* pg_brick_link fails when a side is full.                                *)
CanLink(w, e, ls) ==
  /\ West(e, ls) = {}
  /\ Cardinality(East(w, ls)) < CASE w[1] = "vtep" -> VtepMax
                                  [] w[1] = "switch" -> SwitchMax
                                  [] OTHER -> 1
BrickLink(w, e, ls) == IF CanLink(w, e, ls) THEN ls \cup {<<w, e>>} ELSE ls

(* pg_brick_unlink, and the unlinking pg_brick_destroy starts with.        *)
Without(bs, ls) == {l \in ls : l[1] \notin bs /\ l[2] \notin bs}

(* The vtep forgets the VNI of a brick that is unlinked from it.           *)
Linked(ps, ls) == {p \in ps : <<Vtep, p[2]>> \in ls}
-----------------------------------------------------------------------------
Init ==
  /\ branch = [n \in NicId |-> None]
  /\ switch = {}
  /\ live = {Vtep}
  /\ links = {} /\ ports = {} /\ poll = {}
  /\ queue = <<>> /\ running = Idle /\ phase = "poll"
  /\ pc = "idle" /\ req = NoRequest

Ready == pc = "idle" /\ Len(queue) <= MaxBacklog

(* Graph::WaitEmptyQueue pushes a NOTHING call (see its callers) and       *)
(* returns once the poller has popped it.                                  *)
NoWait == TRUE
WaitEmptyQueue == queue = <<>>

(* Mutants of PollLists: disabled NICs are polled too; one slot too few.   *)
PollListsAll(b) == {{n \in NicId : b[n] # None}}
PollListsShort(b) ==
  LET on == {n \in NicId : b[n] # None /\ b[n].enable}
  IN  {s \in SUBSET on :
         \/ s = on /\ Cardinality(on) < VhostMax - 1
         \/ Cardinality(s) = VhostMax - 2}

(* The lists update_poll may build from branches b: enabled NICs, at most  *)
(* VhostMax - 1.  Which ones are left out depends on the order of ids.     *)
PollLists(b) ==
  LET on == {n \in NicId : b[n] # None /\ b[n].enable}
  IN  {s \in SUBSET on :
         \/ s = on /\ Cardinality(on) < VhostMax
         \/ Cardinality(s) = VhostMax - 1}
-----------------------------------------------------------------------------
(* Graph::NicDel.                                                          *)

Others(n) == NicsOf(branch[n].vni) \ {n}
OtherHead(n) == branch[CHOOSE o \in Others(n) : TRUE].head

(* Mutants of Detach: the VNI is not given to the branch that is left; the *)
(* branch that goes is not unlinked.                                       *)
DetachForgetsVni(n) ==
  IF Cardinality(Others(n)) = 1
  THEN <<Unlink(Sw(branch[n].vni)), Link(Vtep, OtherHead(n))>>
  ELSE <<Unlink(branch[n].head), BrickDestroy(Fw(n))>>
DetachForgetsUnlink(n) ==
  IF Cardinality(Others(n)) = 1
  THEN <<Unlink(Sw(branch[n].vni)), Link(Vtep, OtherHead(n)),
         AddVni(OtherHead(n), branch[n].vni)>>
  ELSE <<BrickDestroy(Fw(n))>>

(* The calls that cut the branch of n from the vtep or the switch.  With   *)
(* two NICs in the VNI the switch goes, and the other branch is linked to  *)
(* the vtep.                                                               *)
Detach(n) ==
  IF Cardinality(Others(n)) = 1
  THEN <<Unlink(Sw(branch[n].vni)), Link(Vtep, OtherHead(n)),
         AddVni(OtherHead(n), branch[n].vni)>>
  ELSE <<Unlink(branch[n].head), BrickDestroy(Fw(n))>>

(* Up to the first WaitEmptyQueue: the branch is no longer polled and is   *)
(* cut from the graph.                                                     *)
NicDel(n, next) ==
  LET off == [branch EXCEPT ![n].enable = FALSE]
  IN  /\ n \in Nics
      /\ branch' = off
      /\ \E s \in PollLists(off) :
           queue' = queue \o <<UpdatePoll(s)>> \o Detach(n) \o <<Nothing>>
      /\ pc' = IF Cardinality(Others(n)) = 1 THEN "del_switch" ELSE "del"
      /\ req' = next
      /\ UNCHANGED <<switch, live, links, ports, poller>>

(* The switch is destroyed by the API thread, the firewall by the poller.  *)
NicDelSwitch ==
  LET v == branch[req.nic].vni
  IN  /\ pc = "del_switch" /\ WaitEmptyQueue
      /\ switch' = switch \ {v}
      /\ live' = live \ {Sw(v)}
      /\ links' = Without({Sw(v)}, links)
      /\ ports' = Linked(ports, links')
      /\ queue' = <<BrickDestroy(Fw(req.nic)), Nothing>>
      /\ pc' = "del"
      /\ UNCHANGED <<branch, poller, req>>

(* The bricks of the branch that are left are destroyed by the API thread, *)
(* and the VNI with them when it is empty.  NicAdd goes on after NicDel    *)
(* when the request was to add a NIC that existed.                         *)
NicDelDone ==
  LET n == req.nic
      v == branch[n].vni
      gone == (Bricks(n) \ {Fw(n)})
                \cup (IF NicsOf(v) = {n} THEN {Sw(v)} ELSE {})
  IN  /\ pc = "del" /\ WaitEmptyQueue
      /\ branch' = [branch EXCEPT ![n] = None]
      /\ switch' = IF NicsOf(v) = {n} THEN switch \ {v} ELSE switch
      /\ live' = live \ gone
      /\ links' = Without(gone, links)
      /\ ports' = Linked(ports, links')
      /\ IF req.adding
         THEN queue' = <<FwNew(n), Nothing>> /\ pc' = "new" /\ UNCHANGED req
         ELSE pc' = "idle" /\ req' = NoRequest /\ UNCHANGED queue
      /\ UNCHANGED poller

ActionNicDel(n) ==
  /\ Ready
  /\ NicDel(n, [NoRequest EXCEPT !.nic = n])
-----------------------------------------------------------------------------
(* Graph::NicAdd.                                                          *)

ActionNicAdd(n, v, bypass, trace) ==
  LET next == [nic |-> n, adding |-> TRUE, vni |-> v, bypass |-> bypass,
               trace |-> trace]
  IN  /\ Ready
      /\ Cardinality(NicsOf(v) \ {n}) < MaxPerVni
      /\ \/ NicDel(n, next)
         \/ /\ n \notin Nics
            /\ queue' = queue \o <<FwNew(n), Nothing>>
            /\ pc' = "new" /\ req' = next
            /\ UNCHANGED <<branch, switch, live, links, ports, poller>>

(* The links of a new branch.  LinkAndStalk goes by the command line, not  *)
(* by the NIC: without a sniffer to chain it links nothing.                *)
InnerLinks(n, s) ==
  IF req.bypass
  THEN IF req.trace THEN {<<s, Vhost(n)>>} ELSE {}
  ELSE {<<Fw(n), As(n)>>} \cup
         CASE ~ ConfigTrace -> {<<As(n), Vhost(n)>>}
           [] ConfigTrace /\ req.trace -> {<<As(n), s>>, <<s, Vhost(n)>>}
           [] ConfigTrace /\ ~ req.trace -> {}

(* Mutant of Attach: the switch of another VNI is taken.                   *)
AttachAnySwitch(v, head) ==
  IF switch = {} THEN <<Link(Vtep, head), AddVni(head, v)>>
  ELSE <<Link(Sw(CHOOSE w \in switch : TRUE), head)>>

(* The calls that put a branch behind the vtep: directly when it is the    *)
(* only one of its VNI, else behind the switch.                            *)
FirstHead(v) == branch[CHOOSE o \in NicsOf(v) : TRUE].head
Attach(v, head) ==
  CASE NicsOf(v) = {} -> <<Link(Vtep, head), AddVni(head, v)>>
    [] Cardinality(NicsOf(v)) = 1 ->
         <<Link(Vtep, Sw(v)), AddVni(Sw(v), v), Link(Sw(v), FirstHead(v)),
           Link(Sw(v), head)>>
    [] OTHER -> <<Link(Sw(v), head)>>

(* The bricks of the branch are made and linked, then the branch is put    *)
(* behind the vtep.  For the second NIC of a VNI the API thread itself     *)
(* unlinks the first branch from the vtep, to put a switch in between.     *)
NicAddDone ==
  LET n == req.nic
      v == req.vni
      s == <<"sniffer", n>>
      head == CASE ~ req.bypass -> Fw(n)
                [] req.bypass /\ req.trace -> s
                [] req.bypass /\ ~ req.trace -> Vhost(n)
      g == [vni |-> v, head |-> head, sniffer |-> IF req.trace THEN s ELSE None,
            bypass |-> req.bypass, trace |-> req.trace, enable |-> TRUE]
      size == Cardinality(NicsOf(v))
      new == {As(n), Vhost(n)} \cup (IF req.trace THEN {s} ELSE {})
               \cup (IF size = 1 THEN {Sw(v)} ELSE {})
  IN  /\ pc = "new" /\ WaitEmptyQueue /\ Fw(n) \in live
      /\ size = 1 => <<Vtep, FirstHead(v)>> \in links
      /\ branch' = [branch EXCEPT ![n] = g]
      /\ switch' = IF size = 1 THEN switch \cup {v} ELSE switch
      /\ live' = live \cup new
      /\ links' = InnerLinks(n, s) \cup
                    (IF size = 1 THEN links \ {<<Vtep, FirstHead(v)>>} ELSE links)
      /\ ports' = Linked(ports, links')
      /\ \E l \in PollLists(branch') :
           queue' = Attach(v, head) \o <<UpdatePoll(l)>>
                      \o IF req.bypass THEN <<>> ELSE <<FwReload(Fw(n))>>
      /\ pc' = "idle" /\ req' = NoRequest
      /\ UNCHANGED poller

(* A brick cannot be made, or the first branch is not linked to the vtep:  *)
(* NicAdd returns false and what was made goes, except the switch and the  *)
(* firewall, which is leaked: PgfakeDestroy does not destroy it.  It leaves *)
(* live, the bricks something may refer to.                                *)
NicAddFails ==
  LET n == req.nic
      v == req.vni
      noEdge == \E o \in NicsOf(v) :
                  NicsOf(v) = {o} /\ <<Vtep, branch[o].head>> \notin links
  IN  /\ pc = "new" /\ WaitEmptyQueue
      /\ \/ /\ Fw(n) \notin live \/ MayFail
            /\ live' = live \ {Fw(n)} /\ UNCHANGED switch
         \/ /\ Fw(n) \in live /\ noEdge
            /\ live' = (live \ {Fw(n)}) \cup {Sw(v)}
            /\ switch' = switch \cup {v}
      /\ pc' = "idle" /\ req' = NoRequest
      /\ UNCHANGED <<branch, links, ports, poller, queue>>
-----------------------------------------------------------------------------
(* Api::ActionNicUpdate, its packet trace parts.  They only touch one      *)
(* GraphNic and push calls: an edit e gathers the branch g, the calls, the *)
(* sniffers made and those whose last reference went; poll is the list     *)
(* that update_poll builds, the same all along.                            *)

(* Mutant of SetHead: the sniffer of the NIC goes too.                     *)
SetHeadDropsSniffer(e, b) ==
  [e EXCEPT !.g.head = b, !.gone = @ \cup ({e.g.head} \cap Sniffers(e.n))]

SetHead(e, b) ==
  [e EXCEPT !.g.head = b,
            !.gone = @ \cup (({e.g.head} \cap Sniffers(e.n))
                               \ {e.g.sniffer, b})]

(* Mutant of LinkSniffer: no difference for a filtered NIC.                *)
LinkSnifferAround(e, s) ==
  [SetHead(e, s) EXCEPT !.calls = @ \o
     <<Unlink(Vhost(e.n)), Link(s, Vhost(e.n)), Link(Vtep, s),
       AddVni(s, e.g.vni)>>]

LinkSniffer(e, s) ==
  LET n == e.n
      x == SetHead(e, s)
  IN  [x EXCEPT !.calls = @ \o
         IF e.g.bypass
         THEN <<Unlink(Vhost(n)), Link(s, Vhost(n)), Link(Vtep, s),
                AddVni(s, e.g.vni)>>
         ELSE <<UnlinkEdge(As(n), Vhost(n)), Link(As(n), s),
                Link(s, Vhost(n))>>]

EnablePacketTrace(e, ok) ==
  LET s == CHOOSE b \in Sniffers(e.n) : b \notin live
  IN  CASE e.g.trace -> e
        [] ~ e.g.trace /\ e.g.sniffer # None -> LinkSniffer(e, e.g.sniffer)
        [] ~ e.g.trace /\ e.g.sniffer = None /\ ~ ok -> e
        [] ~ e.g.trace /\ e.g.sniffer = None /\ ok ->
             LinkSniffer([e EXCEPT !.g.sniffer = s, !.made = @ \cup {s}], s)

(* Mutant of DisablePacketTrace: the bricks around the sniffer stay apart. *)
DisableWithoutRelink(e) ==
  IF ~ e.g.trace \/ e.g.sniffer = None
  THEN e
  ELSE [SetHead(e, IF e.g.bypass THEN Vhost(e.n) ELSE As(e.n))
          EXCEPT !.calls = Append(@, Unlink(e.g.sniffer))]

DisablePacketTrace(e) ==
  LET n == e.n
      b == IF e.g.bypass THEN Vhost(n) ELSE As(n)
      x == SetHead(e, b)
  IN  IF ~ e.g.trace \/ e.g.sniffer = None
      THEN e
      ELSE [x EXCEPT !.calls = @ \o <<Unlink(e.g.sniffer)>> \o
              IF e.g.bypass
              THEN <<Link(Vtep, b), AddVni(b, e.g.vni)>>
              ELSE <<Link(As(n), Vhost(n))>>]

NicConfigPacketTrace(e, trace, ok) ==
  LET x == IF trace THEN EnablePacketTrace(e, ok) ELSE DisablePacketTrace(e)
  IN  [x EXCEPT !.g.trace = trace, !.calls = Append(@, UpdatePoll(e.poll))]

(* The new sniffer is known to the head only: GraphNic::sniffer keeps the  *)
(* old one.                                                                *)
NicConfigPacketTracePath(e, ok) ==
  LET x == DisablePacketTrace(e)
      s == CHOOSE b \in Sniffers(e.n) : b \notin live \cup e.made
      y == LinkSniffer([x EXCEPT !.made = @ \cup {s}], s)
  IN  IF ok THEN [y EXCEPT !.calls = Append(@, UpdatePoll(e.poll))] ELSE x

(* trace is the packet_trace field of the request, None when it has none;  *)
(* newPath: the trace path of the request is not the NIC's; fw: addresses  *)
(* or groups change too; ok: a new sniffer can be made; list: what         *)
(* update_poll builds.                                                     *)
ActionNicUpdate(n, trace, newPath, fw, ok, list) ==
  LET e0 == [n |-> n, g |-> branch[n], calls |-> <<>>, made |-> {},
             gone |-> {}, poll |-> list]
      e1 == IF trace = None THEN e0 ELSE NicConfigPacketTrace(e0, trace, ok)
      e2 == IF newPath /\ e1.g.trace THEN NicConfigPacketTracePath(e1, ok)
            ELSE e1
  IN  /\ Ready /\ n \in Nics
      /\ branch' = [branch EXCEPT ![n] = e2.g]
      /\ live' = (live \cup e2.made) \ e2.gone
      /\ links' = Without(e2.gone, links)
      /\ ports' = Linked(ports, links')
      /\ queue' = queue \o e2.calls
           \o (IF fw /\ ~ branch[n].bypass THEN <<FwReload(Fw(n))>> ELSE <<>>)
      /\ UNCHANGED <<switch, poller, api>>

(* A security group request that concerns n rewrites its firewall.         *)
SgRequest(n) ==
  /\ Ready /\ n \in Nics /\ ~ branch[n].bypass
  /\ queue' = Append(queue, FwReload(Fw(n)))
  /\ UNCHANGED <<branch, switch, live, links, ports, poller, api>>
-----------------------------------------------------------------------------
(* The poller thread.                                                      *)

(* PollerUpdate is called every 1024 rounds of polling, and returns when   *)
(* the queue is empty.                                                     *)
PollerUpdateBegin ==
  /\ phase = "poll" /\ queue # <<>>
  /\ phase' = "update"
  /\ UNCHANGED <<branch, switch, live, links, ports, poll, queue, running,
                 api>>

PollerUpdateEnd ==
  /\ phase = "update" /\ running = Idle /\ queue = <<>>
  /\ phase' = "poll"
  /\ UNCHANGED <<branch, switch, live, links, ports, poll, queue, running,
                 api>>

PollerPop ==
  /\ phase = "update" /\ running = Idle /\ queue # <<>>
  /\ running' = Head(queue) /\ queue' = Tail(queue)
  /\ UNCHANGED <<branch, switch, live, links, ports, poll, phase, api>>

(* Executing the call that was popped.                                     *)
Executed == running' = Idle /\ UNCHANGED <<branch, switch, queue, phase, api>>

PollerLink ==
  /\ running.action = "LINK"
  /\ links' = BrickLink(running.args[1], running.args[2], links)
  /\ Executed /\ UNCHANGED <<live, ports, poll>>

PollerUnlink ==
  /\ running.action = "UNLINK"
  /\ links' = Without({running.args[1]}, links)
  /\ ports' = Linked(ports, links')
  /\ Executed /\ UNCHANGED <<live, poll>>

PollerUnlinkEdge ==
  /\ running.action = "UNLINK_EDGE"
  /\ links' = links \ {running.args}
  /\ ports' = Linked(ports, links')
  /\ Executed /\ UNCHANGED <<live, poll>>

(* pg_vtep_add_vni fails for a brick that is not linked to the vtep.       *)
PollerAddVni ==
  /\ running.action = "ADD_VNI"
  /\ ports' = Linked({p \in ports : p[1] # running.vni}
                       \cup {<<running.vni, running.args[2]>>}, links)
  /\ Executed /\ UNCHANGED <<live, links, poll>>

(* Mutant of PollerUpdatePoll: only the first list is taken.               *)
PollerUpdatePollOnce ==
  /\ running.action = "UPDATE_POLL"
  /\ poll' = IF poll = {} THEN running.nics ELSE poll
  /\ Executed /\ UNCHANGED <<live, links, ports>>

PollerUpdatePoll ==
  /\ running.action = "UPDATE_POLL"
  /\ poll' = running.nics
  /\ Executed /\ UNCHANGED <<live, links, ports>>

PollerFwNew ==
  /\ running.action = "FW_NEW"
  /\ \/ live' = live \cup {Fw(running.nic)}
     \/ MayFail /\ UNCHANGED live
  /\ Executed /\ UNCHANGED <<links, ports, poll>>

(* Mutant of PollerBrickDestroy: the brick is unlinked and kept.           *)
PollerBrickUnlinkOnly ==
  /\ running.action = "BRICK_DESTROY"
  /\ links' = Without({running.args[1]}, links)
  /\ ports' = Linked(ports, links')
  /\ Executed /\ UNCHANGED <<live, poll>>

PollerBrickDestroy ==
  /\ running.action = "BRICK_DESTROY"
  /\ live' = live \ {running.args[1]}
  /\ links' = Without({running.args[1]}, links)
  /\ ports' = Linked(ports, links')
  /\ Executed /\ UNCHANGED poll

(* NOTHING, and FW_RELOAD whose effect is in Firewall.                     *)
PollerOther ==
  /\ running.action \in {"NOTHING", "FW_RELOAD"}
  /\ Executed /\ UNCHANGED <<live, links, ports, poll>>
-----------------------------------------------------------------------------
ApiRequest ==
  \E n \in NicId :
    \/ ActionNicDel(n)
    \/ \E v \in Vni, b \in BypassModes, t \in TraceModes :
         ActionNicAdd(n, v, b, t)
    \/ SgRequest(n)
    \/ \E t \in (IF "packet_trace" \in Updates THEN BOOLEAN ELSE {}) \cup {None},
          p \in (IF "packet_trace_path" \in Updates THEN BOOLEAN ELSE {FALSE}),
          fw \in BOOLEAN, ok \in (IF MayFail THEN BOOLEAN ELSE {TRUE}),
          l \in PollLists(branch) :
         ActionNicUpdate(n, t, p, fw, ok, l)

ApiStep == NicDelSwitch \/ NicDelDone \/ NicAddDone \/ NicAddFails

PollerStep ==
  \/ PollerUpdateBegin \/ PollerUpdateEnd \/ PollerPop
  \/ PollerLink \/ PollerUnlink \/ PollerUnlinkEdge \/ PollerAddVni
  \/ PollerUpdatePoll \/ PollerFwNew \/ PollerBrickDestroy \/ PollerOther

Next == ApiRequest \/ ApiStep \/ PollerStep

Spec == Init /\ [][Next]_vars

(* Both threads keep running; clients need not send anything.              *)
FairSpec == Spec /\ WF_vars(ApiStep) /\ WF_vars(PollerStep)
-----------------------------------------------------------------------------
Quiescent == pc = "idle" /\ queue = <<>> /\ running = Idle

(* Calls not executed yet, oldest first.                                   *)
Calls == <<running>> \o queue

(* A call never reaches a brick after it was destroyed, be it by an older  *)
(* BRICK_DESTROY or by the API thread dropping its last reference: that is *)
(* what WaitEmptyQueue is for in NicDel.                                   *)
CallsOnLiveBricks ==
  \A i \in DOMAIN Calls : \A k \in DOMAIN Calls[i].args :
    LET b == Calls[i].args[k]
    IN  /\ b \in live
        /\ \A j \in 1..(i-1) : Calls[j] # BrickDestroy(b)

(* The poller never polls a vhost brick, nor collects the garbage of a     *)
(* firewall, that was destroyed by either thread.                          *)
PolledBricksLive == \A n \in poll : {Vhost(n), Fw(n)} \subseteq live

(* The first brick of the branch of n, and the bricks on its way to vhost. *)
FirstBrick(n) ==
  CASE ~ branch[n].bypass -> Fw(n)
    [] branch[n].bypass /\ branch[n].trace -> branch[n].head
    [] branch[n].bypass /\ ~ branch[n].trace -> Vhost(n)

(* A path of links from a brick to the vhost of n.                         *)
LinkedOnTo(b, n) ==
  LET reach1 == {b} \cup {l[2] : l \in {k \in links : k[1] = b}}
      reach2 == reach1 \cup {l[2] : l \in {k \in links : k[1] \in reach1}}
      reach3 == reach2 \cup {l[2] : l \in {k \in links : k[1] \in reach2}}
  IN  Vhost(n) \in reach3

(* When nothing is in progress every NIC is connected: packets of its VNI  *)
(* go from the vtep to its first brick, through the switch exactly when    *)
(* the VNI has several NICs, and on to its vhost.                          *)
NicsConnected ==
  Quiescent =>
    \A n \in Nics :
      LET v == branch[n].vni
          first == FirstBrick(n)
      IN  /\ LinkedOnTo(first, n)
          /\ IF NicsOf(v) = {n}
             THEN <<Vtep, first>> \in links /\ <<v, first>> \in ports
             ELSE /\ <<Vtep, Sw(v)>> \in links /\ <<v, Sw(v)>> \in ports
                  /\ <<Sw(v), first>> \in links

(* Networks are isolated at all times: two bricks other than the vtep are  *)
(* only linked inside one VNI, and the vtep never sends packets of a VNI   *)
(* to a brick of another.                                                  *)
VniOf(b) == IF b[1] = "switch" THEN b[2]
            ELSE IF branch[b[2]] # None THEN branch[b[2]].vni
            ELSE req.vni
VniIsolation ==
  /\ \A l \in links : l[1] = Vtep \/ VniOf(l[1]) = VniOf(l[2])
  /\ \A p \in ports : VniOf(p[2]) = p[1]

(* Packets never reach the vhost of a filtered NIC around its firewall.    *)
NoUnfilteredPath ==
  \A n \in Nics : ~ branch[n].bypass =>
    \A l \in links :
      l[2] \in {As(n), Vhost(n)} \cup Sniffers(n) => l[1] \in Bricks(n)

(* When nothing is in progress the poller polls every NIC, up to the       *)
(* VhostMax - 1 that fit in its list.                                      *)
PollListComplete ==
  Quiescent =>
    /\ poll \subseteq Nics
    /\ poll = Nics \/ Cardinality(poll) = VhostMax - 1

(* A brick that the API thread destroys is linked to no brick that stays:  *)
(* the poller may be carrying packets through that one.                    *)
DestroyedBricksIsolated ==
  [][running' = running =>
       \A l \in links : (l[1] \in live') <=> (l[2] \in live')]_vars

(* A NIC that was added is eventually polled, unless it is deleted.        *)
NicsEventuallyPolled ==
  \A n \in NicId : (n \in Nics) ~> (n \in poll \/ n \notin Nics)

(* A deleted NIC is eventually off the poll list and its bricks are gone.  *)
DeletesComplete ==
  \A n \in NicId :
    (pc \in {"del", "del_switch"} /\ req.nic = n)
      ~> (n \notin poll /\ Bricks(n) \cap live = {})
=============================================================================
