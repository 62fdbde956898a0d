-------------------------- MODULE BrickGraphProofs --------------------------
(***************************************************************************)
(* Proofs about BrickGraph, for any NICs, VNIs and bounds: the invariant   *)
(* that the calls left in the queue and the state of the handlers keep,    *)
(* then the theorems that follow from it.                                  *)
(***************************************************************************)
EXTENDS BrickGraph, FiniteSetTheorems, SequenceTheorems, TLAPS

-----------------------------------------------------------------------------
(* The invariant.                                                          *)

Deleting(n) == pc \in {"del", "del_switch"} /\ req.nic = n

(* The request in progress: NicAdd waits for a firewall of a NIC that is   *)
(* not there, NicDel works on one that is, and that alone is disabled.     *)
ReqInv ==
  /\ pc = "new" => req.nic \in NicId \ Nics /\ req.vni \in Vni
  /\ pc \in {"del", "del_switch"} =>
       req.nic \in Nics /\ (req.adding => req.vni \in Vni)
  /\ \A n \in Nics : branch[n].enable <=> ~ Deleting(n)
  /\ \A n \in Nics : /\ branch[n].head \in Bricks(n)
                     /\ branch[n].sniffer \in Sniffers(n) \cup {None}

(* Links and ports are inside one VNI, and only of NICs in vnis_.          *)
JoinOk(w, e) ==
  \/ \E v \in Vni : w = Vtep /\ e = Sw(v)
  \/ \E n \in Nics : /\ e \in Bricks(n)
                     /\ w \in Bricks(n) \cup {Vtep, Sw(branch[n].vni)}
PortOk(v, b) == b = Sw(v) \/ \E n \in NicsOf(v) : b \in Bricks(n)

(* What a call in the queue may be.                                        *)
GoodCall(c) ==
  \/ c.action \in {"NOTHING", "FW_RELOAD", "UNLINK", "UNLINK_EDGE"}
  \/ c.action = "UPDATE_POLL" /\ c.nics \subseteq Nics
  \/ c.action = "FW_NEW" /\ pc = "new" /\ c.nic = req.nic
  \/ c.action = "BRICK_DESTROY" /\ pc = "del" /\ c.args[1] = Fw(req.nic)
  \/ c.action = "LINK" /\ JoinOk(c.args[1], c.args[2])
  \/ c.action = "ADD_VNI" /\ PortOk(c.vni, c.args[2])
GoodCalls == {c \in Rpc : GoodCall(c)}

ShapeInv ==
  /\ queue \in Seq(GoodCalls)
  /\ running \in GoodCalls \cup {Idle}
  /\ \A l \in links : JoinOk(l[1], l[2])
  /\ \A p \in ports : PortOk(p[1], p[2])

(* While a handler waits its NOTHING is the last call.                     *)
BarrierInv ==
  pc # "idle" => IF queue = <<>> THEN running \in {Nothing, Idle}
                 ELSE queue[Len(queue)] = Nothing

(* NicDel's BRICK_DESTROY is followed by that NOTHING alone; once it is    *)
(* executed nothing of the firewall is left.                               *)
DestroyInv ==
  /\ \A i \in 1..Len(queue) :
       queue[i].action = "BRICK_DESTROY" => i = Len(queue) - 1
  /\ running.action = "BRICK_DESTROY" => Len(queue) = 1
  /\ pc = "del" =>
       \/ /\ Len(queue) > 1 /\ queue[Len(queue) - 1] = BrickDestroy(Fw(req.nic))
          /\ Fw(req.nic) \in live
       \/ /\ Len(queue) = 1 /\ running = BrickDestroy(Fw(req.nic))
          /\ Fw(req.nic) \in live
       \/ /\ Len(queue) <= 1 /\ running \in {Nothing, Idle}
          /\ Fw(req.nic) \notin live
          /\ \A l \in links : l[1] # Fw(req.nic) /\ l[2] # Fw(req.nic)

(* The last list the poller will have got is one of the enabled NICs.      *)
PollsIn(q) == {i \in 1..Len(q) : q[i].action = "UPDATE_POLL"}
PollOk(q, r, p, b) ==
  \/ /\ PollsIn(q) = {}
     /\ r.action = "UPDATE_POLL" => r.nics \in PollLists(b)
     /\ r.action # "UPDATE_POLL" => p \in PollLists(b)
  \/ \E i \in PollsIn(q) : /\ q[i].nics \in PollLists(b)
                           /\ \A j \in PollsIn(q) : j <= i
PollInv == poll \subseteq Nics /\ PollOk(queue, running, poll, branch)

(* The bricks of a NIC live as long as it is in vnis_.                     *)
LiveInv ==
  /\ Vtep \in live
  /\ \A n \in Nics :
       /\ {As(n), Vhost(n)} \subseteq live
       /\ Fw(n) \in live \/ (pc = "del" /\ req.nic = n)
       /\ Sniffers(n) \cap live \subseteq {branch[n].sniffer, branch[n].head}
  /\ \A n \in NicId \ Nics :
       Bricks(n) \cap live \subseteq IF pc = "new" /\ req.nic = n THEN {Fw(n)} ELSE {}

GraphInv ==
  TypeOK /\ ReqInv /\ ShapeInv /\ BarrierInv /\ DestroyInv /\ PollInv /\ LiveInv

-----------------------------------------------------------------------------
(* Bricks, calls and sequences of calls.                                   *)

LEMMA BrickTypes ==
  ASSUME NEW n \in NicId, NEW v \in Vni
  PROVE  /\ Bricks(n) \subseteq Brick /\ Vtep \in Brick /\ Sw(v) \in Brick
         /\ {Fw(n), As(n), Vhost(n)} \subseteq Bricks(n)
         /\ Sniffers(n) \subseteq Bricks(n)
BY DEF Brick, Bricks

(* A brick of a NIC names it.                                              *)
LEMMA OwnBrick ==
  ASSUME NEW n, NEW b \in Bricks(n)
  PROVE  /\ b = <<b[1], n>> /\ b[2] = n
         /\ b[1] \notin {"vtep", "switch"}
         /\ b[1] = "firewall" => b = Fw(n)
         /\ b \in Sniffers(n) => b[1] \in {"sniffer", "sniffer2", "sniffer3"}
BY DEF Bricks, Sniffers, Fw, As, Vhost

LEMMA BrickKinds ==
  ASSUME NEW n, NEW v, NEW b \in Bricks(n)
  PROVE  b # Vtep /\ b # Sw(v) /\ Sw(v) # Vtep
<1>1. b[1] # "vtep" /\ b[1] # "switch" /\ Vtep[1] = "vtep" /\ Sw(v)[1] = "switch"
  BY OwnBrick DEF Vtep, Sw
<1> QED BY <1>1

LEMMA NicBricksDiffer ==
  ASSUME NEW n
  PROVE  /\ Fw(n) # As(n) /\ Fw(n) # Vhost(n) /\ As(n) # Vhost(n)
         /\ {Fw(n), As(n), Vhost(n)} \cap Sniffers(n) = {}
BY DEF Fw, As, Vhost, Sniffers

(* The calls, by their action.                                             *)
LEMMA CallCases ==
  ASSUME NEW c \in Rpc
  PROVE  /\ c.action = "LINK" =>
              /\ c.args[1] \in Brick /\ c.args[2] \in Brick
              /\ c = Link(c.args[1], c.args[2])
         /\ c.action \in {"UNLINK", "FW_RELOAD", "BRICK_DESTROY"} =>
              c.args[1] \in Brick /\ c.args = <<c.args[1]>>
         /\ c.action = "UNLINK_EDGE" =>
              /\ c.args[1] \in Brick /\ c.args[2] \in Brick
              /\ c.args = <<c.args[1], c.args[2]>>
         /\ c.action = "ADD_VNI" => /\ c.vni \in Vni /\ c.args[2] \in Brick
                                    /\ c = AddVni(c.args[2], c.vni)
         /\ c.action = "UPDATE_POLL" => c.nics \subseteq NicId /\ c = UpdatePoll(c.nics)
         /\ c.action = "FW_NEW" => c.nic \in NicId /\ c = FwNew(c.nic)
         /\ c.action = "NOTHING" => c = Nothing
         /\ c.action = "BRICK_DESTROY" => c = BrickDestroy(c.args[1])
         /\ c.action \in {"LINK", "UNLINK", "UNLINK_EDGE", "ADD_VNI", "FW_RELOAD",
                          "FW_NEW", "BRICK_DESTROY", "UPDATE_POLL", "NOTHING"}
BY DEF Rpc, Link, Unlink, UnlinkEdge, AddVni, FwReload, FwNew, BrickDestroy,
       UpdatePoll, Nothing

LEMMA CallTypes ==
  ASSUME NEW w \in Brick, NEW e \in Brick, NEW v \in Vni, NEW n \in NicId,
         NEW s \in SUBSET NicId
  PROVE  /\ Link(w, e) \in Rpc /\ Unlink(w) \in Rpc /\ UnlinkEdge(w, e) \in Rpc
         /\ AddVni(e, v) \in Rpc /\ FwReload(w) \in Rpc /\ FwNew(n) \in Rpc
         /\ BrickDestroy(w) \in Rpc /\ UpdatePoll(s) \in Rpc /\ Nothing \in Rpc
BY DEF Rpc

LEMMA CallFields ==
  ASSUME NEW w, NEW e, NEW v, NEW n, NEW s
  PROVE  /\ Link(w, e).action = "LINK" /\ Link(w, e).args[1] = w
         /\ Link(w, e).args[2] = e /\ Unlink(w).action = "UNLINK"
         /\ UnlinkEdge(w, e).action = "UNLINK_EDGE"
         /\ AddVni(e, v).action = "ADD_VNI" /\ AddVni(e, v).args[2] = e
         /\ AddVni(e, v).vni = v /\ FwReload(w).action = "FW_RELOAD"
         /\ FwNew(n).action = "FW_NEW" /\ FwNew(n).nic = n
         /\ BrickDestroy(w).action = "BRICK_DESTROY" /\ BrickDestroy(w).args[1] = w
         /\ UpdatePoll(s).action = "UPDATE_POLL" /\ UpdatePoll(s).nics = s
         /\ Nothing.action = "NOTHING" /\ Idle.action = "NONE"
BY DEF Link, Unlink, UnlinkEdge, AddVni, FwReload, FwNew, BrickDestroy,
       UpdatePoll, Nothing, Idle

LEMMA SeqMonotone ==
  ASSUME NEW S, NEW T, S \subseteq T, NEW q \in Seq(S)
  PROVE  q \in Seq(T)
OBVIOUS

LEMMA SeqLiterals ==
  ASSUME NEW S, NEW a \in S, NEW b \in S, NEW c \in S, NEW d \in S
  PROVE  /\ <<>> \in Seq(S) /\ <<a>> \in Seq(S) /\ <<a, b>> \in Seq(S)
         /\ <<a, b, c>> \in Seq(S) /\ <<a, b, c, d>> \in Seq(S)
OBVIOUS

LEMMA SeqJoin ==
  ASSUME NEW S, NEW q \in Seq(S), NEW r \in Seq(S), NEW a \in S
  PROVE  q \o r \in Seq(S) /\ Append(q, a) \in Seq(S)
OBVIOUS

LEMMA SeqAssociative ==
  ASSUME NEW q \in Seq(Rpc), NEW r \in Seq(Rpc), NEW t \in Seq(Rpc)
  PROVE  q \o (r \o t) = (q \o r) \o t
OBVIOUS

LEMMA SeqAppend ==
  ASSUME NEW q \in Seq(Rpc), NEW r \in Seq(Rpc), NEW a
  PROVE  q \o Append(r, a) = Append(q \o r, a) /\ q \o <<>> = q
OBVIOUS

LEMMA TailFacts ==
  ASSUME NEW q \in Seq(Rpc), q # <<>>
  PROVE  /\ Len(q) \in Nat \ {0} /\ Len(Tail(q)) = Len(q) - 1
         /\ Head(q) = q[1] /\ Head(q) \in Rpc /\ Tail(q) \in Seq(Rpc)
         /\ \A i \in 1..Len(q) - 1 : Tail(q)[i] = q[i + 1]
         /\ Len(q) = 1 => Tail(q) = <<>>
         /\ Len(q) > 1 => Tail(q) # <<>> /\ Tail(q)[Len(q) - 1] = q[Len(q)]
<1>1. /\ Len(q) \in Nat \ {0} /\ Len(Tail(q)) = Len(q) - 1
      /\ Head(q) = q[1] /\ Head(q) \in Rpc /\ Tail(q) \in Seq(Rpc)
      /\ \A i \in 1..Len(q) - 1 : Tail(q)[i] = q[i + 1]
  OBVIOUS
<1>2. Tail(q) = <<>> <=> Len(Tail(q)) = 0
  BY <1>1, EmptySeq
<1>3. ASSUME Len(q) > 1
      PROVE  Tail(q) # <<>> /\ Tail(q)[Len(q) - 1] = q[Len(q)]
  <2>1. Len(q) - 1 \in 1..Len(q) - 1 /\ (Len(q) - 1) + 1 = Len(q)
    BY <1>1, <1>3
  <2>2. Tail(q)[Len(q) - 1] = q[(Len(q) - 1) + 1]
    BY <1>1, <2>1
  <2> QED BY <1>1, <1>2, <1>3, <2>1, <2>2
<1> QED BY <1>1, <1>2, <1>3

-----------------------------------------------------------------------------
(* The last list of the queue.                                             *)

NoPolls == {c \in Rpc : c.action # "UPDATE_POLL"}

LEMMA PollPushOther ==
  ASSUME NEW q \in Seq(Rpc), NEW s \in Seq(NoPolls), NEW r, NEW p, NEW b,
         PollOk(q, r, p, b)
  PROVE  PollOk(q \o s, r, p, b)
<1>1. \A i \in 1..Len(q \o s) :
        (q \o s)[i].action = "UPDATE_POLL" <=>
          i <= Len(q) /\ q[i].action = "UPDATE_POLL"
  BY DEF NoPolls
<1>2. PollsIn(q \o s) = PollsIn(q)
  BY <1>1 DEF PollsIn, NoPolls
<1>3. \A i \in PollsIn(q) : (q \o s)[i] = q[i]
  BY DEF PollsIn, NoPolls
<1> QED BY <1>2, <1>3 DEF PollOk

LEMMA PollPush ==
  ASSUME NEW q \in Seq(Rpc), NEW s \in SUBSET NicId, NEW r, NEW p, NEW b,
         s \in PollLists(b)
  PROVE  PollOk(Append(q, UpdatePoll(s)), r, p, b)
<1> DEFINE t == Append(q, UpdatePoll(s))
<1>1. t[Len(t)] = UpdatePoll(s) /\ Len(t) \in Nat /\ Len(t) = Len(q) + 1
  OBVIOUS
<1>2. Len(t) \in PollsIn(t) /\ t[Len(t)].nics = s
  BY <1>1, CallFields DEF PollsIn
<1>3. \A j \in PollsIn(t) : j <= Len(t)
  BY DEF PollsIn
<1> QED BY <1>2, <1>3 DEF PollOk

LEMMA PollPop ==
  ASSUME NEW q \in Seq(Rpc), q # <<>>, NEW p, NEW b, PollOk(q, Idle, p, b)
  PROVE  PollOk(Tail(q), Head(q), p, b)
<1>1. /\ Len(Tail(q)) = Len(q) - 1 /\ Len(q) \in Nat \ {0} /\ Head(q) = q[1]
      /\ \A i \in 1..Len(q) - 1 : Tail(q)[i] = q[i + 1]
  OBVIOUS
<1>2. \A i \in PollsIn(Tail(q)) : i + 1 \in PollsIn(q)
  BY <1>1 DEF PollsIn
<1>3. CASE PollsIn(q) = {}
  <2>1. PollsIn(Tail(q)) = {} /\ q[1].action # "UPDATE_POLL"
    BY <1>1, <1>2, <1>3 DEF PollsIn
  <2>2. p \in PollLists(b)
    BY <1>3, CallFields DEF PollOk
  <2> QED BY <1>1, <2>1, <2>2 DEF PollOk
<1>4. CASE PollsIn(q) # {}
  <2>1. PICK i \in PollsIn(q) : /\ q[i].nics \in PollLists(b)
                                /\ \A j \in PollsIn(q) : j <= i
    BY <1>4 DEF PollOk
  <2>2. CASE i = 1
    <3>1. PollsIn(Tail(q)) = {}
      BY <1>1, <1>2, <2>1, <2>2 DEF PollsIn
    <3> QED BY <1>1, <2>1, <2>2, <3>1 DEF PollOk, PollsIn
  <2>3. CASE i # 1
    <3>1. i - 1 \in PollsIn(Tail(q)) /\ Tail(q)[i - 1] = q[i]
      BY <1>1, <2>1, <2>3 DEF PollsIn
    <3>2. \A j \in PollsIn(Tail(q)) : j <= i - 1
      BY <1>1, <1>2, <2>1 DEF PollsIn
    <3> QED BY <2>1, <3>1, <3>2 DEF PollOk
  <2> QED BY <2>2, <2>3
<1> QED BY <1>3, <1>4

LEMMA PollExecute ==
  ASSUME NEW q \in Seq(Rpc), NEW r, NEW p, NEW b, PollOk(q, r, p, b)
  PROVE  PollOk(q, Idle, IF r.action = "UPDATE_POLL" THEN r.nics ELSE p, b)
BY CallFields DEF PollOk

(* The enabled NICs are all that counts.                                   *)
LEMMA PollListsFrame ==
  ASSUME NEW b, NEW c,
         \A n \in NicId : (b[n] # None /\ b[n].enable) <=> (c[n] # None /\ c[n].enable)
  PROVE  PollLists(b) = PollLists(c)
<1>1. {n \in NicId : b[n] # None /\ b[n].enable}
        = {n \in NicId : c[n] # None /\ c[n].enable}
  OBVIOUS
<1> QED BY <1>1 DEF PollLists

LEMMA PollListsEnabled ==
  ASSUME NEW b, NEW s \in PollLists(b)
  PROVE  /\ s \in SUBSET NicId
         /\ \A n \in s : n \in NicId /\ b[n] # None /\ b[n].enable
BY DEF PollLists

-----------------------------------------------------------------------------
(* Api::ActionNicUpdate: what its edit is after each of its parts.         *)

(* The calls an update of n pushes.                                        *)
OwnCalls(n, v, s) ==
  {c \in Rpc : \/ c.action \in {"UNLINK", "UNLINK_EDGE"}
               \/ /\ c.action = "LINK" /\ c.args[2] \in Bricks(n)
                  /\ c.args[1] \in Bricks(n) \cup {Vtep}
               \/ c.action = "ADD_VNI" /\ c.vni = v /\ c.args[2] \in Bricks(n)
               \/ c.action = "UPDATE_POLL" /\ c.nics = s}

Edit == [n : Nics, g : Branch, calls : Seq(Rpc), made : SUBSET Brick,
         gone : SUBSET Brick, poll : PollLists(branch)]

(* The branch stays what it is but for head, sniffer and trace; sniffers   *)
(* that are not among those of the branch are gone, but for the ones in    *)
(* fresh, which are about to be used.                                      *)
EditOk(e, fresh) ==
  /\ e \in Edit
  /\ e.g.vni = branch[e.n].vni /\ e.g.bypass = branch[e.n].bypass
  /\ e.g.enable = branch[e.n].enable
  /\ e.g.head \in Bricks(e.n) /\ e.g.sniffer \in Sniffers(e.n) \cup {None}
  /\ e.calls \in Seq(OwnCalls(e.n, e.g.vni, e.poll))
  /\ e.made \subseteq Sniffers(e.n) /\ e.gone \subseteq Sniffers(e.n)
  /\ Sniffers(e.n) \cap ((live \cup e.made) \ e.gone)
       \subseteq {e.g.sniffer, e.g.head} \cup fresh
  /\ PollOk(queue \o e.calls, running, poll, branch)

(* Two sniffers at most exist, so that a third can be made.                *)
TwoSniffers(e) ==
  \E x, y : Sniffers(e.n) \cap (live \cup e.made) \subseteq {x, y}

LEMMA EditTypes ==
  ASSUME NEW e, EditOk(e, {}), TypeOK
  PROVE  /\ e.n \in NicId /\ e.g \in Branch /\ e.g.vni \in Vni
         /\ e.calls \in Seq(Rpc) /\ queue \in Seq(Rpc)
         /\ e.poll \in PollLists(branch) /\ e.poll \in SUBSET NicId
BY DEF EditOk, Edit, Branch, TypeOK, Nics, PollLists

(* Calls other than UPDATE_POLL are added to an edit.                      *)
LEMMA EditPush ==
  ASSUME NEW e, NEW fresh, EditOk(e, fresh), TypeOK,
         NEW s \in Seq(OwnCalls(e.n, e.g.vni, e.poll) \cap NoPolls)
  PROVE  EditOk([e EXCEPT !.calls = @ \o s], fresh)
<1> DEFINE x == [e EXCEPT !.calls = @ \o s]
           T == OwnCalls(e.n, e.g.vni, e.poll)
<1>1. s \in Seq(T) /\ s \in Seq(NoPolls) /\ s \in Seq(Rpc)
  BY SeqMonotone DEF NoPolls
<1>2. e.calls \in Seq(T) /\ e.calls \in Seq(Rpc) /\ queue \in Seq(Rpc)
  BY DEF EditOk, Edit, TypeOK
<1>3. e.calls \o s \in Seq(T) /\ e.calls \o s \in Seq(Rpc)
  BY <1>1, <1>2, SeqJoin
<1>4. PollOk(queue \o (e.calls \o s), running, poll, branch)
  <2>1. queue \o e.calls \in Seq(Rpc)
    BY <1>2, SeqJoin
  <2>2. PollOk((queue \o e.calls) \o s, running, poll, branch)
    BY <1>1, <2>1, PollPushOther DEF EditOk
  <2>3. queue \o (e.calls \o s) = (queue \o e.calls) \o s
    BY <1>1, <1>2, SeqAssociative
  <2> QED BY <2>2, <2>3
<1>5. /\ x \in Edit /\ x.n = e.n /\ x.g = e.g /\ x.made = e.made /\ x.gone = e.gone
      /\ x.poll = e.poll /\ x.calls = e.calls \o s
  BY <1>3 DEF EditOk, Edit
<1> HIDE DEF x
<1>6. EditOk(x, fresh)
  BY <1>3, <1>4, <1>5 DEF EditOk
<1> QED BY <1>6 DEF x

LEMMA EditPushPoll ==
  ASSUME NEW e, EditOk(e, {}), TypeOK, NEW t \in BOOLEAN
  PROVE  /\ EditOk([e EXCEPT !.g.trace = t, !.calls = Append(@, UpdatePoll(e.poll))], {})
         /\ EditOk([e EXCEPT !.calls = Append(@, UpdatePoll(e.poll))], {})
<1> DEFINE x == [e EXCEPT !.g.trace = t, !.calls = Append(@, UpdatePoll(e.poll))]
           y == [e EXCEPT !.calls = Append(@, UpdatePoll(e.poll))]
           c == Append(e.calls, UpdatePoll(e.poll))
           T == OwnCalls(e.n, e.g.vni, e.poll)
<1>1. e.calls \in Seq(T) /\ e.calls \in Seq(Rpc) /\ queue \in Seq(Rpc)
  BY DEF EditOk, Edit, TypeOK
<1>2. /\ e.poll \in PollLists(branch) /\ e.poll \in SUBSET NicId
      /\ UpdatePoll(e.poll) \in Rpc /\ UpdatePoll(e.poll) \in T
  <2>1. e.poll \in PollLists(branch) /\ e.poll \in SUBSET NicId
    BY EditTypes
  <2>2. UpdatePoll(e.poll) \in Rpc
    BY <2>1 DEF Rpc
  <2> QED BY <2>1, <2>2, CallFields DEF OwnCalls
<1>3. c \in Seq(T) /\ c \in Seq(Rpc)
  BY <1>1, <1>2, SeqJoin
<1>4. PollOk(queue \o c, running, poll, branch)
  <2>1. queue \o e.calls \in Seq(Rpc)
    BY <1>1, SeqJoin
  <2>2. PollOk(Append(queue \o e.calls, UpdatePoll(e.poll)), running, poll, branch)
    BY <1>2, <2>1, PollPush
  <2>3. queue \o c = Append(queue \o e.calls, UpdatePoll(e.poll))
    BY <1>1, SeqAppend
  <2> QED BY <2>2, <2>3
<1>5. /\ x \in Edit /\ x.n = e.n /\ x.made = e.made /\ x.gone = e.gone
      /\ x.poll = e.poll /\ x.calls = c /\ x.g = [e.g EXCEPT !.trace = t]
  BY <1>3 DEF EditOk, Edit, Branch
<1>6. /\ x.g.vni = e.g.vni /\ x.g.bypass = e.g.bypass /\ x.g.enable = e.g.enable
      /\ x.g.head = e.g.head /\ x.g.sniffer = e.g.sniffer
  BY <1>5, EditTypes DEF Branch
<1>7. /\ y \in Edit /\ y.n = e.n /\ y.made = e.made /\ y.gone = e.gone
      /\ y.poll = e.poll /\ y.calls = c /\ y.g = e.g
  BY <1>3 DEF EditOk, Edit
<1> HIDE DEF x, y, c
<1>8. EditOk(x, {})
  BY <1>3, <1>4, <1>5, <1>6 DEF EditOk
<1>9. EditOk(y, {})
  BY <1>3, <1>4, <1>7 DEF EditOk
<1> QED BY <1>8, <1>9 DEF x, y

LEMMA SetHeadOk ==
  ASSUME NEW e, NEW b \in Bricks(e.n), EditOk(e, {b}), TypeOK
  PROVE  /\ EditOk(SetHead(e, b), {})
         /\ SetHead(e, b).n = e.n /\ SetHead(e, b).g = [e.g EXCEPT !.head = b]
         /\ SetHead(e, b).calls = e.calls /\ SetHead(e, b).poll = e.poll
         /\ SetHead(e, b).made = e.made
<1> DEFINE x == SetHead(e, b)
<1>1. /\ e.n \in NicId /\ e.g \in Branch /\ e.g.head \in Bricks(e.n)
      /\ e.gone \subseteq Sniffers(e.n)
  BY DEF EditOk, Edit, Nics
<1>2. b \in Brick /\ Sniffers(e.n) \subseteq Brick
  BY <1>1 DEF Brick, Bricks
<1>3. /\ x \in Edit /\ x.n = e.n /\ x.g = [e.g EXCEPT !.head = b]
      /\ x.calls = e.calls /\ x.poll = e.poll /\ x.made = e.made
      /\ x.gone = e.gone \cup (({e.g.head} \cap Sniffers(e.n)) \ {e.g.sniffer, b})
  BY <1>1, <1>2 DEF EditOk, Edit, SetHead, Branch
<1>4. /\ x.g.vni = e.g.vni /\ x.g.bypass = e.g.bypass /\ x.g.enable = e.g.enable
      /\ x.g.head = b /\ x.g.sniffer = e.g.sniffer
  BY <1>1, <1>3 DEF Branch
<1> HIDE DEF x
<1>5. Sniffers(x.n) \cap ((live \cup x.made) \ x.gone)
        \subseteq {x.g.sniffer, x.g.head}
  BY <1>3, <1>4 DEF EditOk
<1>6. x.gone \subseteq Sniffers(x.n)
  BY <1>1, <1>3
<1>7. EditOk(x, {})
  BY <1>3, <1>4, <1>5, <1>6 DEF EditOk
<1> QED BY <1>3, <1>7 DEF x

(* The calls that LinkSniffer and DisablePacketTrace push.                 *)
LEMMA OwnCallTypes ==
  ASSUME NEW n \in NicId, NEW v \in Vni, NEW l, NEW w \in Bricks(n) \cup {Vtep},
         NEW b \in Bricks(n), NEW d \in Bricks(n)
  PROVE  {Link(w, b), Unlink(b), UnlinkEdge(b, d), AddVni(b, v)}
           \subseteq OwnCalls(n, v, l) \cap NoPolls
<1>1. w \in Brick /\ b \in Brick /\ d \in Brick
  BY BrickTypes
<1>2. {Link(w, b), Unlink(b), UnlinkEdge(b, d), AddVni(b, v)} \subseteq Rpc
  BY <1>1, CallTypes DEF Rpc
<1> QED BY <1>2, CallFields DEF OwnCalls, NoPolls

LEMMA LinkSnifferOk ==
  ASSUME NEW e, NEW s \in Sniffers(e.n), EditOk(e, {s}), TypeOK
  PROVE  /\ EditOk(LinkSniffer(e, s), {})
         /\ LinkSniffer(e, s).n = e.n /\ LinkSniffer(e, s).made = e.made
         /\ LinkSniffer(e, s).g = [e.g EXCEPT !.head = s]
         /\ LinkSniffer(e, s).poll = e.poll
<1> DEFINE n == e.n
           x == SetHead(e, s)
           c == IF e.g.bypass
                THEN <<Unlink(Vhost(n)), Link(s, Vhost(n)), Link(Vtep, s),
                       AddVni(s, e.g.vni)>>
                ELSE <<UnlinkEdge(As(n), Vhost(n)), Link(As(n), s),
                       Link(s, Vhost(n))>>
           T == OwnCalls(n, e.g.vni, e.poll) \cap NoPolls
<1>1. /\ n \in NicId /\ e.g \in Branch /\ e.g.vni \in Vni
      /\ s \in Bricks(n) /\ Vhost(n) \in Bricks(n) /\ As(n) \in Bricks(n)
  BY DEF EditOk, Edit, Nics, Branch, Bricks
<1>2. /\ EditOk(x, {}) /\ x.n = n /\ x.g = [e.g EXCEPT !.head = s]
      /\ x.calls = e.calls /\ x.poll = e.poll /\ x.made = e.made
  BY <1>1, SetHeadOk
<1>3. x.g.vni = e.g.vni
  BY <1>1, <1>2 DEF Branch
<1>4. c \in Seq(T)
  <2>1. /\ Unlink(Vhost(n)) \in T /\ Link(s, Vhost(n)) \in T
        /\ Link(Vtep, s) \in T /\ AddVni(s, e.g.vni) \in T
        /\ UnlinkEdge(As(n), Vhost(n)) \in T /\ Link(As(n), s) \in T
    BY <1>1, OwnCallTypes
  <2> HIDE DEF T
  <2> QED BY <2>1, SeqLiterals
<1>5. LinkSniffer(e, s) = [x EXCEPT !.calls = @ \o c]
  BY DEF LinkSniffer
<1>6. x \in Edit
  BY <1>2 DEF EditOk
<1> HIDE DEF x, c
<1>7. EditOk([x EXCEPT !.calls = @ \o c], {})
  BY <1>2, <1>3, <1>4, EditPush
<1> QED BY <1>2, <1>5, <1>6, <1>7 DEF Edit

LEMMA DisableOk ==
  ASSUME NEW e, EditOk(e, {}), TypeOK
  PROVE  /\ EditOk(DisablePacketTrace(e), {})
         /\ DisablePacketTrace(e).n = e.n /\ DisablePacketTrace(e).made = e.made
         /\ DisablePacketTrace(e).poll = e.poll
         /\ DisablePacketTrace(e).g.trace = e.g.trace
<1> DEFINE n == e.n
           b == IF e.g.bypass THEN Vhost(n) ELSE As(n)
           x == SetHead(e, b)
           u == <<Unlink(e.g.sniffer)>>
           r == IF e.g.bypass
                THEN <<Link(Vtep, b), AddVni(b, e.g.vni)>>
                ELSE <<Link(As(n), Vhost(n))>>
           c == u \o r
           T == OwnCalls(n, e.g.vni, e.poll) \cap NoPolls
<1>1. /\ n \in NicId /\ e.g \in Branch /\ e.g.vni \in Vni
      /\ b \in Bricks(n) /\ Vhost(n) \in Bricks(n) /\ As(n) \in Bricks(n)
  BY DEF EditOk, Edit, Nics, Branch, Bricks
<1>2. CASE ~ e.g.trace \/ e.g.sniffer = None
  BY <1>2 DEF DisablePacketTrace
<1>3. CASE ~ (~ e.g.trace \/ e.g.sniffer = None)
  <2>1. /\ EditOk(x, {}) /\ x.n = n /\ x.g = [e.g EXCEPT !.head = b]
        /\ x.calls = e.calls /\ x.poll = e.poll /\ x.made = e.made
    <3>1. EditOk(e, {b})
      BY DEF EditOk
    <3> QED BY <1>1, <3>1, SetHeadOk
  <2>2. x.g.vni = e.g.vni /\ x.g.trace = e.g.trace
    BY <1>1, <2>1 DEF Branch
  <2>3. u \in Seq(T) /\ r \in Seq(T) /\ c \in Seq(T)
    <3>1. e.g.sniffer \in Bricks(n)
      BY <1>3 DEF EditOk, Bricks
    <3>2. /\ Unlink(e.g.sniffer) \in T /\ Link(Vtep, b) \in T
          /\ AddVni(b, e.g.vni) \in T /\ Link(As(n), Vhost(n)) \in T
      BY <1>1, <3>1, OwnCallTypes
    <3> HIDE DEF T, b
    <3>3. /\ <<Unlink(e.g.sniffer)>> \in Seq(T)
          /\ <<Link(Vtep, b), AddVni(b, e.g.vni)>> \in Seq(T)
          /\ <<Link(As(n), Vhost(n))>> \in Seq(T)
      BY <3>2, SeqLiterals
    <3> QED BY <3>3, SeqJoin
  <2>4. DisablePacketTrace(e) = [x EXCEPT !.calls = @ \o c]
    <3>1. DisablePacketTrace(e) = [x EXCEPT !.calls = (x.calls \o u) \o r]
      BY <1>3 DEF DisablePacketTrace
    <3>2. T \subseteq Rpc /\ x.calls \in Seq(Rpc)
      BY <2>1 DEF NoPolls, EditOk, Edit
    <3>3. u \in Seq(Rpc) /\ r \in Seq(Rpc)
      <4> HIDE DEF u, r, T
      <4> QED BY <2>3, <3>2, SeqMonotone
    <3> HIDE DEF u, r, x
    <3> QED BY <3>1, <3>2, <3>3, SeqAssociative
  <2>5. x \in Edit
    BY <2>1 DEF EditOk
  <2> HIDE DEF x, c
  <2>6. EditOk([x EXCEPT !.calls = @ \o c], {})
    BY <2>1, <2>2, <2>3, EditPush
  <2> QED BY <2>1, <2>2, <2>4, <2>5, <2>6 DEF Edit
<1> QED BY <1>2, <1>3

LEMMA EnableOk ==
  ASSUME NEW e, EditOk(e, {}), TypeOK, TwoSniffers(e), e.made = {},
         e.gone = {}, NEW ok
  PROVE  /\ EditOk(EnablePacketTrace(e, ok), {})
         /\ EnablePacketTrace(e, ok).n = e.n
         /\ EnablePacketTrace(e, ok).poll = e.poll
         /\ EnablePacketTrace(e, ok).made \subseteq Sniffers(e.n)
         /\ TwoSniffers(EnablePacketTrace(e, ok))
<1> DEFINE s == CHOOSE b \in Sniffers(e.n) : b \notin live
           y == [e EXCEPT !.g.sniffer = s, !.made = @ \cup {s}]
<1>0. e \in Edit /\ e.g \in Branch /\ e.n \in NicId
  BY DEF EditOk, Edit, Nics
<1>1. ASSUME e.g.trace \/ (e.g.sniffer = None /\ ~ ok)
      PROVE  EnablePacketTrace(e, ok) = e
  BY <1>0, <1>1 DEF EnablePacketTrace, Branch
<1>2. CASE ~ e.g.trace /\ e.g.sniffer # None
  <2>1. EnablePacketTrace(e, ok) = LinkSniffer(e, e.g.sniffer)
    BY <1>2 DEF EnablePacketTrace
  <2>2. e.g.sniffer \in Sniffers(e.n) /\ EditOk(e, {e.g.sniffer})
    BY <1>2 DEF EditOk
  <2>3. /\ EditOk(LinkSniffer(e, e.g.sniffer), {})
        /\ LinkSniffer(e, e.g.sniffer).n = e.n
        /\ LinkSniffer(e, e.g.sniffer).made = e.made
        /\ LinkSniffer(e, e.g.sniffer).poll = e.poll
    BY <2>2, LinkSnifferOk
  <2> QED BY <2>1, <2>3 DEF TwoSniffers
<1>3. CASE ~ e.g.trace /\ e.g.sniffer = None /\ ok
  <2>1. EnablePacketTrace(e, ok) = LinkSniffer(y, s)
    BY <1>3 DEF EnablePacketTrace
  <2>2. \E b \in Sniffers(e.n) : b \notin live
    BY DEF TwoSniffers, Sniffers
  <2>3. s \in Sniffers(e.n) /\ s \notin live
    BY <2>2
  <2>4. s \in Brick /\ s \in Bricks(e.n) /\ None \notin Sniffers(e.n)
    BY <1>0, <2>3, NullAssumption DEF Brick, Bricks
  <2>9. Sniffers(e.n) \cap live \subseteq {e.g.head}
    BY <1>3, <2>4 DEF EditOk
  <2> HIDE DEF s
  <2>5. /\ y \in Edit /\ y.n = e.n /\ y.g = [e.g EXCEPT !.sniffer = s]
        /\ y.calls = e.calls /\ y.poll = e.poll /\ y.made = {s} /\ y.gone = e.gone
    BY <1>0, <2>4 DEF Edit, Branch
  <2>6. /\ y.g.vni = e.g.vni /\ y.g.bypass = e.g.bypass /\ y.g.enable = e.g.enable
        /\ y.g.head = e.g.head /\ y.g.sniffer = s
    BY <1>0, <2>5 DEF Branch
  <2> HIDE DEF y
  <2>7. EditOk(y, {s})
    <3>1. Sniffers(y.n) \cap ((live \cup y.made) \ y.gone)
            \subseteq {y.g.sniffer, y.g.head} \cup {s}
      BY <2>5, <2>6, <2>9
    <3> QED BY <2>3, <2>5, <2>6, <3>1 DEF EditOk
  <2>8. /\ EditOk(LinkSniffer(y, s), {}) /\ LinkSniffer(y, s).n = e.n
        /\ LinkSniffer(y, s).made = {s} /\ LinkSniffer(y, s).poll = e.poll
    BY <2>3, <2>5, <2>7, LinkSnifferOk
  <2>10. Sniffers(e.n) \cap (live \cup {s}) \subseteq {e.g.head, s}
    BY <2>9
  <2> QED BY <2>1, <2>3, <2>8, <2>10 DEF TwoSniffers
<1>4. CASE e.g.trace \/ (e.g.sniffer = None /\ ~ ok)
  BY <1>1, <1>4
<1> QED BY <1>2, <1>3, <1>4

LEMMA ConfigTraceOk ==
  ASSUME NEW e, EditOk(e, {}), TypeOK, TwoSniffers(e), e.made = {},
         e.gone = {}, NEW ok, NEW t \in BOOLEAN
  PROVE  /\ EditOk(NicConfigPacketTrace(e, t, ok), {})
         /\ TwoSniffers(NicConfigPacketTrace(e, t, ok))
         /\ NicConfigPacketTrace(e, t, ok).n = e.n
<1> DEFINE x == IF t THEN EnablePacketTrace(e, ok) ELSE DisablePacketTrace(e)
<1>1. /\ EditOk(x, {}) /\ x.n = e.n /\ x.poll = e.poll /\ TwoSniffers(x)
  <2>1. CASE t
    BY <2>1, EnableOk
  <2>2. CASE ~ t
    BY <2>2, DisableOk DEF TwoSniffers
  <2> QED BY <2>1, <2>2
<1>2. NicConfigPacketTrace(e, t, ok)
        = [x EXCEPT !.g.trace = t, !.calls = Append(@, UpdatePoll(x.poll))]
  BY <1>1 DEF NicConfigPacketTrace
<1> HIDE DEF x
<1>3. x \in Edit
  BY <1>1 DEF EditOk
<1>4. EditOk(NicConfigPacketTrace(e, t, ok), {})
  <2> DEFINE y == [x EXCEPT !.g.trace = t, !.calls = Append(@, UpdatePoll(x.poll))]
  <2>1. EditOk(y, {})
    BY <1>1, EditPushPoll
  <2> HIDE DEF y
  <2>2. NicConfigPacketTrace(e, t, ok) = y
    BY <1>2 DEF y
  <2> QED BY <2>1, <2>2
<1>5. /\ NicConfigPacketTrace(e, t, ok).n = x.n
      /\ NicConfigPacketTrace(e, t, ok).made = x.made
  BY <1>2, <1>3 DEF Edit
<1> QED BY <1>1, <1>4, <1>5 DEF TwoSniffers

LEMMA ConfigPathOk ==
  ASSUME NEW e, EditOk(e, {}), TypeOK, TwoSniffers(e), NEW ok
  PROVE  /\ EditOk(NicConfigPacketTracePath(e, ok), {})
         /\ NicConfigPacketTracePath(e, ok).n = e.n
<1> DEFINE x == DisablePacketTrace(e)
           s == CHOOSE b \in Sniffers(e.n) : b \notin live \cup e.made
           z == [x EXCEPT !.made = @ \cup {s}]
           y == LinkSniffer(z, s)
<1>1. EditOk(x, {}) /\ x.n = e.n /\ x.poll = e.poll /\ x.made = e.made
  BY DisableOk
<1>2. \E b \in Sniffers(e.n) : b \notin live \cup e.made
  BY DEF TwoSniffers, Sniffers
<1>3. s \in Sniffers(e.n) /\ s \notin live \cup e.made
  BY <1>2
<1>4. NicConfigPacketTracePath(e, ok)
        = IF ok THEN [y EXCEPT !.calls = Append(@, UpdatePoll(e.poll))] ELSE x
  BY DEF NicConfigPacketTracePath
<1>5. x \in Edit /\ e.n \in NicId
  BY <1>1 DEF EditOk, Edit, Nics
<1> HIDE DEF s, x
<1>6. s \in Brick
  BY <1>3, <1>5 DEF Brick, Bricks
<1>7. /\ z \in Edit /\ z.n = x.n /\ z.g = x.g /\ z.calls = x.calls
      /\ z.poll = x.poll /\ z.gone = x.gone /\ z.made = x.made \cup {s}
  BY <1>5, <1>6 DEF Edit
<1> HIDE DEF z
<1>8. EditOk(z, {s})
  BY <1>1, <1>3, <1>7 DEF EditOk
<1>9. EditOk(y, {}) /\ y.n = e.n /\ y.poll = e.poll /\ y \in Edit
  <2>1. s \in Sniffers(z.n)
    BY <1>1, <1>3, <1>7
  <2>2. EditOk(y, {}) /\ y.n = z.n /\ y.poll = z.poll
    BY <1>8, <2>1, LinkSnifferOk
  <2> QED BY <1>1, <1>7, <2>2 DEF EditOk
<1> HIDE DEF y
<1>10. /\ EditOk([y EXCEPT !.calls = Append(@, UpdatePoll(e.poll))], {})
       /\ [y EXCEPT !.calls = Append(@, UpdatePoll(e.poll))].n = y.n
  BY <1>9, EditPushPoll DEF Edit
<1> QED BY <1>1, <1>4, <1>9, <1>10

(* The edit as a whole.                                                    *)
FirstEdit(n, list) == [n |-> n, g |-> branch[n], calls |-> <<>>, made |-> {},
                       gone |-> {}, poll |-> list]
LEMMA FirstEditOk ==
  ASSUME NEW n \in Nics, NEW list \in PollLists(branch),
         TypeOK, ReqInv, LiveInv, PollInv
  PROVE  EditOk(FirstEdit(n, list), {}) /\ TwoSniffers(FirstEdit(n, list))
<1> DEFINE e == FirstEdit(n, list)
<1>1. e \in Edit /\ branch[n] \in Branch
  BY SeqLiterals DEF FirstEdit, Edit, TypeOK, Nics
<1>2. /\ e.n = n /\ e.g = branch[n] /\ e.calls = <<>> /\ e.made = {}
      /\ e.gone = {} /\ e.poll = list
  BY DEF FirstEdit
<1> HIDE DEF e
<1>3. Sniffers(n) \cap live \subseteq {branch[n].sniffer, branch[n].head}
  BY DEF LiveInv
<1>4. queue \o e.calls = queue /\ e.calls \in Seq(OwnCalls(e.n, e.g.vni, e.poll))
  BY <1>2 DEF TypeOK
<1>5. EditOk(e, {})
  BY <1>1, <1>2, <1>3, <1>4 DEF EditOk, ReqInv, PollInv
<1>6. TwoSniffers(e)
  BY <1>2, <1>3 DEF TwoSniffers
<1> QED BY <1>5, <1>6 DEF e

UpdateStep(n, e, s) ==
  /\ branch' = [branch EXCEPT ![n] = e.g]
  /\ live' = (live \cup e.made) \ e.gone
  /\ links' = Without(e.gone, links)
  /\ ports' = Linked(ports, links')
  /\ queue' = (queue \o e.calls) \o s
  /\ UNCHANGED <<switch, poller, api>>

LEMMA UpdateOk ==
  ASSUME NEW n \in NicId, NEW t \in BOOLEAN \cup {None}, NEW p, NEW fw, NEW ok,
         NEW l \in PollLists(branch), ActionNicUpdate(n, t, p, fw, ok, l),
         TypeOK, ReqInv, LiveInv, PollInv
  PROVE  /\ n \in Nics /\ Ready
         /\ \E e : \E s \in {<<>>, <<FwReload(Fw(n))>>} :
              /\ EditOk(e, {}) /\ e.n = n /\ UpdateStep(n, e, s)
              /\ s # <<>> => ~ branch[n].bypass
<1> DEFINE e0 == FirstEdit(n, l)
           e1 == IF t = None THEN e0 ELSE NicConfigPacketTrace(e0, t, ok)
           e2 == IF p /\ e1.g.trace THEN NicConfigPacketTracePath(e1, ok) ELSE e1
           s == IF fw /\ ~ branch[n].bypass THEN <<FwReload(Fw(n))>> ELSE <<>>
<1>1. n \in Nics /\ Ready
  BY DEF ActionNicUpdate
<1>2. /\ EditOk(e0, {}) /\ TwoSniffers(e0) /\ e0.n = n /\ e0.made = {} /\ e0.gone = {}
  BY <1>1, FirstEditOk DEF FirstEdit
<1>3. UpdateStep(n, e2, s)
  BY DEF ActionNicUpdate, UpdateStep, FirstEdit
<1> HIDE DEF e0, s
<1>4. EditOk(e1, {}) /\ TwoSniffers(e1) /\ e1.n = n
  <2>1. CASE t = None
    BY <1>2, <2>1
  <2>2. CASE t # None
    <3>1. t \in BOOLEAN
      BY <2>2
    <3> QED BY <1>2, <2>2, <3>1, ConfigTraceOk
  <2> QED BY <2>1, <2>2
<1> HIDE DEF e1
<1>5. EditOk(e2, {}) /\ e2.n = n
  BY <1>4, ConfigPathOk
<1> HIDE DEF e2
<1> QED BY <1>1, <1>3, <1>5 DEF s

-----------------------------------------------------------------------------
(* The steps of the poller.                                                *)

(* Executing a call: which action it is, and what it leaves alone.         *)
LEMMA ExecutedFrame ==
  ASSUME Executed
  PROVE  /\ running' = Idle /\ queue' = queue /\ branch' = branch
         /\ switch' = switch /\ phase' = phase /\ pc' = pc /\ req' = req
BY DEF Executed, api

PollerExecute ==
  \/ PollerLink \/ PollerUnlink \/ PollerUnlinkEdge \/ PollerAddVni
  \/ PollerUpdatePoll \/ PollerFwNew \/ PollerBrickDestroy \/ PollerOther

(* What the execution of a call does, by its kind.                         *)
LEMMA ExecuteCases ==
  ASSUME PollerExecute, TypeOK
  PROVE  /\ running \in Rpc /\ Executed
         /\ \/ /\ running.action = "LINK" /\ UNCHANGED <<live, ports, poll>>
               /\ links' = BrickLink(running.args[1], running.args[2], links)
            \/ /\ running.action = "UNLINK" /\ UNCHANGED <<live, poll>>
               /\ links' = Without({running.args[1]}, links)
               /\ ports' = Linked(ports, links')
            \/ /\ running.action = "UNLINK_EDGE" /\ UNCHANGED <<live, poll>>
               /\ links' = links \ {running.args}
               /\ ports' = Linked(ports, links')
            \/ /\ running.action = "ADD_VNI" /\ UNCHANGED <<live, links, poll>>
               /\ ports' = Linked({p \in ports : p[1] # running.vni}
                                    \cup {<<running.vni, running.args[2]>>}, links)
            \/ /\ running.action = "UPDATE_POLL" /\ UNCHANGED <<live, links, ports>>
               /\ poll' = running.nics
            \/ /\ running.action = "FW_NEW" /\ UNCHANGED <<links, ports, poll>>
               /\ live' = live \cup {Fw(running.nic)} \/ live' = live
            \/ /\ running.action = "BRICK_DESTROY" /\ UNCHANGED poll
               /\ live' = live \ {running.args[1]}
               /\ links' = Without({running.args[1]}, links)
               /\ ports' = Linked(ports, links')
            \/ /\ running.action \in {"NOTHING", "FW_RELOAD"}
               /\ UNCHANGED <<live, links, ports, poll>>
<1>1. /\ Executed
      /\ running.action \in {"LINK", "UNLINK", "UNLINK_EDGE", "ADD_VNI",
            "UPDATE_POLL", "FW_NEW", "BRICK_DESTROY", "NOTHING", "FW_RELOAD"}
  BY DEF PollerExecute, PollerLink, PollerUnlink, PollerUnlinkEdge, PollerAddVni,
         PollerUpdatePoll, PollerFwNew, PollerBrickDestroy, PollerOther
<1>2. running \in Rpc
  BY <1>1, CallFields DEF TypeOK
<1> QED
  BY <1>1, <1>2 DEF PollerExecute, PollerLink, PollerUnlink, PollerUnlinkEdge,
         PollerAddVni, PollerUpdatePoll, PollerFwNew, PollerBrickDestroy, PollerOther

(* The graph of calls a branch allows does not depend on the poller.       *)
LEMMA PollerFrame ==
  ASSUME branch' = branch, pc' = pc, req' = req
  PROVE  /\ Nics' = Nics /\ (\A v : NicsOf(v)' = NicsOf(v))
         /\ GoodCalls' = GoodCalls /\ (ReqInv => ReqInv')
         /\ (\A w, e : JoinOk(w, e)' <=> JoinOk(w, e))
         /\ (\A v, b : PortOk(v, b)' <=> PortOk(v, b))
<1>1. Nics' = Nics /\ \A v : NicsOf(v)' = NicsOf(v)
  BY DEF Nics, NicsOf
<1>2. \A w, e : JoinOk(w, e)' <=> JoinOk(w, e)
  BY <1>1 DEF JoinOk
<1>3. \A v, b : PortOk(v, b)' <=> PortOk(v, b)
  BY <1>1 DEF PortOk
<1>4. GoodCalls' = GoodCalls
  <2>1. \A c \in Rpc : GoodCall(c)' <=> GoodCall(c)
    BY <1>1, <1>2, <1>3 DEF GoodCall
  <2> QED BY <2>1 DEF GoodCalls
<1>5. ReqInv => ReqInv'
  BY <1>1 DEF ReqInv, Deleting
<1> QED BY <1>1, <1>2, <1>3, <1>4, <1>5

LEMMA ExecuteKeeps ==
  ASSUME GraphInv, PollerExecute
  PROVE  GraphInv'
<1> USE ExecutedFrame DEF GraphInv
<1>0. /\ running \in Rpc /\ running \in GoodCalls /\ GoodCall(running) /\ Executed
      /\ running # Idle /\ queue \in Seq(Rpc)
  <2>1. running \in Rpc /\ Executed
    BY ExecuteCases
  <2>2. Idle \notin Rpc
    BY CallCases, CallFields
  <2> QED BY <2>1, <2>2 DEF ShapeInv, GoodCalls, TypeOK
<1>1. /\ running' = Idle /\ queue' = queue /\ branch' = branch
      /\ switch' = switch /\ phase' = phase /\ pc' = pc /\ req' = req
  BY <1>0
<1>2. /\ Nics' = Nics /\ (\A v : NicsOf(v)' = NicsOf(v))
      /\ GoodCalls' = GoodCalls /\ ReqInv'
      /\ (\A w, e : JoinOk(w, e)' <=> JoinOk(w, e))
      /\ (\A v, b : PortOk(v, b)' <=> PortOk(v, b))
  BY <1>1, PollerFrame
<1>3. /\ links' \subseteq Brick \X Brick
      /\ \A l \in links' : JoinOk(l[1], l[2])
  <2>1. CASE running.action = "LINK"
    <3>1. /\ running.args[1] \in Brick /\ running.args[2] \in Brick
          /\ JoinOk(running.args[1], running.args[2])
      BY <1>0, <2>1, CallCases DEF GoodCall
    <3>2. links' \subseteq links \cup {<<running.args[1], running.args[2]>>}
      BY <2>1, ExecuteCases DEF BrickLink
    <3> QED BY <3>1, <3>2 DEF TypeOK, ShapeInv
  <2>2. CASE running.action # "LINK"
    <3>1. links' \subseteq links
      BY <2>2, ExecuteCases DEF Without
    <3> QED BY <3>1 DEF TypeOK, ShapeInv
  <2> QED BY <2>1, <2>2
<1>4. /\ ports' \subseteq Vni \X Brick
      /\ \A p \in ports' : PortOk(p[1], p[2])
  <2>1. CASE running.action = "ADD_VNI"
    <3>1. /\ running.vni \in Vni /\ running.args[2] \in Brick
          /\ PortOk(running.vni, running.args[2])
      BY <1>0, <2>1, CallCases DEF GoodCall
    <3>2. ports' \subseteq ports \cup {<<running.vni, running.args[2]>>}
      BY <2>1, ExecuteCases DEF Linked
    <3> QED BY <3>1, <3>2 DEF TypeOK, ShapeInv
  <2>2. CASE running.action # "ADD_VNI"
    <3>1. ports' \subseteq ports
      BY <2>2, ExecuteCases DEF Linked
    <3> QED BY <3>1 DEF TypeOK, ShapeInv
  <2> QED BY <2>1, <2>2
<1>5. ShapeInv'
  BY <1>1, <1>2, <1>3, <1>4 DEF ShapeInv
<1>6. /\ live' \subseteq Brick
      /\ live \subseteq live' \/ (pc = "del" /\ live' = live \ {Fw(req.nic)})
      /\ live' \subseteq live \/ (pc = "new" /\ live' = live \cup {Fw(req.nic)})
  <2>1. running.action = "FW_NEW" =>
          running.nic \in NicId /\ pc = "new" /\ running.nic = req.nic
    BY <1>0, CallCases DEF GoodCall
  <2>2. running.action = "BRICK_DESTROY" => pc = "del" /\ running.args[1] = Fw(req.nic)
    BY <1>0 DEF GoodCall
  <2>3. running.action = "FW_NEW" => Fw(running.nic) \in Brick
    BY <2>1, BrickTypes DEF Brick, Bricks
  <2> QED BY <2>1, <2>2, <2>3, ExecuteCases DEF TypeOK
<1>7. poll' = (IF running.action = "UPDATE_POLL" THEN running.nics ELSE poll)
  BY ExecuteCases
<1>8. PollInv'
  <2>1. PollOk(queue, running, poll, branch) /\ poll \subseteq Nics
    BY DEF PollInv
  <2>2. PollOk(queue, Idle, poll', branch)
    BY <1>0, <1>7, <2>1, PollExecute
  <2>3. poll' \subseteq Nics
    BY <1>0, <1>7, <2>1 DEF GoodCall
  <2> QED BY <1>1, <1>2, <2>2, <2>3 DEF PollInv
<1>9. TypeOK'
  <2>1. poll' \subseteq NicId
    BY <1>2, <1>8 DEF PollInv, Nics
  <2> QED BY <1>1, <1>3, <1>4, <1>6, <2>1 DEF TypeOK
<1>10. BarrierInv'
  BY <1>1 DEF BarrierInv
<1>11. DestroyInv'
  <2>1. /\ \A i \in 1..Len(queue) :
             queue[i].action = "BRICK_DESTROY" => i = Len(queue) - 1
        /\ running'.action # "BRICK_DESTROY"
    BY <1>1, CallFields DEF DestroyInv
  <2>2. ASSUME pc = "del"
        PROVE  \/ /\ Len(queue) > 1 /\ queue[Len(queue) - 1] = BrickDestroy(Fw(req.nic))
                  /\ Fw(req.nic) \in live'
               \/ /\ Len(queue) <= 1 /\ Fw(req.nic) \notin live'
                  /\ \A l \in links' : l[1] # Fw(req.nic) /\ l[2] # Fw(req.nic)
    <3>1. CASE /\ Len(queue) > 1 /\ queue[Len(queue) - 1] = BrickDestroy(Fw(req.nic))
               /\ Fw(req.nic) \in live
      <4>1. running.action # "BRICK_DESTROY"
        BY <3>1 DEF DestroyInv
      <4>2. live \subseteq live'
        BY <4>1, ExecuteCases
      <4> QED BY <3>1, <4>2
    <3>2. CASE Len(queue) = 1 /\ running = BrickDestroy(Fw(req.nic))
      BY <3>2, CallFields, ExecuteCases DEF Without
    <3>3. CASE /\ Len(queue) <= 1 /\ running \in {Nothing, Idle}
               /\ Fw(req.nic) \notin live
               /\ \A l \in links : l[1] # Fw(req.nic) /\ l[2] # Fw(req.nic)
      <4>1. live' = live /\ links' = links
        BY <1>0, <3>3, CallFields, ExecuteCases
      <4> QED BY <3>3, <4>1
    <3> QED BY <2>2, <3>1, <3>2, <3>3 DEF DestroyInv
  <2> QED BY <1>1, <2>1, <2>2 DEF DestroyInv
<1>12. LiveInv'
  <2>1. Vtep # Fw(req.nic)
    BY BrickKinds DEF Bricks
  <2>2. ASSUME NEW n \in Nics
        PROVE  /\ {As(n), Vhost(n)} \subseteq live'
               /\ Fw(n) \in live' \/ (pc = "del" /\ req.nic = n)
               /\ Sniffers(n) \cap live' \subseteq {branch[n].sniffer, branch[n].head}
    BY <1>6 DEF LiveInv, Fw, As, Vhost, Sniffers
  <2>3. ASSUME NEW n \in NicId \ Nics
        PROVE  Bricks(n) \cap live' \subseteq
                 IF pc = "new" /\ req.nic = n THEN {Fw(n)} ELSE {}
    <3>1. n # req.nic => Fw(req.nic) \notin Bricks(n)
      BY OwnBrick DEF Fw
    <3> QED BY <1>6, <3>1 DEF LiveInv
  <2> QED BY <1>1, <1>2, <1>6, <2>1, <2>2, <2>3 DEF LiveInv
<1> QED BY <1>2, <1>5, <1>8, <1>9, <1>10, <1>11, <1>12

LEMMA PopKeeps ==
  ASSUME GraphInv, PollerPop
  PROVE  GraphInv'
<1> USE DEF GraphInv
<1>1. /\ running = Idle /\ queue # <<>>
      /\ running' = Head(queue) /\ queue' = Tail(queue)
      /\ branch' = branch /\ switch' = switch /\ live' = live /\ links' = links
      /\ ports' = ports /\ poll' = poll /\ phase' = phase /\ pc' = pc /\ req' = req
  BY DEF PollerPop, api
<1>2. /\ Nics' = Nics /\ (\A v : NicsOf(v)' = NicsOf(v))
      /\ GoodCalls' = GoodCalls /\ ReqInv'
      /\ (\A w, e : JoinOk(w, e)' <=> JoinOk(w, e))
      /\ (\A v, b : PortOk(v, b)' <=> PortOk(v, b))
  BY <1>1, PollerFrame
<1>3. /\ queue \in Seq(Rpc) /\ queue \in Seq(GoodCalls)
      /\ Tail(queue) \in Seq(Rpc) /\ Tail(queue) \in Seq(GoodCalls)
      /\ Head(queue) \in Rpc /\ Head(queue) \in GoodCalls
      /\ Head(queue) = queue[1] /\ Len(Tail(queue)) = Len(queue) - 1
      /\ Len(queue) \in Nat /\ Len(queue) > 0
      /\ \A i \in 1..Len(queue) - 1 : Tail(queue)[i] = queue[i + 1]
      /\ Len(queue) = 1 => Tail(queue) = <<>>
      /\ Len(queue) > 1 => /\ Tail(queue) # <<>>
                           /\ Tail(queue)[Len(queue) - 1] = queue[Len(queue)]
  BY <1>1, TailFacts DEF TypeOK, ShapeInv
<1>4. TypeOK'
  BY <1>1, <1>3 DEF TypeOK
<1>5. ShapeInv'
  BY <1>1, <1>2, <1>3 DEF ShapeInv
<1>6. BarrierInv'
  <2>1. CASE Len(queue) = 1
    <3>1. Tail(queue) = <<>>
      BY <1>3, <2>1, SMT
    <3> QED BY <1>1, <1>3, <2>1, <3>1 DEF BarrierInv
  <2>2. CASE Len(queue) # 1
    <3>1. Len(queue) > 1 /\ Len(Tail(queue)) = Len(queue) - 1
      BY <1>3, <2>2
    <3>2. Tail(queue) # <<>> /\ Tail(queue)[Len(Tail(queue))] = queue[Len(queue)]
      BY <1>3, <3>1
    <3> QED BY <1>1, <3>2 DEF BarrierInv
  <2> QED BY <2>1, <2>2
<1>7. DestroyInv'
  <2>1. \A i \in 1..Len(queue') :
          queue'[i].action = "BRICK_DESTROY" => i = Len(queue') - 1
    <3> SUFFICES ASSUME NEW i \in 1..Len(queue'), queue'[i].action = "BRICK_DESTROY"
                 PROVE  i = Len(queue') - 1
      OBVIOUS
    <3>1. i + 1 \in 1..Len(queue) /\ queue'[i] = queue[i + 1] /\ i \in Nat
      BY <1>1, <1>3
    <3>2. i + 1 = Len(queue) - 1
      BY <3>1 DEF DestroyInv
    <3>3. Len(queue') = Len(queue) - 1 /\ Len(queue) \in Nat
      BY <1>1, <1>3
    <3> QED BY <3>1, <3>2, <3>3
  <2>2. running'.action = "BRICK_DESTROY" => Len(queue') = 1
    <3>1. 1 \in 1..Len(queue)
      BY <1>3
    <3>2. queue[1].action = "BRICK_DESTROY" => 1 = Len(queue) - 1
      BY <3>1 DEF DestroyInv
    <3> QED BY <1>1, <1>3, <3>2
  <2>3. ASSUME pc = "del"
        PROVE  \/ Len(queue') > 1 /\ queue'[Len(queue') - 1] = BrickDestroy(Fw(req.nic))
               \/ Len(queue') = 1 /\ running' = BrickDestroy(Fw(req.nic))
               \/ /\ Len(queue') <= 1 /\ running' \in {Nothing, Idle}
                  /\ Fw(req.nic) \notin live
                  /\ \A l \in links : l[1] # Fw(req.nic) /\ l[2] # Fw(req.nic)
    <3>1. CASE Len(queue) > 1 /\ queue[Len(queue) - 1] = BrickDestroy(Fw(req.nic))
      <4>1. CASE Len(queue) = 2
        BY <1>1, <1>3, <3>1, <4>1
      <4>2. CASE Len(queue) > 2
        <5>1. /\ Len(queue') > 1 /\ Len(queue') - 1 \in 1..Len(queue) - 1
              /\ queue'[Len(queue') - 1] = queue[Len(queue) - 1]
          BY <1>1, <1>3, <4>2
        <5> QED BY <3>1, <5>1
      <4> QED BY <1>3, <3>1, <4>1, <4>2
    <3>2. CASE Len(queue) = 1 /\ running = BrickDestroy(Fw(req.nic))
      BY <1>1, <3>2, CallFields
    <3>3. CASE /\ Len(queue) <= 1 /\ running \in {Nothing, Idle}
               /\ Fw(req.nic) \notin live
               /\ \A l \in links : l[1] # Fw(req.nic) /\ l[2] # Fw(req.nic)
      <4>1. Len(queue) = 1 /\ Head(queue) = Nothing
        BY <1>1, <1>3, <2>3, <3>3 DEF BarrierInv
      <4> QED BY <1>1, <1>3, <3>3, <4>1
    <3> QED BY <2>3, <3>1, <3>2, <3>3 DEF DestroyInv
  <2> QED BY <1>1, <2>1, <2>2, <2>3 DEF DestroyInv
<1>8. PollInv'
  BY <1>1, <1>2, <1>3, PollPop DEF PollInv
<1>9. LiveInv'
  BY <1>1, <1>2 DEF LiveInv
<1> QED BY <1>2, <1>4, <1>5, <1>6, <1>7, <1>8, <1>9

-----------------------------------------------------------------------------
(* Requests: the API thread starts while calls may be left in the queue.   *)

(* Calls stay good while their NICs stay.                                  *)
LEMMA CallsStayGood ==
  ASSUME \A n \in Nics : n \in Nics' /\ branch'[n].vni = branch[n].vni,
         pc = "idle" \/ (pc' = pc /\ req' = req)
  PROVE  /\ \A w, e : JoinOk(w, e) => JoinOk(w, e)'
         /\ \A v, b : PortOk(v, b) => PortOk(v, b)'
         /\ GoodCalls \subseteq GoodCalls'
<1>1. ASSUME NEW w, NEW e, JoinOk(w, e) PROVE JoinOk(w, e)'
  BY <1>1 DEF JoinOk
<1>2. ASSUME NEW v, NEW b, PortOk(v, b) PROVE PortOk(v, b)'
  BY <1>2 DEF PortOk, NicsOf
<1>3. ASSUME NEW c \in Rpc, GoodCall(c) PROVE GoodCall(c)'
  BY <1>1, <1>2, <1>3 DEF GoodCall
<1> QED BY <1>1, <1>2, <1>3 DEF GoodCalls

(* Where calls are after a push.                                           *)
LEMMA PushFacts ==
  ASSUME NEW q \in Seq(Rpc), NEW s \in Seq(Rpc)
  PROVE  /\ q \o s \in Seq(Rpc) /\ Len(q \o s) = Len(q) + Len(s)
         /\ Len(q) \in Nat /\ Len(s) \in Nat
         /\ \A i \in 1..Len(q) : (q \o s)[i] = q[i]
         /\ \A i \in 1..Len(s) : (q \o s)[Len(q) + i] = s[i]
OBVIOUS

LEMMA PushTwo ==
  ASSUME NEW q \in Seq(Rpc), NEW a \in Rpc, NEW b \in Rpc
  PROVE  /\ Len(q \o <<a, b>>) = Len(q) + 2 /\ Len(q) \in Nat
         /\ (q \o <<a, b>>)[Len(q) + 1] = a /\ (q \o <<a, b>>)[Len(q) + 2] = b
         /\ \A i \in 1..Len(q) : (q \o <<a, b>>)[i] = q[i]
OBVIOUS

(* A push that ends in the NOTHING of a wait.                              *)
LEMMA PushNothing ==
  ASSUME NEW q \in Seq(Rpc)
  PROVE  /\ q \o <<Nothing>> \in Seq(Rpc) /\ q \o <<Nothing>> # <<>>
         /\ Len(q \o <<Nothing>>) = Len(q) + 1
         /\ (q \o <<Nothing>>)[Len(q) + 1] = Nothing
         /\ \A i \in 1..Len(q) : (q \o <<Nothing>>)[i] = q[i]
<1>1. Nothing \in Rpc
  BY DEF Rpc
<1> QED BY <1>1

(* NicDel disables the branch.                                             *)
LEMMA DisabledFields ==
  ASSUME NEW g \in Branch, NEW h, h = [g EXCEPT !.enable = FALSE]
  PROVE  /\ h \in Branch /\ h.enable = FALSE /\ h.vni = g.vni /\ h.head = g.head
         /\ h.sniffer = g.sniffer /\ h.bypass = g.bypass /\ h.trace = g.trace
BY DEF Branch

LEMMA DisabledBranch ==
  ASSUME TypeOK, NEW n \in Nics, branch' = [branch EXCEPT ![n].enable = FALSE]
  PROVE  /\ branch' \in [NicId -> Branch \cup {None}]
         /\ branch'[n] \in Branch /\ ~ branch'[n].enable
         /\ branch'[n].vni = branch[n].vni /\ branch'[n].head = branch[n].head
         /\ branch'[n].sniffer = branch[n].sniffer
         /\ branch'[n].bypass = branch[n].bypass
         /\ branch'[n].trace = branch[n].trace
         /\ \A m \in NicId : m # n => branch'[m] = branch[m]
         /\ Nics' = Nics
<1>1. branch[n] \in Branch /\ n \in NicId
  BY DEF TypeOK, Nics
<1>2. branch'[n] = [branch[n] EXCEPT !.enable = FALSE]
  BY <1>1 DEF TypeOK
<1>3. /\ branch'[n] \in Branch /\ ~ branch'[n].enable
      /\ branch'[n].vni = branch[n].vni /\ branch'[n].head = branch[n].head
      /\ branch'[n].sniffer = branch[n].sniffer
      /\ branch'[n].bypass = branch[n].bypass
      /\ branch'[n].trace = branch[n].trace
  BY <1>1, <1>2, DisabledFields
<1>4. \A m \in NicId : m # n => branch'[m] = branch[m]
  BY DEF TypeOK
<1>5. branch' \in [NicId -> Branch \cup {None}]
  BY <1>1, <1>3 DEF TypeOK, Branch
<1>6. Nics' = Nics
  BY <1>1, <1>3, <1>4, NullAssumption DEF Nics
<1> QED BY <1>3, <1>4, <1>5, <1>6

(* The other NIC when there are two.                                       *)
LEMMA OtherNic ==
  ASSUME NEW n \in Nics, Cardinality(Others(n)) = 1
  PROVE  \E o \in Nics : /\ o # n /\ o \in Others(n) /\ OtherHead(n) = branch[o].head
                         /\ branch[o].vni = branch[n].vni
<1>1. Others(n) # {}
  BY FS_EmptySet
<1>2. (CHOOSE o \in Others(n) : TRUE) \in Others(n)
  BY <1>1
<1> QED BY <1>2 DEF OtherHead, Others, NicsOf

LEMMA DetachCalls ==
  ASSUME GraphInv, NEW n \in Nics
  PROVE  \/ /\ Cardinality(Others(n)) = 1
            /\ \E o \in Nics :
                 /\ o # n /\ o \in Others(n) /\ branch[o].vni = branch[n].vni
                 /\ Detach(n) = <<Unlink(Sw(branch[n].vni)),
                                  Link(Vtep, branch[o].head),
                                  AddVni(branch[o].head, branch[n].vni)>>
         \/ /\ Cardinality(Others(n)) # 1
            /\ Detach(n) = <<Unlink(branch[n].head), BrickDestroy(Fw(n))>>
BY OtherNic DEF Detach

LEMMA NicDelKeeps ==
  ASSUME GraphInv, Ready, NEW n, NEW next \in Request, NicDel(n, next),
         next.nic = n, next.adding => next.vni \in Vni
  PROVE  GraphInv'
<1> USE DEF GraphInv
<1> DEFINE off == [branch EXCEPT ![n].enable = FALSE]
           D == Detach(n)
<1>1. /\ n \in Nics /\ n \in NicId /\ pc = "idle" /\ branch' = off /\ req' = next
      /\ pc' = IF Cardinality(Others(n)) = 1 THEN "del_switch" ELSE "del"
      /\ switch' = switch /\ live' = live /\ links' = links /\ ports' = ports
      /\ running' = running /\ phase' = phase /\ poll' = poll
  BY DEF NicDel, Ready, poller, Nics
<1>2. PICK s \in PollLists(off) :
        queue' = ((queue \o <<UpdatePoll(s)>>) \o D) \o <<Nothing>>
  BY DEF NicDel
<1>3. /\ branch' \in [NicId -> Branch \cup {None}]
      /\ branch'[n] \in Branch /\ ~ branch'[n].enable
      /\ branch'[n].vni = branch[n].vni /\ branch'[n].head = branch[n].head
      /\ branch'[n].sniffer = branch[n].sniffer
      /\ \A m \in NicId : m # n => branch'[m] = branch[m]
      /\ Nics' = Nics
  BY <1>1, DisabledBranch
<1>4. /\ \A m \in Nics : /\ m \in NicId /\ branch[m] \in Branch
                         /\ branch'[m].vni = branch[m].vni
                         /\ branch'[m].head = branch[m].head
                         /\ branch'[m].sniffer = branch[m].sniffer
      /\ \A m \in Nics : branch[m].head \in Bricks(m) /\ branch[m].head \in Brick
      /\ branch[n].vni \in Vni
  <2>1. \A m \in Nics : m \in NicId /\ branch[m] \in Branch
    BY DEF TypeOK, Nics
  <2> QED BY <1>1, <1>3, <2>1 DEF ReqInv, Branch
<1> HIDE DEF off
<1>5. /\ \A w, e : JoinOk(w, e) => JoinOk(w, e)'
      /\ \A v, b : PortOk(v, b) => PortOk(v, b)'
      /\ GoodCalls \subseteq GoodCalls'
  BY <1>1, <1>3, <1>4, CallsStayGood
<1>6. s \in SUBSET NicId /\ s \subseteq Nics
  BY <1>1, <1>2, <1>3, PollListsEnabled DEF Nics
<1>7. UpdatePoll(s) \in GoodCalls' /\ Nothing \in GoodCalls' /\ Nothing \in NoPolls
  <2>1. UpdatePoll(s) \in Rpc /\ Nothing \in Rpc
    BY <1>6 DEF Rpc
  <2> QED BY <1>3, <1>6, <2>1, CallFields DEF GoodCalls, GoodCall, NoPolls
<1>8. D \in Seq(GoodCalls' \cap NoPolls)
  <2>1. CASE Cardinality(Others(n)) = 1
    <3>1. PICK o \in Nics :
            /\ branch[o].vni = branch[n].vni
            /\ D = <<Unlink(Sw(branch[n].vni)), Link(Vtep, branch[o].head),
                     AddVni(branch[o].head, branch[n].vni)>>
      BY <1>1, <2>1, DetachCalls
    <3>2. /\ Vtep \in Brick /\ Sw(branch[n].vni) \in Brick /\ branch[o].head \in Brick
      BY <1>1, <1>4, BrickTypes
    <3>3. /\ Unlink(Sw(branch[n].vni)) \in Rpc /\ Link(Vtep, branch[o].head) \in Rpc
          /\ AddVni(branch[o].head, branch[n].vni) \in Rpc
      BY <1>4, <3>2 DEF Rpc
    <3>4. JoinOk(Vtep, branch[o].head)
      BY <1>4 DEF JoinOk
    <3>5. PortOk(branch[n].vni, branch[o].head)
      BY <1>4, <3>1 DEF PortOk, NicsOf
    <3>6. /\ Unlink(Sw(branch[n].vni)) \in GoodCalls' \cap NoPolls
          /\ Link(Vtep, branch[o].head) \in GoodCalls' \cap NoPolls
          /\ AddVni(branch[o].head, branch[n].vni) \in GoodCalls' \cap NoPolls
      BY <1>5, <3>3, <3>4, <3>5, CallFields DEF GoodCalls, GoodCall, NoPolls
    <3> QED BY <3>1, <3>6, SeqLiterals
  <2>2. CASE Cardinality(Others(n)) # 1
    <3>1. D = <<Unlink(branch[n].head), BrickDestroy(Fw(n))>> /\ pc' = "del"
      BY <1>1, <2>2, DetachCalls
    <3>2. Unlink(branch[n].head) \in Rpc /\ BrickDestroy(Fw(n)) \in Rpc
      BY <1>1, <1>4, BrickTypes DEF Rpc
    <3>3. /\ Unlink(branch[n].head) \in GoodCalls' \cap NoPolls
          /\ BrickDestroy(Fw(n)) \in GoodCalls' \cap NoPolls
      BY <1>1, <3>1, <3>2, CallFields DEF GoodCalls, GoodCall, NoPolls
    <3> QED BY <3>1, <3>3, SeqLiterals
  <2> QED BY <2>1, <2>2
<1> DEFINE q1 == queue \o <<UpdatePoll(s)>>
           q2 == q1 \o D
<1>9. /\ queue \in Seq(GoodCalls') /\ q1 \in Seq(GoodCalls') /\ q2 \in Seq(GoodCalls')
      /\ queue' \in Seq(GoodCalls')
  <2>1. queue \in Seq(GoodCalls') /\ D \in Seq(GoodCalls')
    BY <1>5, <1>8, SeqMonotone DEF ShapeInv
  <2>2. <<UpdatePoll(s)>> \in Seq(GoodCalls') /\ <<Nothing>> \in Seq(GoodCalls')
    BY <1>7, SeqLiterals
  <2> HIDE DEF D
  <2> QED BY <1>2, <2>1, <2>2, SeqJoin
<1>10. /\ queue \in Seq(Rpc) /\ q1 \in Seq(Rpc) /\ q2 \in Seq(Rpc)
       /\ queue' \in Seq(Rpc) /\ D \in Seq(Rpc) /\ D \in Seq(NoPolls)
  <2>1. GoodCalls' \subseteq Rpc /\ NoPolls \subseteq Rpc
    BY DEF GoodCalls, NoPolls
  <2> HIDE DEF D, q1, q2
  <2> QED BY <1>8, <1>9, <2>1, SeqMonotone DEF TypeOK
<1>11. TypeOK'
  BY <1>1, <1>3, <1>10 DEF TypeOK
<1>12. ReqInv'
  <2>1. \A m \in Nics : branch'[m].enable <=> ~ Deleting(m)'
    BY <1>1, <1>3, <1>4 DEF ReqInv, Deleting
  <2> QED BY <1>1, <1>3, <1>4, <2>1 DEF ReqInv
<1>13. ShapeInv'
  BY <1>1, <1>5, <1>9 DEF ShapeInv
<1>14. BarrierInv'
  <2> HIDE DEF q1, q2, D
  <2>1. queue' = q2 \o <<Nothing>>
    BY <1>2 DEF q2, q1
  <2> QED BY <1>10, <2>1, PushNothing DEF BarrierInv
<1>15. PollInv'
  <2>1. s \in PollLists(branch') /\ q1 = Append(queue, UpdatePoll(s))
    BY <1>1, <1>2, <1>10 DEF off
  <2> HIDE DEF q1, q2, D
  <2>2. PollOk(q1, running, poll, branch')
    BY <1>6, <1>10, <2>1, PollPush
  <2>3. PollOk(q2, running, poll, branch')
    BY <1>10, <2>2, PollPushOther DEF q2
  <2>4. <<Nothing>> \in Seq(NoPolls)
    BY <1>7, SeqLiterals
  <2>5. PollOk(q2 \o <<Nothing>>, running, poll, branch')
    BY <1>10, <2>3, <2>4, PollPushOther
  <2> QED BY <1>1, <1>2, <1>3, <2>5 DEF PollInv, q2, q1
<1>16. LiveInv'
  BY <1>1, <1>3, <1>4 DEF LiveInv
<1>17. DestroyInv'
  <2>1. /\ \A i \in 1..Len(queue) : queue[i].action # "BRICK_DESTROY"
        /\ running.action # "BRICK_DESTROY"
    BY <1>1, CallFields DEF ShapeInv, GoodCalls, GoodCall
  <2>2. /\ Len(q1) = Len(queue) + 1 /\ Len(queue) \in Nat
        /\ \A i \in 1..Len(q1) : q1[i].action # "BRICK_DESTROY"
    BY <1>7, <1>10, <2>1, CallFields
  <2> HIDE DEF q1
  <2>3. CASE Cardinality(Others(n)) = 1
    <3>1. PICK o \in Nics :
             D = <<Unlink(Sw(branch[n].vni)), Link(Vtep, branch[o].head),
                   AddVni(branch[o].head, branch[n].vni)>>
      BY <1>1, <2>3, DetachCalls
    <3> DEFINE S == {c \in Rpc : c.action # "BRICK_DESTROY"}
    <3>2. q1 \in Seq(S) /\ D \in Seq(S) /\ <<Nothing>> \in Seq(S)
      <4>1. q1 \in Seq(S)
        BY <1>10, <2>2
      <4>2. \A i \in 1..Len(D) : D[i].action # "BRICK_DESTROY"
        BY <3>1, CallFields
      <4>3. D \in Seq(S)
        <5> HIDE DEF D
        <5> QED BY <1>10, <4>2
      <4>4. Nothing \in S
        BY CallFields DEF Rpc
      <4> HIDE DEF S
      <4> QED BY <4>1, <4>3, <4>4, SeqLiterals
    <3> HIDE DEF D, S
    <3>3. queue' = q2 \o <<Nothing>>
      BY <1>2 DEF q2, q1
    <3>5. queue' \in Seq(S)
      BY <3>2, <3>3, SeqJoin
    <3>4. \A i \in 1..Len(queue') : queue'[i].action # "BRICK_DESTROY"
      BY <3>5 DEF S
    <3> QED BY <1>1, <2>1, <2>3, <3>4 DEF DestroyInv
  <2>4. CASE Cardinality(Others(n)) # 1
    <3>1. D = <<Unlink(branch[n].head), BrickDestroy(Fw(n))>> /\ pc' = "del"
      BY <1>1, <2>4, DetachCalls
    <3>2. /\ Len(q2) = Len(q1) + 2 /\ q2[Len(q1) + 2] = BrickDestroy(Fw(n))
          /\ \A i \in 1..Len(q1) + 1 : q2[i].action # "BRICK_DESTROY"
      <4> DEFINE a == Unlink(branch[n].head)
                 b == BrickDestroy(Fw(n))
      <4>1. a \in Rpc /\ b \in Rpc /\ a.action = "UNLINK"
        BY <1>1, <1>4, BrickTypes, CallFields DEF Rpc
      <4>2. q2 = q1 \o <<a, b>>
        BY <3>1
      <4> HIDE DEF a, b, q2, D
      <4>3. /\ Len(q2) = Len(q1) + 2 /\ q2[Len(q1) + 1] = a /\ q2[Len(q1) + 2] = b
            /\ \A i \in 1..Len(q1) : q2[i] = q1[i]
        BY <1>10, <4>1, <4>2, PushTwo
      <4> QED BY <2>2, <4>1, <4>3 DEF b
    <3> HIDE DEF q2, D
    <3>3. queue' = q2 \o <<Nothing>>
      BY <1>2 DEF q2, q1
    <3>4. /\ Len(queue') = Len(q2) + 1 /\ queue'[Len(q2) + 1] = Nothing
          /\ \A i \in 1..Len(q2) : queue'[i] = q2[i]
      BY <1>10, <3>3, PushNothing
    <3>5. /\ Len(q1) \in Nat /\ Len(q2) = Len(q1) + 2 /\ Len(queue') = Len(q1) + 3
      BY <2>2, <3>2, <3>4
    <3>6. \A i \in 1..Len(queue') :
             queue'[i].action = "BRICK_DESTROY" => i = Len(queue') - 1
      BY <3>2, <3>4, <3>5, CallFields
    <3>7. Len(queue') > 1 /\ queue'[Len(queue') - 1] = BrickDestroy(Fw(req'.nic))
      BY <1>1, <3>2, <3>4, <3>5
    <3>8. Fw(req'.nic) \in live'
      BY <1>1 DEF LiveInv, Ready
    <3> QED BY <1>1, <2>1, <3>6, <3>7, <3>8 DEF DestroyInv
  <2> QED BY <2>3, <2>4
<1> QED BY <1>11, <1>12, <1>13, <1>14, <1>15, <1>16, <1>17

NoDestroys == {c \in Rpc : c.action # "BRICK_DESTROY"}

LEMMA IdleNoDestroy ==
  ASSUME ShapeInv, TypeOK, pc # "del"
  PROVE  queue \in Seq(NoDestroys) /\ running.action # "BRICK_DESTROY"
<1>1. GoodCalls \subseteq NoDestroys
  BY DEF GoodCalls, GoodCall, NoDestroys
<1>2. running.action # "BRICK_DESTROY"
  BY <1>1, CallFields DEF ShapeInv, NoDestroys
<1> QED BY <1>1, <1>2, SeqMonotone DEF ShapeInv

LEMMA NoDestroyInv ==
  ASSUME queue' \in Seq(NoDestroys), running'.action # "BRICK_DESTROY", pc' # "del"
  PROVE  DestroyInv'
<1>1. \A i \in 1..Len(queue') : queue'[i].action # "BRICK_DESTROY"
  BY DEF NoDestroys
<1> QED BY <1>1 DEF DestroyInv

LEMMA NicAddStartKeeps ==
  ASSUME GraphInv, Ready, NEW n \in NicId \ Nics, NEW next \in Request,
         next.nic = n, next.vni \in Vni,
         queue' = queue \o <<FwNew(n), Nothing>>, pc' = "new", req' = next,
         UNCHANGED <<branch, switch, live, links, ports, poller>>
  PROVE  GraphInv'
<1> USE DEF GraphInv
<1>1. /\ pc = "idle" /\ branch' = branch /\ switch' = switch /\ live' = live
      /\ links' = links /\ ports' = ports /\ running' = running /\ phase' = phase
      /\ poll' = poll /\ Nics' = Nics
  BY DEF Ready, poller, Nics
<1>2. /\ \A w, e : JoinOk(w, e) => JoinOk(w, e)'
      /\ \A v, b : PortOk(v, b) => PortOk(v, b)'
      /\ GoodCalls \subseteq GoodCalls'
  BY <1>1, CallsStayGood
<1>3. FwNew(n) \in Rpc /\ Nothing \in Rpc
  BY DEF Rpc
<1>4. FwNew(n) \in GoodCalls' /\ Nothing \in GoodCalls'
  BY <1>3, CallFields DEF GoodCalls, GoodCall
<1>5. /\ <<FwNew(n), Nothing>> \in Seq(GoodCalls')
      /\ <<FwNew(n), Nothing>> \in Seq(NoPolls)
      /\ <<FwNew(n), Nothing>> \in Seq(NoDestroys)
      /\ <<FwNew(n), Nothing>> \in Seq(Rpc)
  <2>1. {FwNew(n), Nothing} \subseteq NoPolls /\ {FwNew(n), Nothing} \subseteq NoDestroys
    BY <1>3, CallFields DEF NoPolls, NoDestroys
  <2> QED BY <1>3, <1>4, <2>1, SeqLiterals
<1>6. queue \in Seq(Rpc) /\ queue \in Seq(GoodCalls')
  BY <1>2, SeqMonotone DEF TypeOK, ShapeInv
<1>7. TypeOK'
  BY <1>1, <1>5, <1>6, SeqJoin DEF TypeOK
<1>8. ReqInv'
  BY <1>1 DEF ReqInv, Deleting
<1>9. ShapeInv'
  <2>1. queue' \in Seq(GoodCalls')
    BY <1>5, <1>6, SeqJoin
  <2> QED BY <1>1, <1>2, <2>1 DEF ShapeInv
<1>10. BarrierInv'
  <2>1. Len(queue') = Len(queue) + 2 /\ Len(queue) \in Nat
        /\ queue'[Len(queue) + 2] = Nothing
    BY <1>3, <1>6, PushTwo
  <2> QED BY <2>1 DEF BarrierInv
<1>11. DestroyInv'
  BY <1>1, <1>5, IdleNoDestroy, NoDestroyInv, SeqJoin
<1>12. PollInv'
  BY <1>1, <1>5, <1>6, PollPushOther DEF PollInv
<1>13. LiveInv'
  BY <1>1 DEF LiveInv
<1> QED BY <1>7, <1>8, <1>9, <1>10, <1>11, <1>12, <1>13

LEMMA SgRequestKeeps ==
  ASSUME GraphInv, NEW n \in NicId, SgRequest(n)
  PROVE  GraphInv'
<1> USE DEF GraphInv
<1>1. /\ pc = "idle" /\ n \in Nics /\ branch' = branch /\ switch' = switch
      /\ live' = live /\ links' = links /\ ports' = ports /\ running' = running
      /\ phase' = phase /\ poll' = poll /\ Nics' = Nics /\ pc' = pc /\ req' = req
      /\ queue' = Append(queue, FwReload(Fw(n)))
  BY DEF SgRequest, Ready, poller, api, Nics
<1>2. /\ GoodCalls' = GoodCalls /\ ReqInv'
      /\ (\A w, e : JoinOk(w, e)' <=> JoinOk(w, e))
      /\ (\A v, b : PortOk(v, b)' <=> PortOk(v, b))
  BY <1>1, PollerFrame
<1>3. FwReload(Fw(n)) \in Rpc
  BY BrickTypes DEF Rpc, Brick, Bricks
<1>4. /\ FwReload(Fw(n)) \in GoodCalls /\ FwReload(Fw(n)) \in NoPolls
      /\ FwReload(Fw(n)) \in NoDestroys
  BY <1>3, CallFields DEF GoodCalls, GoodCall, NoPolls, NoDestroys
<1>5. /\ queue \in Seq(Rpc) /\ queue \in Seq(GoodCalls)
      /\ queue' = queue \o <<FwReload(Fw(n))>>
  BY <1>1 DEF TypeOK, ShapeInv
<1>6. TypeOK'
  BY <1>1, <1>3, <1>5, SeqJoin DEF TypeOK
<1>7. ShapeInv'
  <2>1. queue' \in Seq(GoodCalls)
    BY <1>1, <1>4, <1>5, SeqJoin
  <2> QED BY <1>1, <1>2, <2>1 DEF ShapeInv
<1>8. BarrierInv'
  BY <1>1 DEF BarrierInv
<1>9. DestroyInv'
  BY <1>1, <1>4, IdleNoDestroy, NoDestroyInv, SeqJoin
<1>10. PollInv'
  <2>1. <<FwReload(Fw(n))>> \in Seq(NoPolls)
    BY <1>4, SeqLiterals
  <2> QED BY <1>1, <1>5, <2>1, PollPushOther DEF PollInv
<1>11. LiveInv'
  BY <1>1 DEF LiveInv
<1> QED BY <1>2, <1>6, <1>7, <1>8, <1>9, <1>10, <1>11

LEMMA UpdateKeeps ==
  ASSUME GraphInv, Ready, NEW n \in Nics, NEW e, EditOk(e, {}), e.n = n,
         NEW s \in {<<>>, <<FwReload(Fw(n))>>}, UpdateStep(n, e, s)
  PROVE  GraphInv'
<1> USE DEF GraphInv
<1>0. n \in NicId /\ pc = "idle" /\ e.g \in Branch /\ branch[n] \in Branch
  BY DEF Nics, Ready, TypeOK, EditOk, Edit
<1>1. /\ branch' = [branch EXCEPT ![n] = e.g] /\ live' = (live \cup e.made) \ e.gone
      /\ links' = Without(e.gone, links) /\ ports' = Linked(ports, links')
      /\ queue' = (queue \o e.calls) \o s
      /\ switch' = switch /\ running' = running /\ phase' = phase /\ poll' = poll
      /\ pc' = pc /\ req' = req
  BY DEF UpdateStep, poller, api
<1>2. /\ branch'[n] = e.g /\ (\A m \in NicId : m # n => branch'[m] = branch[m])
      /\ branch' \in [NicId -> Branch \cup {None}]
  BY <1>0, <1>1 DEF TypeOK
<1>3. Nics' = Nics
  BY <1>0, <1>2, NullAssumption DEF Nics
<1>4. /\ e.g.vni = branch[n].vni /\ e.g.enable = branch[n].enable
      /\ e.g.head \in Bricks(n) /\ e.g.sniffer \in Sniffers(n) \cup {None}
      /\ e.made \subseteq Sniffers(n) /\ e.gone \subseteq Sniffers(n)
      /\ Sniffers(n) \cap ((live \cup e.made) \ e.gone) \subseteq {e.g.sniffer, e.g.head}
      /\ e.calls \in Seq(OwnCalls(n, branch[n].vni, e.poll))
      /\ PollOk(queue \o e.calls, running, poll, branch)
      /\ e.poll \in PollLists(branch)
  BY DEF EditOk, Edit
<1>5. /\ \A w, d : JoinOk(w, d) => JoinOk(w, d)'
      /\ \A v, b : PortOk(v, b) => PortOk(v, b)'
      /\ GoodCalls \subseteq GoodCalls'
  BY <1>0, <1>2, <1>3, <1>4, CallsStayGood DEF Nics
<1>6. OwnCalls(n, branch[n].vni, e.poll) \subseteq GoodCalls'
  <2>1. e.poll \subseteq Nics
    BY <1>4, PollListsEnabled DEF Nics
  <2>2. ASSUME NEW c \in OwnCalls(n, branch[n].vni, e.poll) PROVE GoodCall(c)
    BY <2>1 DEF OwnCalls, GoodCall, JoinOk, PortOk, NicsOf
  <2> QED BY <1>5, <2>2 DEF OwnCalls, GoodCalls
<1>7. /\ s \in Seq(GoodCalls') /\ s \in Seq(NoPolls) /\ s \in Seq(NoDestroys)
      /\ s \in Seq(Rpc)
  <2>1. FwReload(Fw(n)) \in Rpc
    BY <1>0, BrickTypes DEF Rpc, Brick, Bricks
  <2>2. /\ FwReload(Fw(n)) \in GoodCalls' /\ FwReload(Fw(n)) \in NoPolls
        /\ FwReload(Fw(n)) \in NoDestroys
    BY <2>1, CallFields DEF GoodCalls, GoodCall, NoPolls, NoDestroys
  <2> QED BY <2>1, <2>2, SeqLiterals
<1>8. /\ queue \o e.calls \in Seq(GoodCalls') /\ queue \o e.calls \in Seq(Rpc)
      /\ queue' \in Seq(GoodCalls') /\ queue' \in Seq(Rpc)
  <2>1. queue \in Seq(GoodCalls') /\ e.calls \in Seq(GoodCalls')
    BY <1>4, <1>5, <1>6, SeqMonotone DEF ShapeInv
  <2>2. queue \o e.calls \in Seq(GoodCalls') /\ queue' \in Seq(GoodCalls')
    BY <1>1, <1>7, <2>1, SeqJoin
  <2>3. GoodCalls' \subseteq Rpc
    BY DEF GoodCalls
  <2> QED BY <2>2, <2>3, SeqMonotone
<1>9. TypeOK'
  <2>1. live' \subseteq Brick /\ links' \subseteq links /\ ports' \subseteq ports
    BY <1>0, <1>1, <1>4, BrickTypes DEF TypeOK, Without, Linked, Brick, Bricks
  <2> QED BY <1>1, <1>2, <1>8, <2>1 DEF TypeOK
<1>10. ReqInv'
  BY <1>0, <1>1, <1>2, <1>3, <1>4 DEF ReqInv, Deleting, Nics
<1>11. ShapeInv'
  <2>1. links' \subseteq links /\ ports' \subseteq ports
    BY <1>1 DEF Without, Linked
  <2> QED BY <1>1, <1>5, <1>8, <2>1 DEF ShapeInv
<1>12. BarrierInv'
  BY <1>0, <1>1 DEF BarrierInv
<1>13. DestroyInv'
  <2>1. queue \in Seq(NoDestroys) /\ running.action # "BRICK_DESTROY"
    BY <1>0, IdleNoDestroy
  <2>2. OwnCalls(n, branch[n].vni, e.poll) \subseteq NoDestroys
    BY DEF OwnCalls, NoDestroys
  <2>3. e.calls \in Seq(NoDestroys)
    BY <1>4, <2>2, SeqMonotone
  <2>4. queue' \in Seq(NoDestroys)
    BY <1>1, <1>7, <2>1, <2>3, SeqJoin
  <2> QED BY <1>0, <1>1, <2>1, <2>4, NoDestroyInv
<1>14. PollInv'
  <2>1. PollOk(queue', running, poll, branch)
    BY <1>1, <1>4, <1>7, <1>8, PollPushOther
  <2>2. PollLists(branch') = PollLists(branch)
    BY <1>0, <1>2, <1>4, NullAssumption, PollListsFrame DEF Nics
  <2> QED BY <1>1, <1>3, <2>1, <2>2 DEF PollInv, PollOk
<1>15. LiveInv'
  <2>0. ASSUME NEW m, m # n PROVE Bricks(m) \cap Sniffers(n) = {}
    BY <2>0, OwnBrick DEF Sniffers
  <2>1. ASSUME NEW m \in Nics
        PROVE  /\ {As(m), Vhost(m)} \subseteq live'
               /\ Fw(m) \in live' \/ (pc = "del" /\ req.nic = m)
    <3>1. {As(m), Vhost(m), Fw(m)} \cap Sniffers(n) = {}
      BY DEF As, Vhost, Fw, Sniffers
    <3> QED BY <1>1, <1>4, <3>1 DEF LiveInv
  <2>2. ASSUME NEW m \in Nics
        PROVE  Sniffers(m) \cap live' \subseteq {branch'[m].sniffer, branch'[m].head}
    <3>1. CASE m = n
      BY <1>1, <1>2, <1>4, <3>1
    <3>2. CASE m # n
      BY <1>1, <1>2, <1>4, <2>0, <3>2 DEF LiveInv, Bricks, Nics
    <3> QED BY <3>1, <3>2
  <2>3. ASSUME NEW m \in NicId \ Nics
        PROVE  Bricks(m) \cap live' \subseteq {}
    BY <1>0, <1>1, <1>4, <2>0, <2>3 DEF LiveInv
  <2>4. Vtep \in live'
    <3>1. Vtep \notin Sniffers(n)
      BY DEF Vtep, Sniffers
    <3> QED BY <1>1, <1>4, <3>1 DEF LiveInv
  <2> QED BY <1>1, <1>3, <2>1, <2>2, <2>3, <2>4 DEF LiveInv
<1> QED BY <1>9, <1>10, <1>11, <1>12, <1>13, <1>14, <1>15

-----------------------------------------------------------------------------
(* The steps of a handler after a wait.                                    *)

LEMMA AfterWait ==
  ASSUME GraphInv, pc # "idle", WaitEmptyQueue
  PROVE  /\ queue = <<>> /\ Len(queue) = 0 /\ running \in {Nothing, Idle}
         /\ running.action \in {"NOTHING", "NONE"}
         /\ running \in GoodCalls' \cup {Idle}
         /\ poll \in PollLists(branch)
         /\ PollOk(<<>>, running, poll, branch)
         /\ pc = "del" =>
              /\ Fw(req.nic) \notin live
              /\ \A l \in links : l[1] # Fw(req.nic) /\ l[2] # Fw(req.nic)
<1> USE DEF GraphInv
<1>1. queue = <<>> /\ Len(queue) = 0 /\ running \in {Nothing, Idle}
  BY DEF WaitEmptyQueue, BarrierInv
<1>2. running.action \in {"NOTHING", "NONE"}
  BY <1>1, CallFields
<1>3. running \in GoodCalls' \cup {Idle}
  <2>1. Nothing \in Rpc
    BY DEF Rpc
  <2> QED BY <1>1, <2>1, CallFields DEF GoodCalls, GoodCall
<1>4. PollsIn(<<>>) = {}
  BY DEF PollsIn
<1>5. poll \in PollLists(branch) /\ PollOk(<<>>, running, poll, branch)
  BY <1>1, <1>2, <1>4 DEF PollInv, PollOk
<1>6. pc = "del" =>
        /\ Fw(req.nic) \notin live
        /\ \A l \in links : l[1] # Fw(req.nic) /\ l[2] # Fw(req.nic)
  BY <1>1, <1>2, CallFields DEF DestroyInv
<1> QED BY <1>1, <1>2, <1>3, <1>5, <1>6

(* The two calls a handler pushes before it waits again.                   *)
LEMMA WaitAgain ==
  ASSUME NEW c \in Rpc, c \in GoodCalls', c \in NoPolls,
         NEW r, NEW p, NEW b, PollOk(<<>>, r, p, b)
  PROVE  /\ <<c, Nothing>> \in Seq(Rpc) /\ <<c, Nothing>> \in Seq(GoodCalls')
         /\ PollOk(<<c, Nothing>>, r, p, b)
         /\ Len(<<c, Nothing>>) = 2 /\ <<c, Nothing>>[1] = c
         /\ <<c, Nothing>>[2] = Nothing /\ <<c, Nothing>> # <<>>
<1>1. Nothing \in Rpc
  BY DEF Rpc
<1>2. Nothing \in GoodCalls' /\ Nothing \in NoPolls
  BY <1>1, CallFields DEF GoodCalls, GoodCall, NoPolls
<1>3. /\ <<c, Nothing>> \in Seq(Rpc) /\ <<c, Nothing>> \in Seq(GoodCalls')
      /\ <<c, Nothing>> \in Seq(NoPolls) /\ <<>> \in Seq(Rpc)
  BY <1>1, <1>2, SeqLiterals
<1>4. <<>> \o <<c, Nothing>> = <<c, Nothing>>
  BY <1>3
<1>5. PollOk(<<>> \o <<c, Nothing>>, r, p, b)
  BY <1>3, PollPushOther
<1> QED BY <1>3, <1>4, <1>5

LEMMA NicDelSwitchKeeps ==
  ASSUME GraphInv, NicDelSwitch
  PROVE  GraphInv'
<1> USE DEF GraphInv
<1> DEFINE n == req.nic
           v == branch[n].vni
           c == BrickDestroy(Fw(n))
<1>1. /\ pc = "del_switch" /\ WaitEmptyQueue /\ pc' = "del"
      /\ switch' = switch \ {v} /\ live' = live \ {Sw(v)}
      /\ links' = Without({Sw(v)}, links) /\ ports' = Linked(ports, links')
      /\ queue' = <<c, Nothing>> /\ branch' = branch /\ req' = req
      /\ running' = running /\ phase' = phase /\ poll' = poll /\ Nics' = Nics
      /\ \A x : NicsOf(x)' = NicsOf(x)
  BY DEF NicDelSwitch, poller, Nics, NicsOf
<1>2. /\ queue = <<>> /\ running \in {Nothing, Idle}
      /\ running.action \in {"NOTHING", "NONE"} /\ running \in GoodCalls' \cup {Idle}
      /\ PollOk(<<>>, running, poll, branch)
  BY <1>1, AfterWait
<1>3. n \in Nics /\ n \in NicId
  BY <1>1 DEF ReqInv, Nics
<1>4. c \in Rpc /\ c \in GoodCalls' /\ c \in NoPolls
  <2>1. c \in Rpc
    BY <1>3, BrickTypes DEF Rpc, Brick, Bricks
  <2> QED BY <1>1, <2>1, CallFields DEF GoodCalls, GoodCall, NoPolls
<1>5. /\ queue' \in Seq(Rpc) /\ queue' \in Seq(GoodCalls')
      /\ PollOk(queue', running, poll, branch)
      /\ Len(queue') = 2 /\ queue'[1] = c /\ queue'[2] = Nothing /\ queue' # <<>>
  BY <1>1, <1>2, <1>4, WaitAgain
<1>6. links' \subseteq links /\ ports' \subseteq ports
  BY <1>1 DEF Without, Linked
<1>7. TypeOK'
  BY <1>1, <1>5, <1>6 DEF TypeOK
<1>8. ReqInv'
  BY <1>1 DEF ReqInv, Deleting
<1>9. ShapeInv'
  <2>1. \A w, e : JoinOk(w, e) => JoinOk(w, e)'
    BY <1>1 DEF JoinOk
  <2>2. \A x, b : PortOk(x, b) => PortOk(x, b)'
    BY <1>1 DEF PortOk
  <2> QED BY <1>1, <1>2, <1>5, <1>6, <2>1, <2>2 DEF ShapeInv
<1>10. BarrierInv'
  BY <1>5 DEF BarrierInv
<1>11. DestroyInv'
  <2>1. running'.action # "BRICK_DESTROY"
    BY <1>1, <1>2
  <2>2. \A i \in 1..2 : queue'[i].action = "BRICK_DESTROY" => i = 1
    BY <1>5, CallFields
  <2>3. Fw(req.nic) \in live'
    <3>1. Fw(req.nic) # Sw(v)
      BY BrickKinds DEF Bricks
    <3> QED BY <1>1, <1>3, <3>1 DEF LiveInv
  <2> QED BY <1>1, <1>5, <2>1, <2>2, <2>3 DEF DestroyInv
<1>12. PollInv'
  BY <1>1, <1>5 DEF PollInv
<1>13. LiveInv'
  <2>1. \A m : Sw(v) \notin Bricks(m)
    BY BrickKinds
  <2>2. Vtep # Sw(v)
    BY DEF Vtep, Sw
  <2>3. \A m \in NicId : {As(m), Vhost(m), Fw(m)} \subseteq Bricks(m)
    BY DEF Bricks
  <2> QED BY <1>1, <2>1, <2>2, <2>3 DEF LiveInv, Nics
<1> QED BY <1>7, <1>8, <1>9, <1>10, <1>11, <1>12, <1>13

LEMMA NicAddFailsKeeps ==
  ASSUME GraphInv, NicAddFails
  PROVE  GraphInv'
<1> USE DEF GraphInv
<1> DEFINE n == req.nic
           v == req.vni
<1>1. /\ pc = "new" /\ WaitEmptyQueue /\ pc' = "idle" /\ req' = NoRequest
      /\ live' = live \ {Fw(n)} \/ live' = (live \ {Fw(n)}) \cup {Sw(v)}
      /\ switch' = switch \/ switch' = switch \cup {v}
      /\ links' = links /\ ports' = ports /\ queue' = queue /\ branch' = branch
      /\ running' = running /\ phase' = phase /\ poll' = poll /\ Nics' = Nics
      /\ \A x : NicsOf(x)' = NicsOf(x)
  BY DEF NicAddFails, poller, Nics, NicsOf
<1>2. /\ queue = <<>> /\ running \in GoodCalls' \cup {Idle}
      /\ running.action \in {"NOTHING", "NONE"} /\ Len(queue) = 0
  BY <1>1, AfterWait
<1>3. n \in NicId \ Nics /\ v \in Vni /\ Sw(v) \in Brick
  BY <1>1 DEF ReqInv, Brick
<1>4. NoRequest \in Request
  BY DEF NoRequest, Request
<1>5. TypeOK'
  BY <1>1, <1>3, <1>4 DEF TypeOK
<1>6. ReqInv'
  BY <1>1 DEF ReqInv, Deleting
<1>7. ShapeInv'
  <2>1. \A w, e : JoinOk(w, e) => JoinOk(w, e)'
    BY <1>1 DEF JoinOk
  <2>2. \A x, b : PortOk(x, b) => PortOk(x, b)'
    BY <1>1 DEF PortOk
  <2>3. queue' \in Seq(GoodCalls')
    BY <1>1, <1>2, SeqLiterals
  <2> QED BY <1>1, <1>2, <2>1, <2>2, <2>3 DEF ShapeInv
<1>8. BarrierInv' /\ DestroyInv'
  BY <1>1, <1>2 DEF BarrierInv, DestroyInv
<1>9. PollInv'
  BY <1>1 DEF PollInv
<1>10. LiveInv'
  <2>1. \A m : Sw(v) \notin Bricks(m)
    BY BrickKinds
  <2>2. ASSUME NEW m, m # n PROVE Fw(n) \notin Bricks(m)
    BY <2>2, OwnBrick DEF Fw
  <2>3. Vtep # Fw(n)
    BY DEF Vtep, Fw
  <2>4. \A m \in NicId : /\ {As(m), Vhost(m), Fw(m)} \subseteq Bricks(m)
                         /\ Sniffers(m) \subseteq Bricks(m)
    BY DEF Bricks
  <2>5. ASSUME NEW m \in Nics
        PROVE  /\ {As(m), Vhost(m), Fw(m)} \subseteq live'
               /\ Sniffers(m) \cap live' \subseteq {branch[m].sniffer, branch[m].head}
    BY <1>1, <1>3, <2>1, <2>2, <2>4 DEF LiveInv, Nics
  <2>6. ASSUME NEW m \in NicId \ Nics PROVE Bricks(m) \cap live' \subseteq {}
    BY <1>1, <1>3, <2>1, <2>2 DEF LiveInv
  <2> QED BY <1>1, <2>3, <2>5, <2>6 DEF LiveInv
<1> QED BY <1>5, <1>6, <1>7, <1>8, <1>9, <1>10

LEMMA NicDelDoneKeeps ==
  ASSUME GraphInv, NicDelDone
  PROVE  GraphInv'
<1> USE DEF GraphInv
<1> DEFINE n == req.nic
           v == branch[n].vni
           gone == (Bricks(n) \ {Fw(n)})
                     \cup (IF NicsOf(v) = {n} THEN {Sw(v)} ELSE {})
<1>1. /\ pc = "del" /\ WaitEmptyQueue /\ branch' = [branch EXCEPT ![n] = None]
      /\ switch' \subseteq switch /\ live' = live \ gone
      /\ links' = Without(gone, links) /\ ports' = Linked(ports, links')
      /\ running' = running /\ phase' = phase /\ poll' = poll
      /\ \/ /\ req.adding /\ queue' = <<FwNew(n), Nothing>> /\ pc' = "new"
            /\ req' = req
         \/ pc' = "idle" /\ req' = NoRequest /\ queue' = queue
  BY DEF NicDelDone, poller
<1>2. /\ queue = <<>> /\ Len(queue) = 0 /\ running \in {Nothing, Idle}
      /\ running.action \in {"NOTHING", "NONE"} /\ running \in GoodCalls' \cup {Idle}
      /\ poll \in PollLists(branch) /\ PollOk(<<>>, running, poll, branch)
      /\ Fw(n) \notin live /\ \A l \in links : l[1] # Fw(n) /\ l[2] # Fw(n)
  BY <1>1, AfterWait
<1>3. n \in Nics /\ n \in NicId /\ ~ branch[n].enable
  BY <1>1 DEF ReqInv, Nics, Deleting
<1>4. /\ branch' \in [NicId -> Branch \cup {None}] /\ branch'[n] = None
      /\ \A m \in NicId : m # n => branch'[m] = branch[m]
      /\ Nics' = Nics \ {n}
  BY <1>1, <1>3 DEF TypeOK, Nics
<1>5. \A m \in Nics \ {n} : m \in Nics' /\ branch'[m] = branch[m] /\ m \in NicId
  BY <1>4 DEF Nics
<1>6. \A l \in links' : l \in links /\ l[1] \notin Bricks(n) /\ l[2] \notin Bricks(n)
  BY <1>1, <1>2 DEF Without
<1>7. \A l \in links' : JoinOk(l[1], l[2])'
  BY <1>5, <1>6 DEF ShapeInv, JoinOk
<1>8. \A p \in ports' : p \in ports /\ PortOk(p[1], p[2])'
  <2>1. \A p \in ports' : p \in ports /\ <<Vtep, p[2]>> \in links'
    BY <1>1 DEF Linked
  <2>2. \A p \in ports' : p[2] \notin Bricks(n)
    BY <1>6, <2>1
  <2> QED BY <1>5, <2>1, <2>2 DEF ShapeInv, PortOk, NicsOf
<1>9. PollLists(branch') = PollLists(branch) /\ n \notin poll /\ poll \subseteq Nics'
  <2>1. PollLists(branch') = PollLists(branch)
    BY <1>3, <1>4, PollListsFrame
  <2> QED BY <1>2, <1>3, <1>4, <2>1, PollListsEnabled DEF PollInv
<1>10. PollOk(<<>>, running, poll, branch')
  BY <1>2, <1>9 DEF PollOk
<1>11. ReqInv'
  <2>1. \A m \in Nics' : /\ branch'[m].enable /\ branch'[m].head \in Bricks(m)
                         /\ branch'[m].sniffer \in Sniffers(m) \cup {None}
    BY <1>3, <1>4, <1>5 DEF ReqInv, Deleting
  <2>2. \A m \in Nics' : ~ Deleting(m)'
    BY <1>1, <1>4 DEF Deleting
  <2>3. pc' = "new" => req'.nic \in NicId \ Nics' /\ req'.vni \in Vni
    BY <1>1, <1>3, <1>4 DEF ReqInv
  <2> QED BY <1>1, <2>1, <2>2, <2>3 DEF ReqInv
<1>12. LiveInv'
  <2>1. ASSUME NEW m, m # n PROVE Bricks(m) \cap gone = {}
    BY <2>1, OwnBrick, BrickKinds
  <2>2. Vtep \notin gone
    BY BrickKinds DEF Vtep, Sw
  <2>3. \A m \in NicId : /\ {As(m), Vhost(m), Fw(m)} \subseteq Bricks(m)
                         /\ Sniffers(m) \subseteq Bricks(m)
    BY DEF Bricks
  <2>4. Bricks(n) \cap live' = {}
    BY <1>1, <1>2
  <2> HIDE DEF gone
  <2>5. ASSUME NEW m \in Nics'
        PROVE  /\ {As(m), Vhost(m), Fw(m)} \subseteq live'
               /\ Sniffers(m) \cap live' \subseteq {branch'[m].sniffer, branch'[m].head}
    <3>1. m # n /\ m \in Nics /\ branch'[m] = branch[m] /\ m \in NicId
      BY <1>4, <1>5
    <3> QED BY <1>1, <2>1, <2>3, <3>1 DEF LiveInv
  <2>6. ASSUME NEW m \in NicId \ Nics' PROVE Bricks(m) \cap live' \subseteq {}
    <3>1. CASE m = n
      BY <2>4, <3>1
    <3>2. CASE m # n
      BY <1>1, <1>4, <3>2 DEF LiveInv
    <3> QED BY <3>1, <3>2
  <2>7. Vtep \in live'
    BY <1>1, <2>2 DEF LiveInv
  <2> QED BY <2>5, <2>6, <2>7 DEF LiveInv
<1>13. /\ queue' \in Seq(Rpc) /\ queue' \in Seq(GoodCalls')
       /\ PollOk(queue', running, poll, branch') /\ BarrierInv' /\ DestroyInv'
  <2>1. CASE queue' = <<FwNew(n), Nothing>> /\ pc' = "new" /\ req' = req
    <3>1. FwNew(n) \in Rpc
      BY <1>3 DEF Rpc
    <3>2. FwNew(n) \in GoodCalls' /\ FwNew(n) \in NoPolls
      BY <2>1, <3>1, CallFields DEF GoodCalls, GoodCall, NoPolls
    <3>3. /\ queue' \in Seq(Rpc) /\ queue' \in Seq(GoodCalls')
          /\ PollOk(queue', running, poll, branch')
          /\ Len(queue') = 2 /\ queue'[1] = FwNew(n)
          /\ queue'[2] = Nothing /\ queue' # <<>>
      BY <1>10, <2>1, <3>1, <3>2, WaitAgain
    <3>4. BarrierInv'
      BY <3>3 DEF BarrierInv
    <3>5. \A i \in 1..2 : queue'[i].action # "BRICK_DESTROY"
      BY <3>3, CallFields
    <3> QED BY <1>1, <1>2, <2>1, <3>3, <3>4, <3>5 DEF DestroyInv
  <2>2. CASE pc' = "idle" /\ queue' = queue
    BY <1>1, <1>2, <1>10, <2>2, SeqLiterals DEF BarrierInv, DestroyInv
  <2> QED BY <1>1, <2>1, <2>2
<1>14. TypeOK'
  <2>1. NoRequest \in Request
    BY DEF NoRequest, Request
  <2> QED BY <1>1, <1>4, <1>6, <1>8, <1>13, <2>1 DEF TypeOK
<1>15. ShapeInv'
  BY <1>1, <1>2, <1>7, <1>8, <1>13 DEF ShapeInv
<1>16. PollInv'
  BY <1>1, <1>9, <1>13 DEF PollInv
<1> QED BY <1>11, <1>12, <1>13, <1>14, <1>15, <1>16

(* The calls that attach a branch.                                         *)
LEMMA FirstNic ==
  ASSUME NEW v, Cardinality(NicsOf(v)) = 1
  PROVE  \E o \in NicsOf(v) : FirstHead(v) = branch[o].head
<1>1. NicsOf(v) # {}
  BY FS_EmptySet
<1>2. (CHOOSE o \in NicsOf(v) : TRUE) \in NicsOf(v)
  BY <1>1
<1> QED BY <1>2 DEF FirstHead

LEMMA AttachCases ==
  ASSUME NEW v, NEW head
  PROVE  \/ /\ NicsOf(v) = {} /\ Cardinality(NicsOf(v)) # 1
            /\ Attach(v, head) = <<Link(Vtep, head), AddVni(head, v)>>
         \/ /\ Cardinality(NicsOf(v)) = 1 /\ NicsOf(v) # {}
            /\ Attach(v, head) =
                 <<Link(Vtep, Sw(v)), AddVni(Sw(v), v), Link(Sw(v), FirstHead(v)),
                   Link(Sw(v), head)>>
         \/ /\ NicsOf(v) # {} /\ Cardinality(NicsOf(v)) # 1
            /\ Attach(v, head) = <<Link(Sw(v), head)>>
<1>1. NicsOf(v) = {} => Cardinality(NicsOf(v)) = 0
  BY FS_EmptySet
<1>2. CASE NicsOf(v) = {}
  BY <1>1, <1>2 DEF Attach
<1>3. CASE NicsOf(v) # {} /\ Cardinality(NicsOf(v)) = 1
  BY <1>3 DEF Attach
<1>4. CASE NicsOf(v) # {} /\ Cardinality(NicsOf(v)) # 1
  BY <1>4 DEF Attach
<1> QED BY <1>2, <1>3, <1>4

(* What NicAddDone makes.                                                  *)
NewSniffer == <<"sniffer", req.nic>>
NewHead == IF ~ req.bypass THEN Fw(req.nic)
           ELSE IF req.trace THEN NewSniffer ELSE Vhost(req.nic)
NewBranch == [vni |-> req.vni, head |-> NewHead,
              sniffer |-> IF req.trace THEN NewSniffer ELSE None,
              bypass |-> req.bypass, trace |-> req.trace, enable |-> TRUE]
Second(v) == Cardinality(NicsOf(v)) = 1

LEMMA NicAddEffects ==
  ASSUME GraphInv, NicAddDone
  PROVE  /\ pc = "new" /\ WaitEmptyQueue /\ Fw(req.nic) \in live
         /\ Second(req.vni) => <<Vtep, FirstHead(req.vni)>> \in links
         /\ branch' = [branch EXCEPT ![req.nic] = NewBranch]
         /\ switch' = IF Second(req.vni) THEN switch \cup {req.vni} ELSE switch
         /\ live' = live \cup ({As(req.nic), Vhost(req.nic)}
                      \cup (IF req.trace THEN {NewSniffer} ELSE {})
                      \cup (IF Second(req.vni) THEN {Sw(req.vni)} ELSE {}))
         /\ links' = InnerLinks(req.nic, NewSniffer) \cup
                       (IF Second(req.vni)
                        THEN links \ {<<Vtep, FirstHead(req.vni)>>} ELSE links)
         /\ ports' = Linked(ports, links')
         /\ \E l \in PollLists(branch') :
              queue' = (Attach(req.vni, NewHead) \o <<UpdatePoll(l)>>)
                         \o IF req.bypass THEN <<>> ELSE <<FwReload(Fw(req.nic))>>
         /\ pc' = "idle" /\ req' = NoRequest /\ running' = running
         /\ phase' = phase /\ poll' = poll
<1>1. req.bypass \in BOOLEAN /\ req.trace \in BOOLEAN
  BY DEF GraphInv, TypeOK, Request
<1>2. NewHead = CASE ~ req.bypass -> Fw(req.nic)
                  [] req.bypass /\ req.trace -> <<"sniffer", req.nic>>
                  [] req.bypass /\ ~ req.trace -> Vhost(req.nic)
  BY <1>1 DEF NewHead, NewSniffer
<1> QED BY <1>2 DEF NicAddDone, poller, NewBranch, NewSniffer, Second

LEMMA NewBranchFacts ==
  ASSUME GraphInv, NicAddDone
  PROVE  /\ req.nic \in NicId /\ req.nic \notin Nics /\ req.vni \in Vni
         /\ req.bypass \in BOOLEAN /\ req.trace \in BOOLEAN
         /\ NewSniffer \in Sniffers(req.nic)
         /\ NewHead \in Bricks(req.nic) /\ NewHead \in Brick
         /\ NewBranch \in Branch /\ NewBranch.vni = req.vni
         /\ NewBranch.head = NewHead /\ NewBranch.enable = TRUE
         /\ NewBranch.bypass = req.bypass /\ NewBranch.trace = req.trace
         /\ NewBranch.sniffer = IF req.trace THEN NewSniffer ELSE None
         /\ branch'[req.nic] = NewBranch
         /\ branch' \in [NicId -> Branch \cup {None}]
         /\ \A m \in NicId : m # req.nic => branch'[m] = branch[m]
         /\ Nics' = Nics \cup {req.nic}
<1> USE DEF GraphInv
<1>1. /\ req.nic \in NicId /\ req.nic \notin Nics /\ req.vni \in Vni
      /\ req.bypass \in BOOLEAN /\ req.trace \in BOOLEAN
  BY NicAddEffects DEF ReqInv, TypeOK, Request
<1>2. NewSniffer \in Sniffers(req.nic)
  BY DEF Sniffers, NewSniffer
<1>3. NewHead \in Bricks(req.nic) /\ NewHead \in Brick /\ NewSniffer \in Brick
  BY <1>1, <1>2, BrickTypes DEF NewHead
<1>4. NewBranch \in Branch
  BY <1>1, <1>3 DEF NewBranch, Branch
<1>5. /\ NewBranch.vni = req.vni /\ NewBranch.head = NewHead /\ NewBranch.enable = TRUE
      /\ NewBranch.bypass = req.bypass /\ NewBranch.trace = req.trace
      /\ NewBranch.sniffer = IF req.trace THEN NewSniffer ELSE None
  BY DEF NewBranch
<1>6. branch' = [branch EXCEPT ![req.nic] = NewBranch]
  BY NicAddEffects
<1>7. /\ branch'[req.nic] = NewBranch /\ branch' \in [NicId -> Branch \cup {None}]
      /\ \A m \in NicId : m # req.nic => branch'[m] = branch[m]
  BY <1>1, <1>4, <1>6 DEF TypeOK
<1>8. Nics' = Nics \cup {req.nic}
  BY <1>1, <1>4, <1>7, NullAssumption DEF Nics
<1> QED BY <1>1, <1>2, <1>3, <1>4, <1>5, <1>7, <1>8

(* The links of a new branch are its own.                                  *)
LEMMA InnerLinksOwn ==
  ASSUME NEW n, NEW s \in Sniffers(n)
  PROVE  InnerLinks(n, s) \subseteq Bricks(n) \X Bricks(n)
<1>1. {Fw(n), As(n), Vhost(n), s} \subseteq Bricks(n)
  BY DEF Bricks
<1>2. InnerLinks(n, s) \subseteq {<<s, Vhost(n)>>, <<Fw(n), As(n)>>, <<As(n), Vhost(n)>>,
                                  <<As(n), s>>}
  BY GraphAssumption DEF InnerLinks
<1> QED BY <1>1, <1>2

LEMMA NicAddDoneKeeps ==
  ASSUME GraphInv, NicAddDone
  PROVE  GraphInv'
<1> USE DEF GraphInv
<1>a. PICK n, v, s, h : n = req.nic /\ v = req.vni /\ s = NewSniffer /\ h = NewHead
  OBVIOUS
<1> DEFINE A == Attach(v, h)
           F == IF req.bypass THEN <<>> ELSE <<FwReload(Fw(n))>>
<1>1. /\ n \in NicId /\ n \notin Nics /\ v \in Vni /\ pc = "new" /\ WaitEmptyQueue
      /\ Fw(n) \in live /\ branch'[n] \in Branch /\ branch'[n].vni = v
      /\ branch'[n].enable = TRUE
      /\ branch'[n].sniffer = (IF req.trace THEN s ELSE None)
      /\ h \in Bricks(n) /\ branch'[n].sniffer \in Sniffers(n) \cup {None}
      /\ branch' \in [NicId -> Branch \cup {None}]
      /\ \A m \in NicId : m # n => branch'[m] = branch[m]
      /\ Nics' = Nics \cup {n} /\ branch'[n].head = h
  BY <1>a, NewBranchFacts, NicAddEffects
<1>0. /\ switch' = (IF Second(v) THEN switch \cup {v} ELSE switch)
      /\ live' = live \cup ({As(n), Vhost(n)} \cup (IF req.trace THEN {s} ELSE {})
                   \cup (IF Second(v) THEN {Sw(v)} ELSE {}))
      /\ links' \subseteq InnerLinks(n, s) \cup links
      /\ ports' = Linked(ports, links')
      /\ pc' = "idle" /\ req' = NoRequest /\ running' = running
      /\ phase' = phase /\ poll' = poll
  BY <1>a, NicAddEffects
<1>2. PICK l \in PollLists(branch') : queue' = (A \o <<UpdatePoll(l)>>) \o F
  BY <1>a, <1>1, NicAddEffects
<1>3. /\ queue = <<>> /\ running \in GoodCalls' \cup {Idle}
      /\ running.action \in {"NOTHING", "NONE"}
  BY <1>1, <1>0, AfterWait
<1>4. /\ s \in Sniffers(n) /\ InnerLinks(n, s) \subseteq Bricks(n) \X Bricks(n)
      /\ Bricks(n) \subseteq Brick /\ Sw(v) \in Brick /\ Vtep \in Brick
  BY <1>a, <1>1, NewBranchFacts, InnerLinksOwn, BrickTypes
<1> HIDE DEF A, F
<1>5. \A m \in Nics : m \in NicId /\ m # n /\ m \in Nics' /\ branch'[m] = branch[m]
  BY <1>1, <1>0 DEF Nics
<1>6. /\ \A w, e : JoinOk(w, e) => JoinOk(w, e)'
      /\ \A x, b : PortOk(x, b) => PortOk(x, b)'
  BY <1>5 DEF JoinOk, PortOk, NicsOf
<1>7. /\ JoinOk(Vtep, h)' /\ JoinOk(Sw(v), h)' /\ JoinOk(Vtep, Sw(v))'
      /\ PortOk(v, h)' /\ PortOk(v, Sw(v))'
      /\ \A w, e \in Bricks(n) : JoinOk(w, e)'
  <2>1. n \in Nics' /\ branch'[n].vni = v
    BY <1>1, <1>0
  <2>2. n \in NicsOf(v)'
    BY <2>1 DEF NicsOf
  <2>3. PortOk(v, h)' /\ PortOk(v, Sw(v))'
    BY <1>1, <2>2 DEF PortOk
  <2>4. /\ JoinOk(Vtep, h)' /\ JoinOk(Sw(v), h)'
        /\ \A w, e \in Bricks(n) : JoinOk(w, e)'
    BY <1>1, <2>1 DEF JoinOk
  <2>5. JoinOk(Vtep, Sw(v))'
    BY <1>1 DEF JoinOk
  <2> QED BY <2>3, <2>4, <2>5
<1>8. /\ \A x \in links' : JoinOk(x[1], x[2])' /\ x \in Brick \X Brick
      /\ \A p \in ports' : p \in ports /\ PortOk(p[1], p[2])'
  <2>1. ASSUME NEW x \in links' PROVE JoinOk(x[1], x[2])' /\ x \in Brick \X Brick
    <3>1. CASE x \in links
      BY <1>6, <3>1 DEF ShapeInv, TypeOK
    <3>2. CASE x \in InnerLinks(n, s)
      BY <1>4, <1>7, <3>2
    <3> QED BY <1>1, <1>0, <3>1, <3>2
  <2> QED BY <1>1, <1>0, <1>6, <2>1 DEF ShapeInv, Linked
<1>9. A \in Seq(GoodCalls' \cap NoPolls)
  <2> DEFINE T == GoodCalls' \cap NoPolls
  <2>1. /\ Link(Vtep, h) \in T /\ AddVni(h, v) \in T
        /\ Link(Vtep, Sw(v)) \in T /\ AddVni(Sw(v), v) \in T /\ Link(Sw(v), h) \in T
    <3>1. /\ Link(Vtep, h) \in Rpc /\ AddVni(h, v) \in Rpc
          /\ Link(Vtep, Sw(v)) \in Rpc /\ AddVni(Sw(v), v) \in Rpc
          /\ Link(Sw(v), h) \in Rpc
      BY <1>1, <1>0, <1>4 DEF Rpc
    <3>2. Link(Vtep, h) \in T
      BY <1>7, <3>1, CallFields DEF GoodCalls, GoodCall, NoPolls
    <3>3. AddVni(h, v) \in T
      BY <1>7, <3>1, CallFields DEF GoodCalls, GoodCall, NoPolls
    <3>4. Link(Vtep, Sw(v)) \in T
      BY <1>7, <3>1, CallFields DEF GoodCalls, GoodCall, NoPolls
    <3>5. AddVni(Sw(v), v) \in T
      BY <1>7, <3>1, CallFields DEF GoodCalls, GoodCall, NoPolls
    <3>6. Link(Sw(v), h) \in T
      BY <1>7, <3>1, CallFields DEF GoodCalls, GoodCall, NoPolls
    <3> QED BY <3>2, <3>3, <3>4, <3>5, <3>6
  <2>2. Cardinality(NicsOf(v)) = 1 => Link(Sw(v), FirstHead(v)) \in T
    <3> SUFFICES ASSUME Cardinality(NicsOf(v)) = 1
                 PROVE  Link(Sw(v), FirstHead(v)) \in T
      OBVIOUS
    <3>1. PICK o \in NicsOf(v) : FirstHead(v) = branch[o].head
      BY FirstNic
    <3>2. /\ o \in Nics /\ branch[o].vni = v /\ branch[o].head \in Bricks(o)
          /\ o \in NicId
      BY <1>5 DEF NicsOf, ReqInv
    <3>3. JoinOk(Sw(v), FirstHead(v)) /\ FirstHead(v) \in Brick
      BY <3>1, <3>2, BrickTypes, <1>1 DEF JoinOk
    <3>4. Link(Sw(v), FirstHead(v)) \in Rpc
      BY <1>4, <3>3 DEF Rpc
    <3> QED BY <1>6, <3>3, <3>4, CallFields DEF GoodCalls, GoodCall, NoPolls
  <2> HIDE DEF T
  <2>3. A \in Seq(T)
    BY <2>1, <2>2, AttachCases, SeqLiterals DEF A
  <2> QED BY <2>3 DEF T
<1>10. /\ l \in SUBSET NicId /\ l \subseteq Nics'
       /\ UpdatePoll(l) \in GoodCalls' /\ UpdatePoll(l) \in Rpc
  <2>1. l \in SUBSET NicId /\ l \subseteq Nics'
    BY PollListsEnabled DEF Nics
  <2>2. UpdatePoll(l) \in Rpc
    BY <2>1 DEF Rpc
  <2> QED BY <2>1, <2>2, CallFields DEF GoodCalls, GoodCall
<1>11. F \in Seq(GoodCalls' \cap NoPolls)
  <2>1. FwReload(Fw(n)) \in Rpc
    BY <1>4 DEF Rpc, Bricks
  <2>2. FwReload(Fw(n)) \in GoodCalls' \cap NoPolls
    BY <2>1, CallFields DEF GoodCalls, GoodCall, NoPolls
  <2> QED BY <2>2, SeqLiterals DEF F
<1> DEFINE q1 == A \o <<UpdatePoll(l)>>
<1>12. /\ A \in Seq(GoodCalls') /\ F \in Seq(GoodCalls') /\ F \in Seq(NoPolls)
       /\ A \in Seq(Rpc) /\ q1 \in Seq(GoodCalls') /\ q1 \in Seq(Rpc)
       /\ queue' \in Seq(GoodCalls') /\ queue' \in Seq(Rpc)
  <2>1. /\ A \in Seq(GoodCalls') /\ F \in Seq(GoodCalls') /\ F \in Seq(NoPolls)
    BY <1>9, <1>11, SeqMonotone
  <2>2. <<UpdatePoll(l)>> \in Seq(GoodCalls')
    BY <1>10, SeqLiterals
  <2>3. q1 \in Seq(GoodCalls') /\ queue' \in Seq(GoodCalls')
    BY <1>2, <2>1, <2>2, SeqJoin
  <2>4. GoodCalls' \subseteq Rpc
    BY DEF GoodCalls
  <2> HIDE DEF q1
  <2> QED BY <2>1, <2>3, <2>4, SeqMonotone
<1>13. TypeOK'
  <2>1. NoRequest \in Request
    BY DEF NoRequest, Request
  <2>2. live' \subseteq Brick
    BY <1>1, <1>0, <1>4 DEF TypeOK, Bricks
  <2>3. links' \subseteq Brick \X Brick /\ ports' \subseteq Vni \X Brick
    BY <1>8 DEF TypeOK
  <2> QED BY <1>1, <1>0, <1>12, <2>1, <2>2, <2>3 DEF TypeOK
<1>14. ReqInv'
  <2>1. ASSUME NEW m \in Nics'
        PROVE  /\ branch'[m].enable /\ branch'[m].head \in Bricks(m)
               /\ branch'[m].sniffer \in Sniffers(m) \cup {None}
    <3>1. CASE m = n
      BY <1>1, <1>0, <3>1
    <3>2. CASE m # n
      BY <1>1, <1>0, <1>5, <3>2 DEF ReqInv, Deleting
    <3> QED BY <3>1, <3>2
  <2> QED BY <1>1, <1>0, <2>1 DEF ReqInv, Deleting
<1>15. ShapeInv'
  BY <1>1, <1>0, <1>3, <1>8, <1>12 DEF ShapeInv
<1>16. BarrierInv' /\ DestroyInv'
  <2>1. running'.action # "BRICK_DESTROY"
    BY <1>1, <1>0, <1>3
  <2>2. GoodCalls' \subseteq NoDestroys
    BY <1>1, <1>0 DEF GoodCalls, GoodCall, NoDestroys
  <2>3. queue' \in Seq(NoDestroys)
    BY <1>12, <2>2, SeqMonotone
  <2> QED BY <1>1, <1>0, <2>1, <2>3, NoDestroyInv DEF BarrierInv
<1>17. PollInv'
  <2>1. q1 = Append(A, UpdatePoll(l))
    BY <1>12
  <2>2. PollOk(q1, running, poll, branch')
    BY <1>10, <1>12, <2>1, PollPush
  <2> HIDE DEF q1
  <2>3. PollOk(q1 \o F, running, poll, branch')
    BY <1>12, <2>2, PollPushOther
  <2> QED BY <1>1, <1>0, <1>2, <2>3 DEF PollInv, q1
<1>18. LiveInv'
  <2>1. ASSUME NEW m \in NicId, m # n
        PROVE  Bricks(m) \cap live' = Bricks(m) \cap live
    <3>1. Bricks(m) \cap Bricks(n) = {} /\ Sw(v) \notin Bricks(m)
      BY <2>1, OwnBrick, BrickKinds
    <3>2. live' \subseteq live \cup Bricks(n) \cup {Sw(v)} /\ live \subseteq live'
      BY <1>1, <1>0, <1>4 DEF Bricks
    <3> QED BY <3>1, <3>2
  <2>2. \A m \in NicId : /\ {As(m), Vhost(m), Fw(m)} \subseteq Bricks(m)
                         /\ Sniffers(m) \subseteq Bricks(m)
    BY DEF Bricks
  <2>3. ASSUME NEW m \in Nics, m # n
        PROVE  /\ {As(m), Vhost(m), Fw(m)} \subseteq live'
               /\ Sniffers(m) \cap live' \subseteq {branch'[m].sniffer, branch'[m].head}
    BY <1>1, <1>0, <1>5, <2>1, <2>2, <2>3 DEF LiveInv
  <2>4. {As(n), Vhost(n), Fw(n)} \subseteq live'
    BY <1>1, <1>0, <1>0
  <2>5. Sniffers(n) \cap live' \subseteq {branch'[n].sniffer, branch'[n].head}
    <3>1. /\ Sniffers(n) \cap {Fw(n), As(n), Vhost(n)} = {}
          /\ Sw(v) \notin Sniffers(n)
      BY NicBricksDiffer DEF Sw, Sniffers
    <3>2. Sniffers(n) \cap live = {}
      BY <1>1, <1>0, <2>2, <3>1 DEF LiveInv
    <3> QED BY <1>1, <1>0, <3>1, <3>2
  <2>6. ASSUME NEW m \in NicId \ Nics' PROVE Bricks(m) \cap live' \subseteq {}
    BY <1>a, <1>1, <2>1, <2>6 DEF LiveInv
  <2>7. Vtep \in live'
    BY <1>1, <1>0 DEF LiveInv
  <2> QED BY <1>1, <1>0, <2>3, <2>4, <2>5, <2>6, <2>7 DEF LiveInv
<1> QED BY <1>13, <1>14, <1>15, <1>16, <1>17, <1>18

-----------------------------------------------------------------------------
(* The invariant holds.                                                    *)

LEMMA GraphInit ==
  ASSUME Init
  PROVE  GraphInv
<1> USE DEF Init
<1>1. Nics = {} /\ queue \in Seq(GoodCalls) /\ queue \in Seq(Rpc) /\ Len(queue) = 0
  BY DEF Nics
<1>2. TypeOK
  BY <1>1 DEF TypeOK, Brick, NoRequest, Request
<1>3. ReqInv
  BY <1>1 DEF ReqInv
<1>4. ShapeInv
  BY <1>1 DEF ShapeInv
<1>5. BarrierInv /\ DestroyInv
  BY <1>1, CallFields DEF BarrierInv, DestroyInv
<1>6. PollInv
  <2>1. PollsIn(queue) = {}
    BY <1>1 DEF PollsIn
  <2>2. \A n \in NicId : ~ (branch[n] # None /\ branch[n].enable)
    OBVIOUS
  <2>3. {n \in NicId : branch[n] # None /\ branch[n].enable} = {}
    BY <2>2
  <2>4. {} \in PollLists(branch)
    BY <2>3, FS_EmptySet, GraphAssumption DEF PollLists
  <2> QED BY <1>1, <2>1, <2>4, CallFields DEF PollInv, PollOk
<1>7. LiveInv
  <2>1. \A n \in NicId : Bricks(n) \cap live = {}
    BY BrickKinds
  <2> QED BY <1>1, <2>1 DEF LiveInv
<1> QED BY <1>2, <1>3, <1>4, <1>5, <1>6, <1>7 DEF GraphInv

(* The invariant mentions neither phase nor anything that changes with it. *)
LEMMA PhaseKeeps ==
  ASSUME GraphInv, phase' \in {"poll", "update"},
         UNCHANGED <<branch, switch, live, links, ports, poll, queue, running, pc, req>>
  PROVE  GraphInv'
<1> USE DEF GraphInv
<1>1. /\ Nics' = Nics /\ GoodCalls' = GoodCalls /\ ReqInv'
      /\ (\A w, e : JoinOk(w, e)' <=> JoinOk(w, e))
      /\ (\A v, b : PortOk(v, b)' <=> PortOk(v, b))
  BY PollerFrame
<1>2. TypeOK'
  BY DEF TypeOK
<1>3. ShapeInv'
  BY <1>1 DEF ShapeInv
<1>4. BarrierInv' /\ DestroyInv'
  BY DEF BarrierInv, DestroyInv
<1>5. PollInv' /\ LiveInv'
  BY <1>1 DEF PollInv, LiveInv
<1> QED BY <1>1, <1>2, <1>3, <1>4, <1>5

(* The requests of NicAdd and NicDel.                                      *)
LEMMA RequestTypes ==
  ASSUME NEW n \in NicId, NEW v \in Vni, NEW b \in BypassModes, NEW t \in TraceModes
  PROVE  /\ [NoRequest EXCEPT !.nic = n] \in Request
         /\ [NoRequest EXCEPT !.nic = n].nic = n
         /\ ~ [NoRequest EXCEPT !.nic = n].adding
         /\ [nic |-> n, adding |-> TRUE, vni |-> v, bypass |-> b, trace |-> t]
              \in Request
BY GraphAssumption DEF NoRequest, Request

LEMMA DelRequest ==
  ASSUME NEW n \in NicId
  PROVE  /\ [NoRequest EXCEPT !.nic = n] \in Request
         /\ [NoRequest EXCEPT !.nic = n].nic = n
         /\ ~ [NoRequest EXCEPT !.nic = n].adding
BY DEF NoRequest, Request

LEMMA GraphStep ==
  ASSUME GraphInv, [Next]_vars
  PROVE  GraphInv'
<1>1. ASSUME NEW n \in NicId, ActionNicDel(n) PROVE GraphInv'
  BY <1>1, DelRequest, NicDelKeeps DEF ActionNicDel
<1>2. ASSUME NEW n \in NicId, NEW v \in Vni, NEW b \in BypassModes, NEW t \in TraceModes,
             ActionNicAdd(n, v, b, t)
      PROVE  GraphInv'
  <2>1. PICK next : next = [nic |-> n, adding |-> TRUE, vni |-> v, bypass |-> b,
                            trace |-> t]
    OBVIOUS
  <2>2. next \in Request /\ next.nic = n /\ next.vni = v
    BY <2>1, RequestTypes
  <2>3. /\ Ready
        /\ \/ NicDel(n, next)
           \/ /\ n \notin Nics
              /\ queue' = queue \o <<FwNew(n), Nothing>>
              /\ pc' = "new" /\ req' = next
              /\ UNCHANGED <<branch, switch, live, links, ports, poller>>
    BY <1>2, <2>1 DEF ActionNicAdd
  <2>4. CASE NicDel(n, next)
    BY <2>2, <2>3, <2>4, NicDelKeeps
  <2>5. CASE ~ NicDel(n, next)
    BY <2>2, <2>3, <2>5, NicAddStartKeeps
  <2> QED BY <2>4, <2>5
<1>3. ASSUME NEW n \in NicId, NEW t \in BOOLEAN \cup {None}, NEW p, NEW fw, NEW ok,
             NEW l \in PollLists(branch), ActionNicUpdate(n, t, p, fw, ok, l)
      PROVE  GraphInv'
  <2>1. PICK e, s : /\ n \in Nics /\ Ready /\ s \in {<<>>, <<FwReload(Fw(n))>>}
                    /\ EditOk(e, {}) /\ e.n = n /\ UpdateStep(n, e, s)
    BY <1>3, UpdateOk DEF GraphInv
  <2> QED BY <2>1, UpdateKeeps
<1>4. CASE ApiRequest
  BY <1>1, <1>2, <1>3, <1>4, SgRequestKeeps DEF ApiRequest
<1>5. CASE ApiStep
  BY <1>5, NicDelSwitchKeeps, NicDelDoneKeeps, NicAddDoneKeeps, NicAddFailsKeeps
     DEF ApiStep
<1>6. CASE PollerUpdateBegin \/ PollerUpdateEnd
  BY <1>6, PhaseKeeps DEF PollerUpdateBegin, PollerUpdateEnd, api
<1>7. CASE PollerPop
  BY <1>7, PopKeeps
<1>8. CASE PollerExecute
  BY <1>8, ExecuteKeeps
<1>9. CASE UNCHANGED vars
  BY <1>9, PhaseKeeps DEF vars, GraphInv, TypeOK
<1> QED BY <1>4, <1>5, <1>6, <1>7, <1>8, <1>9 DEF Next, PollerStep, PollerExecute

(* GraphInv holds in every state, whatever the NICs, networks, updates,    *)
(* failures and bounds: what NicAdd, NicDel, NicConfigPacketTrace and the  *)
(* poller (graph.cc) keep true of each other.                              *)
THEOREM GraphInvariant == Spec => []GraphInv
<1>1. Init => GraphInv
  BY GraphInit
<1>2. GraphInv /\ [Next]_vars => GraphInv'
  BY GraphStep
<1> QED BY <1>1, <1>2, PTL DEF Spec

(* Type correctness of the graph, its queue and the request in progress.   *)
THEOREM GraphTypes == Spec => []TypeOK
<1>1. GraphInv => TypeOK
  BY DEF GraphInv
<1> QED BY <1>1, GraphInvariant, PTL

(* Graph::Poller never polls the vhost, nor collects the garbage of the    *)
(* firewall, of a NIC whose bricks NicDel has destroyed: the NIC leaves    *)
(* the poll list before its BRICK_DESTROY is executed.                     *)
THEOREM GraphPolledLive == Spec => []PolledBricksLive
<1>1. ASSUME GraphInv PROVE PolledBricksLive
  <2> USE <1>1 DEF GraphInv
  <2> SUFFICES ASSUME NEW n \in poll PROVE {Vhost(n), Fw(n)} \subseteq live
    BY DEF PolledBricksLive
  <2>1. n \in Nics /\ Vhost(n) \in live
    BY DEF PollInv, LiveInv
  <2>2. ASSUME Fw(n) \notin live PROVE FALSE
    <3>1. pc = "del" /\ req.nic = n
      BY <2>1, <2>2 DEF LiveInv
    <3>2. Len(queue) <= 1 /\ running \in {Nothing, Idle}
      BY <2>2, <3>1 DEF DestroyInv
    <3>3. queue = <<>> \/ (Len(queue) = 1 /\ queue[1] = Nothing)
      <4>1. queue \in Seq(Rpc)
        BY DEF TypeOK
      <4>2. PICK k \in Nat : k = Len(queue)
        BY <4>1
      <4>3. k = 0 \/ k = 1
        BY <3>2, <4>2
      <4> QED BY <3>1, <4>1, <4>2, <4>3, EmptySeq DEF BarrierInv
    <3>4. PollsIn(queue) = {} /\ running.action # "UPDATE_POLL"
      BY <3>2, <3>3, CallFields DEF PollsIn
    <3>5. poll \in PollLists(branch)
      BY <3>4 DEF PollInv, PollOk
    <3>6. branch[n].enable
      BY <3>5, PollListsEnabled
    <3> QED BY <2>1, <3>1, <3>6 DEF ReqInv, Deleting
  <2> QED BY <2>1, <2>2
<1> QED BY <1>1, GraphInvariant, PTL

(* When nothing is in progress the poller polls every NIC, up to the       *)
(* GRAPH_VHOST_MAX_SIZE - 1 that update_poll puts in its list.             *)
THEOREM GraphPollList == Spec => []PollListComplete
<1>1. ASSUME GraphInv PROVE PollListComplete
  <2> USE <1>1 DEF GraphInv
  <2> SUFFICES ASSUME Quiescent
               PROVE  poll \subseteq Nics
                        /\ (poll = Nics \/ Cardinality(poll) = VhostMax - 1)
    BY DEF PollListComplete
  <2>1. queue = <<>> /\ PollsIn(queue) = {} /\ running.action # "UPDATE_POLL"
    BY CallFields DEF Quiescent, PollsIn
  <2>2. poll \in PollLists(branch) /\ poll \subseteq Nics
    BY <2>1 DEF PollInv, PollOk
  <2>3. {n \in NicId : branch[n] # None /\ branch[n].enable} = Nics
    BY DEF Quiescent, ReqInv, Deleting, Nics
  <2> QED BY <2>2, <2>3 DEF PollLists
<1> QED BY <1>1, GraphInvariant, PTL

(* Networks stay apart at all times: no link joins the branches of two     *)
(* VNIs but through the vtep, and pg_vtep_add_vni never gives a VNI to a   *)
(* brick of another.                                                       *)
THEOREM GraphVniIsolation == Spec => []VniIsolation
<1>1. ASSUME GraphInv PROVE VniIsolation
  <2> USE <1>1 DEF GraphInv
  <2>1. ASSUME NEW n \in Nics, NEW b \in Bricks(n) PROVE VniOf(b) = branch[n].vni
    <3>1. b[1] # "switch" /\ b[2] = n
      BY OwnBrick
    <3> QED BY <3>1 DEF VniOf, Nics
  <2>2. \A v : VniOf(Sw(v)) = v
    BY DEF VniOf, Sw
  <2>3. ASSUME NEW l \in links, l[1] # Vtep PROVE VniOf(l[1]) = VniOf(l[2])
    <3>1. PICK n \in Nics : l[2] \in Bricks(n) /\ l[1] \in Bricks(n) \cup {Sw(branch[n].vni)}
      BY <2>3 DEF ShapeInv, JoinOk
    <3> QED BY <2>1, <2>2, <3>1
  <2>4. ASSUME NEW p \in ports PROVE VniOf(p[2]) = p[1]
    BY <2>1, <2>2 DEF ShapeInv, PortOk, NicsOf
  <2> QED BY <2>3, <2>4 DEF VniIsolation
<1> QED BY <1>1, GraphInvariant, PTL
=============================================================================
