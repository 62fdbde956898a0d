------------------------ MODULE BrickGraphCallProofs ------------------------
(***************************************************************************)
(* Proofs about BrickGraph when no client changes the trace file of a NIC: *)
(* the calls in the queue then only meet bricks that exist, and packets    *)
(* have no way around the firewall of a NIC.  When no client changes a     *)
(* trace at all, the calls lead to a graph in which every NIC is           *)
(* connected, and what the API thread destroys is linked to nothing else.  *)
(***************************************************************************)
EXTENDS BrickGraphProofs

(* ActionNicUpdate never calls NicConfigPacketTracePath.                   *)
SameTraceFiles == "packet_trace_path" \notin Updates

-----------------------------------------------------------------------------
(* The invariant.                                                          *)

(* A sniffer belongs to its NIC for good.                                  *)
SnifferInv ==
  \A n \in Nics :
    /\ branch[n].head \in Sniffers(n) => branch[n].head = branch[n].sniffer
    /\ branch[n].sniffer # None => branch[n].sniffer \in live
    /\ Sniffers(n) \cap live \subseteq {branch[n].sniffer}

(* A VNI of two NICs that stay has a switch.                               *)
SwitchInv ==
  /\ IsFiniteSet(Nics)
  /\ \A v \in switch : Sw(v) \in live
  /\ \A n, m \in Nics :
       (n # m /\ branch[n].vni = branch[m].vni
          /\ ~ (pc = "del" /\ req.nic \in {n, m}))
         => branch[n].vni \in switch
  /\ pc = "del_switch" => /\ branch[req.nic].vni \in switch
                          /\ \A n, m \in Others(req.nic) : n = m

(* No call or link is left with a brick that is gone.                      *)
CallsWithin(L) == {c \in Rpc : \A k \in DOMAIN c.args : c.args[k] \in L}
CallsInv ==
  /\ queue \in Seq(CallsWithin(live))
  /\ running \in CallsWithin(live) \cup {Idle}
  /\ links \subseteq live \X live

BrickInv == SnifferInv /\ SwitchInv /\ CallsInv

-----------------------------------------------------------------------------
(* Sets, and the bricks of calls.                                          *)

LEMMA TwoMembers ==
  ASSUME NEW S, IsFiniteSet(S), S # {}, Cardinality(S) # 1
  PROVE  \E a, b \in S : a # b
<1>1. PICK a : a \in S
  OBVIOUS
<1>2. S # {a}
  BY FS_Singleton
<1> QED BY <1>1, <1>2

LEMMA OneMember ==
  ASSUME NEW S, IsFiniteSet(S), Cardinality(S) = 1
  PROVE  \A a, b \in S : a = b
<1>1. PICK x : S = {x}
  BY FS_Singleton
<1> QED BY <1>1

LEMMA LastCall ==
  ASSUME NEW q \in Seq(Rpc), Len(q) = 1
  PROVE  q # <<>> /\ q = <<q[1]>> /\ q[Len(q)] = q[1]
OBVIOUS

LEMMA WithinMonotone ==
  ASSUME NEW L, NEW M, L \subseteq M
  PROVE  CallsWithin(L) \subseteq CallsWithin(M)
BY DEF CallsWithin

LEMMA WithinTypes ==
  ASSUME NEW L, L \subseteq Brick, NEW w \in L, NEW e \in L, NEW v \in Vni
  PROVE  /\ Link(w, e) \in CallsWithin(L) /\ Unlink(w) \in CallsWithin(L)
         /\ UnlinkEdge(w, e) \in CallsWithin(L) /\ FwReload(w) \in CallsWithin(L)
         /\ BrickDestroy(w) \in CallsWithin(L)
         /\ Vtep \in L => AddVni(e, v) \in CallsWithin(L)
<1>1. w \in Brick /\ e \in Brick
  OBVIOUS
<1>2. /\ Link(w, e) \in Rpc /\ Unlink(w) \in Rpc /\ UnlinkEdge(w, e) \in Rpc
      /\ AddVni(e, v) \in Rpc /\ FwReload(w) \in Rpc /\ BrickDestroy(w) \in Rpc
  BY <1>1 DEF Rpc
<1>3. /\ Link(w, e).args = <<w, e>> /\ Unlink(w).args = <<w>>
      /\ UnlinkEdge(w, e).args = <<w, e>> /\ FwReload(w).args = <<w>>
      /\ BrickDestroy(w).args = <<w>> /\ AddVni(e, v).args = <<Vtep, e>>
  BY DEF Link, Unlink, UnlinkEdge, FwReload, BrickDestroy, AddVni
<1>4. /\ \A k \in DOMAIN <<w>> : <<w>>[k] \in L
      /\ \A k \in DOMAIN <<w, e>> : <<w, e>>[k] \in L
      /\ Vtep \in L => \A k \in DOMAIN <<Vtep, e>> : <<Vtep, e>>[k] \in L
  OBVIOUS
<1> QED BY <1>2, <1>3, <1>4 DEF CallsWithin

LEMMA WithinNoBrick ==
  ASSUME NEW L, NEW n \in NicId, NEW s \in SUBSET NicId
  PROVE  /\ FwNew(n) \in CallsWithin(L) /\ UpdatePoll(s) \in CallsWithin(L)
         /\ Nothing \in CallsWithin(L)
<1>1. FwNew(n) \in Rpc /\ UpdatePoll(s) \in Rpc /\ Nothing \in Rpc
  BY DEF Rpc
<1>2. FwNew(n).args = <<>> /\ UpdatePoll(s).args = <<>> /\ Nothing.args = <<>>
  BY DEF FwNew, UpdatePoll, Nothing
<1>3. DOMAIN <<>> = {}
  OBVIOUS
<1> QED BY <1>1, <1>2, <1>3 DEF CallsWithin

(* The bricks of a NIC that is not being deleted.                          *)
LEMMA NicLive ==
  ASSUME GraphInv, SnifferInv, NEW n \in Nics, ~ (pc = "del" /\ req.nic = n)
  PROVE  /\ {Fw(n), As(n), Vhost(n), branch[n].head, Vtep} \subseteq live
         /\ branch[n].vni \in Vni /\ n \in NicId /\ branch[n] \in Branch
         /\ branch[n].head \in Brick
<1> USE DEF GraphInv
<1>1. n \in NicId /\ branch[n] \in Branch
  BY DEF Nics, TypeOK
<1>2. branch[n].vni \in Vni /\ branch[n].head \in Brick
  BY <1>1 DEF Branch
<1>3. {Fw(n), As(n), Vhost(n), Vtep} \subseteq live
  BY DEF LiveInv
<1>4. branch[n].head \in live
  <2>1. branch[n].head \in {Fw(n), As(n), Vhost(n)} \cup Sniffers(n)
    BY DEF ReqInv, Bricks
  <2>2. CASE branch[n].head \in Sniffers(n)
    <3>1. None \notin Sniffers(n)
      BY <1>1, NullAssumption DEF Brick, Bricks
    <3> QED BY <2>2, <3>1 DEF SnifferInv
  <2> QED BY <1>3, <2>1, <2>2
<1> QED BY <1>1, <1>2, <1>3, <1>4

LEMMA FiniteNics ==
  ASSUME SwitchInv
  PROVE  /\ \A v : IsFiniteSet(NicsOf(v))
         /\ \A n : IsFiniteSet(Others(n))
<1>1. IsFiniteSet(Nics)
  BY DEF SwitchInv
<1>2. \A v : NicsOf(v) \in SUBSET Nics
  BY DEF NicsOf
<1>3. \A n : Others(n) \in SUBSET Nics
  BY DEF NicsOf, Others
<1> QED BY <1>1, <1>2, <1>3, FS_Subset

-----------------------------------------------------------------------------
(* The poller keeps BrickInv.                                              *)

LEMMA PopBricks ==
  ASSUME GraphInv, BrickInv, PollerPop
  PROVE  BrickInv'
<1>1. /\ running = Idle /\ queue # <<>>
      /\ running' = Head(queue) /\ queue' = Tail(queue)
      /\ branch' = branch /\ switch' = switch /\ live' = live /\ links' = links
      /\ pc' = pc /\ req' = req /\ Nics' = Nics
  BY DEF PollerPop, api, Nics
<1>2. queue \in Seq(CallsWithin(live))
  BY DEF BrickInv, CallsInv
<1>3. Head(queue) \in CallsWithin(live) /\ Tail(queue) \in Seq(CallsWithin(live))
  BY <1>1, <1>2
<1>4. SnifferInv' /\ SwitchInv'
  BY <1>1 DEF BrickInv, SnifferInv, SwitchInv, Others, NicsOf
<1> QED BY <1>1, <1>3, <1>4 DEF BrickInv, CallsInv

LEMMA ExecuteBricks ==
  ASSUME GraphInv, BrickInv, PollerExecute
  PROVE  BrickInv'
<1> USE ExecutedFrame DEF GraphInv, BrickInv
<1>1. /\ running \in Rpc /\ Executed /\ running # Idle
      /\ running' = Idle /\ queue' = queue /\ branch' = branch
      /\ switch' = switch /\ pc' = pc /\ req' = req /\ Nics' = Nics
  <2>1. Idle \notin Rpc
    BY CallCases, CallFields
  <2> QED BY <2>1, ExecuteCases DEF Nics
<1>2. running \in CallsWithin(live) /\ GoodCall(running)
  BY <1>1 DEF CallsInv, ShapeInv, GoodCalls
<1>3. CASE running.action = "BRICK_DESTROY"
  <2>1. pc = "del" /\ running.args[1] = Fw(req.nic) /\ Len(queue) = 1
    BY <1>2, <1>3 DEF GoodCall, DestroyInv
  <2>2. /\ live' = live \ {Fw(req.nic)} /\ links' = Without({Fw(req.nic)}, links)
    BY <1>3, <2>1, ExecuteCases
  <2>3. queue \in Seq(CallsWithin(live'))
    <3>1. queue # <<>> /\ queue[1] = Nothing
      BY <2>1, LastCall DEF BarrierInv, TypeOK
    <3>2. queue = <<Nothing>>
      BY <2>1, <3>1, LastCall DEF TypeOK
    <3>3. Nothing \in CallsWithin(live')
      <4>1. req.nic \in NicId
        BY <2>1 DEF ReqInv, Nics
      <4> QED BY <4>1, WithinNoBrick
    <3> QED BY <3>2, <3>3, SeqLiterals
  <2>4. links' \subseteq live' \X live'
    BY <2>2 DEF Without, CallsInv
  <2>5. SnifferInv'
    <3>1. \A n : Fw(req.nic) \notin Sniffers(n)
      BY DEF Fw, Sniffers
    <3>2. \A n \in Nics : branch[n].sniffer \in Sniffers(n) \cup {None}
      BY DEF ReqInv
    <3> QED BY <1>1, <2>2, <3>1, <3>2 DEF SnifferInv
  <2>6. SwitchInv'
    <3>1. \A v : Sw(v) # Fw(req.nic)
      BY DEF Sw, Fw
    <3> QED BY <1>1, <2>2, <3>1 DEF SwitchInv, Others, NicsOf
  <2> QED BY <1>1, <2>3, <2>4, <2>5, <2>6 DEF CallsInv
<1>4. CASE running.action # "BRICK_DESTROY"
  <2>1. live' = live \/ live' = live \cup {Fw(running.nic)}
    BY <1>4, ExecuteCases
  <2>2. queue \in Seq(CallsWithin(live'))
    BY <2>1, WithinMonotone, SeqMonotone DEF CallsInv
  <2>3. links' \subseteq live \X live
    <3>1. CASE running.action = "LINK"
      <4>1. running.args = <<running.args[1], running.args[2]>>
        BY <1>1, <3>1, CallCases DEF Link
      <4>2. 1 \in DOMAIN running.args /\ 2 \in DOMAIN running.args
        BY <4>1
      <4>3. running.args[1] \in live /\ running.args[2] \in live
        BY <1>2, <4>2 DEF CallsWithin
      <4> QED BY <3>1, <4>3, ExecuteCases DEF BrickLink, CallsInv
    <3>2. CASE running.action # "LINK"
      BY <3>2, ExecuteCases DEF Without, CallsInv
    <3> QED BY <3>1, <3>2
  <2>4. SnifferInv'
    <3>1. \A n, m : Fw(m) \notin Sniffers(n)
      BY DEF Fw, Sniffers
    <3> QED BY <1>1, <2>1, <3>1 DEF SnifferInv
  <2>5. SwitchInv'
    BY <1>1, <2>1 DEF SwitchInv, Others, NicsOf
  <2> QED BY <1>1, <2>1, <2>2, <2>3, <2>4, <2>5 DEF CallsInv
<1> QED BY <1>3, <1>4

-----------------------------------------------------------------------------
(* The API thread keeps BrickInv.                                          *)

LEMMA NicDelBricks ==
  ASSUME GraphInv, BrickInv, Ready, NEW n, NEW next, NicDel(n, next), next.nic = n
  PROVE  BrickInv'
<1> USE DEF BrickInv
<1> DEFINE D == Detach(n)
           W == CallsWithin(live)
<1>1. /\ n \in Nics /\ n \in NicId /\ pc = "idle" /\ req' = next
      /\ branch' = [branch EXCEPT ![n].enable = FALSE]
      /\ pc' = IF Cardinality(Others(n)) = 1 THEN "del_switch" ELSE "del"
      /\ switch' = switch /\ live' = live /\ links' = links
      /\ running' = running
  BY DEF NicDel, Ready, poller, Nics
<1>2. PICK s \in PollLists([branch EXCEPT ![n].enable = FALSE]) :
        queue' = ((queue \o <<UpdatePoll(s)>>) \o D) \o <<Nothing>>
  BY DEF NicDel
<1>3. /\ branch'[n].vni = branch[n].vni /\ branch'[n].head = branch[n].head
      /\ branch'[n].sniffer = branch[n].sniffer
      /\ (\A m \in NicId : m # n => branch'[m] = branch[m])
      /\ Nics' = Nics
  BY <1>1, DisabledBranch DEF GraphInv
<1>4. \A v : NicsOf(v)' = NicsOf(v)
  BY <1>3 DEF NicsOf, Nics
<1>5. UpdatePoll(s) \in W /\ Nothing \in W
  BY <1>1, <1>2, PollListsEnabled, WithinNoBrick
<1>6. \A m \in Nics : /\ {Fw(m), branch[m].head, Vtep} \subseteq live
                      /\ branch[m].vni \in Vni
  BY <1>1, NicLive
<1>7. live \subseteq Brick
  BY DEF GraphInv, TypeOK
<1>8. D \in Seq(W)
  <2>1. CASE Cardinality(Others(n)) = 1
    <3>1. PICK o \in Nics :
            /\ o # n /\ branch[o].vni = branch[n].vni
            /\ D = <<Unlink(Sw(branch[n].vni)), Link(Vtep, branch[o].head),
                     AddVni(branch[o].head, branch[n].vni)>>
      BY <1>1, <2>1, DetachCalls
    <3>2. Sw(branch[n].vni) \in live
      BY <1>1, <3>1 DEF SwitchInv
    <3>3. /\ Unlink(Sw(branch[n].vni)) \in W /\ Link(Vtep, branch[o].head) \in W
          /\ AddVni(branch[o].head, branch[n].vni) \in W
      BY <1>1, <1>6, <1>7, <3>2, WithinTypes
    <3> HIDE DEF W
    <3> QED BY <3>1, <3>3, SeqLiterals
  <2>2. CASE Cardinality(Others(n)) # 1
    <3>1. D = <<Unlink(branch[n].head), BrickDestroy(Fw(n))>>
      BY <1>1, <2>2, DetachCalls
    <3>2. Unlink(branch[n].head) \in W /\ BrickDestroy(Fw(n)) \in W
      BY <1>1, <1>6, <1>7, WithinTypes
    <3> HIDE DEF W
    <3> QED BY <3>1, <3>2, SeqLiterals
  <2> QED BY <2>1, <2>2
<1>9. queue' \in Seq(W)
  <2>1. queue \in Seq(W)
    BY DEF CallsInv
  <2> HIDE DEF W, D
  <2>2. <<UpdatePoll(s)>> \in Seq(W) /\ <<Nothing>> \in Seq(W)
    BY <1>5, SeqLiterals
  <2>3. queue \o <<UpdatePoll(s)>> \in Seq(W)
    BY <2>1, <2>2, SeqJoin
  <2>4. (queue \o <<UpdatePoll(s)>>) \o D \in Seq(W)
    BY <1>8, <2>3, SeqJoin
  <2> QED BY <1>2, <2>2, <2>4, SeqJoin
<1>10. CallsInv'
  BY <1>1, <1>9 DEF CallsInv
<1>11. SnifferInv'
  BY <1>1, <1>3 DEF SnifferInv, Nics
<1>12. SwitchInv'
  <2>1. \A m \in Nics : branch'[m].vni = branch[m].vni
    BY <1>3 DEF Nics
  <2>2. ASSUME pc' = "del_switch"
        PROVE  /\ branch[n].vni \in switch
               /\ \A a, b \in Others(n) : a = b
    <3>1. Cardinality(Others(n)) = 1
      BY <1>1, <2>2
    <3>2. \A a, b \in Others(n) : a = b
      BY <3>1, FiniteNics, OneMember
    <3>3. \E o \in Nics : o # n /\ branch[o].vni = branch[n].vni
      BY <1>1, <3>1, OtherNic
    <3> QED BY <1>1, <3>2, <3>3 DEF SwitchInv
  <2>3. Others(n)' = Others(n)
    BY <1>3, <1>4 DEF Others
  <2> QED BY <1>1, <1>3, <2>1, <2>2, <2>3 DEF SwitchInv
<1> QED BY <1>10, <1>11, <1>12

LEMMA NicDelSwitchBricks ==
  ASSUME GraphInv, BrickInv, NicDelSwitch
  PROVE  BrickInv'
<1> USE DEF BrickInv
<1>0. PICK n, v : n = req.nic /\ v = branch[n].vni
  OBVIOUS
<1>1. /\ pc = "del_switch" /\ WaitEmptyQueue /\ pc' = "del"
      /\ switch' = switch \ {v} /\ live' = live \ {Sw(v)}
      /\ links' = Without({Sw(v)}, links)
      /\ queue' = <<BrickDestroy(Fw(n)), Nothing>> /\ branch' = branch /\ req' = req
      /\ running' = running /\ Nics' = Nics
      /\ \A x : NicsOf(x)' = NicsOf(x)
  BY <1>0 DEF NicDelSwitch, poller, Nics, NicsOf
<1>2. running \in {Nothing, Idle} /\ n \in Nics /\ n \in NicId
  BY <1>0, <1>1, AfterWait DEF GraphInv, ReqInv, Nics
<1>3. Fw(n) \in live'
  <2>1. Fw(n) # Sw(v)
    BY DEF Fw, Sw
  <2> QED BY <1>1, <1>2, <2>1, NicLive
<1>4. CallsInv'
  <2>1. live' \subseteq Brick
    BY <1>1 DEF GraphInv, TypeOK
  <2>2. v \in Vni
    BY <1>0, <1>1, <1>2, NicLive
  <2>3. BrickDestroy(Fw(n)) \in CallsWithin(live') /\ Nothing \in CallsWithin(live')
    BY <1>2, <1>3, <2>1, <2>2, WithinTypes, WithinNoBrick
  <2>4. queue' \in Seq(CallsWithin(live')) /\ running' \in CallsWithin(live') \cup {Idle}
    BY <1>1, <1>2, <2>3, SeqLiterals
  <2>5. links' \subseteq live' \X live'
    BY <1>1 DEF CallsInv, Without
  <2> QED BY <2>4, <2>5 DEF CallsInv
<1>5. SnifferInv'
  <2>1. \A m : Sw(v) \notin Sniffers(m)
    BY DEF Sw, Sniffers
  <2>2. \A m \in Nics : branch[m].sniffer \in Sniffers(m) \cup {None}
    BY DEF GraphInv, ReqInv
  <2> QED BY <1>1, <2>1, <2>2 DEF SnifferInv
<1>6. SwitchInv'
  <2>1. \A w \in switch' : Sw(w) \in live'
    <3>1. \A w : w # v => Sw(w) # Sw(v)
      BY DEF Sw
    <3> QED BY <1>1, <3>1 DEF SwitchInv
  <2>2. ASSUME NEW a \in Nics, NEW b \in Nics, a # b, branch[a].vni = branch[b].vni,
               a # n, b # n
        PROVE  branch[a].vni \in switch'
    <3>1. branch[a].vni \in switch
      BY <1>1, <2>2 DEF SwitchInv
    <3>2. branch[a].vni # v
      BY <1>0, <1>1, <2>2 DEF SwitchInv, Others, NicsOf
    <3> QED BY <1>1, <3>1, <3>2
  <2> QED BY <1>0, <1>1, <2>1, <2>2 DEF SwitchInv
<1> QED BY <1>4, <1>5, <1>6

LEMMA NicDelDoneBricks ==
  ASSUME GraphInv, BrickInv, NicDelDone
  PROVE  BrickInv'
<1> USE DEF BrickInv
<1>0. PICK n, v, gone : /\ n = req.nic /\ v = branch[n].vni
                        /\ gone = (Bricks(n) \ {Fw(n)})
                             \cup (IF NicsOf(v) = {n} THEN {Sw(v)} ELSE {})
  OBVIOUS
<1>1. /\ pc = "del" /\ WaitEmptyQueue
      /\ branch' = [branch EXCEPT ![n] = None]
      /\ switch' = IF NicsOf(v) = {n} THEN switch \ {v} ELSE switch
      /\ live' = live \ gone /\ links' = Without(gone, links)
      /\ queue' = <<FwNew(n), Nothing>> \/ queue' = queue
      /\ pc' \in {"new", "idle"} /\ running' = running
  BY <1>0 DEF NicDelDone, poller
<1>2. queue = <<>> /\ running \in {Nothing, Idle} /\ n \in Nics /\ n \in NicId
  BY <1>0, <1>1, AfterWait DEF GraphInv, ReqInv, Nics
<1>3. /\ Nics' = Nics \ {n} /\ \A m \in Nics' : branch'[m] = branch[m]
  BY <1>1, <1>2 DEF Nics, GraphInv, TypeOK
<1>4. CallsInv'
  <2>1. FwNew(n) \in CallsWithin(live') /\ Nothing \in CallsWithin(live')
    BY <1>2, WithinNoBrick
  <2>2. queue' \in Seq(CallsWithin(live')) /\ running' \in CallsWithin(live') \cup {Idle}
    BY <1>1, <1>2, <2>1, SeqLiterals
  <2>3. links' \subseteq live' \X live'
    BY <1>1 DEF CallsInv, Without
  <2> QED BY <2>2, <2>3 DEF CallsInv
<1>5. SnifferInv'
  <2>1. \A m \in Nics' : Sniffers(m) \cap gone = {}
    <3>1. \A m : m # n => Bricks(m) \cap Bricks(n) = {}
      BY OwnBrick
    <3>2. \A m : Sw(v) \notin Bricks(m) /\ Sniffers(m) \subseteq Bricks(m)
      BY BrickKinds DEF Bricks
    <3> QED BY <1>0, <1>3, <3>1, <3>2
  <2>2. \A m \in Nics : branch[m].sniffer \in Sniffers(m) \cup {None}
    BY DEF GraphInv, ReqInv
  <2> QED BY <1>1, <1>3, <2>1, <2>2 DEF SnifferInv
<1>6. SwitchInv'
  <2>1. IsFiniteSet(Nics')
    BY <1>3, FS_RemoveElement DEF SwitchInv
  <2>2. \A w \in switch' : Sw(w) \in live'
    <3>1. \A w : w # v => Sw(w) # Sw(v)
      BY DEF Sw
    <3>2. \A w : Sw(w) \notin Bricks(n)
      BY BrickKinds
    <3> QED BY <1>0, <1>1, <3>1, <3>2 DEF SwitchInv
  <2>3. ASSUME NEW a \in Nics', NEW b \in Nics', a # b, branch[a].vni = branch[b].vni
        PROVE  branch[a].vni \in switch'
    <3>1. branch[a].vni \in switch
      BY <1>0, <1>1, <1>3, <2>3 DEF SwitchInv
    <3>2. NicsOf(v) = {n} => branch[a].vni # v
      BY <1>3, <2>3 DEF NicsOf
    <3> QED BY <1>1, <3>1, <3>2
  <2> QED BY <1>1, <1>3, <2>1, <2>2, <2>3 DEF SwitchInv
<1> QED BY <1>4, <1>5, <1>6

(* Calls are pushed and no brick goes.                                     *)
LEMMA PushBricks ==
  ASSUME BrickInv, NEW c \in Seq(CallsWithin(live)), queue' = queue \o c,
         UNCHANGED <<branch, switch, live, links, running>>,
         pc' \notin {"del", "del_switch"}, pc \notin {"del", "del_switch"}
  PROVE  BrickInv'
<1> USE DEF BrickInv
<1>1. Nics' = Nics
  BY DEF Nics
<1>2. queue' \in Seq(CallsWithin(live))
  BY SeqJoin DEF CallsInv
<1>3. CallsInv'
  BY <1>2 DEF CallsInv
<1>4. SnifferInv' /\ SwitchInv'
  BY <1>1 DEF SnifferInv, SwitchInv
<1> QED BY <1>3, <1>4

LEMMA NicAddStartBricks ==
  ASSUME GraphInv, BrickInv, Ready, NEW n \in NicId,
         queue' = queue \o <<FwNew(n), Nothing>>, pc' = "new",
         UNCHANGED <<branch, switch, live, links, ports, poller>>
  PROVE  BrickInv'
<1>1. FwNew(n) \in CallsWithin(live) /\ Nothing \in CallsWithin(live)
  BY WithinNoBrick
<1>2. <<FwNew(n), Nothing>> \in Seq(CallsWithin(live))
  BY <1>1, SeqLiterals
<1> QED BY <1>2, PushBricks DEF Ready, poller

LEMMA SgRequestBricks ==
  ASSUME GraphInv, BrickInv, NEW n \in NicId, SgRequest(n)
  PROVE  BrickInv'
<1>1. n \in Nics /\ pc = "idle" /\ pc' = pc
      /\ UNCHANGED <<branch, switch, live, links, running>>
  BY DEF SgRequest, Ready, poller, api
<1>2. Fw(n) \in live /\ live \subseteq Brick /\ branch[n].vni \in Vni
  BY <1>1, NicLive DEF BrickInv, GraphInv, TypeOK
<1>3. FwReload(Fw(n)) \in CallsWithin(live)
  BY <1>2, WithinTypes
<1>4. <<FwReload(Fw(n))>> \in Seq(CallsWithin(live))
  BY <1>3, SeqLiterals
<1>5. queue' = queue \o <<FwReload(Fw(n))>>
  BY DEF SgRequest, GraphInv, TypeOK
<1> QED BY <1>1, <1>4, <1>5, PushBricks

(* No link is with a brick of a NIC that is not there.                     *)
LEMMA NoLinksYet ==
  ASSUME GraphInv, NEW n \in NicId \ Nics, NEW l \in links
  PROVE  l[1] \notin Bricks(n) /\ l[2] \notin Bricks(n)
<1>1. JoinOk(l[1], l[2])
  BY DEF GraphInv, ShapeInv
<1>2. \A m \in Nics : Bricks(m) \cap Bricks(n) = {}
  BY OwnBrick
<1>3. Vtep \notin Bricks(n) /\ \A v : Sw(v) \notin Bricks(n)
  BY BrickKinds
<1> QED BY <1>1, <1>2, <1>3 DEF JoinOk

LEMMA NicAddFailsBricks ==
  ASSUME GraphInv, BrickInv, NicAddFails
  PROVE  BrickInv'
<1> USE DEF BrickInv
<1>0. PICK n, v : n = req.nic /\ v = req.vni
  OBVIOUS
<1>1. /\ pc = "new" /\ WaitEmptyQueue /\ pc' = "idle"
      /\ \/ live' = live \ {Fw(n)} /\ switch' = switch
         \/ live' = (live \ {Fw(n)}) \cup {Sw(v)} /\ switch' = switch \cup {v}
      /\ links' = links /\ queue' = queue /\ branch' = branch /\ running' = running
      /\ Nics' = Nics
  BY <1>0 DEF NicAddFails, poller, Nics
<1>2. queue = <<>> /\ running \in {Nothing, Idle} /\ n \in NicId \ Nics
  BY <1>0, <1>1, AfterWait DEF GraphInv, ReqInv, Nics
<1>3. CallsInv'
  <2>1. Nothing \in CallsWithin(live')
    BY <1>2, WithinNoBrick
  <2>2. queue' \in Seq(CallsWithin(live')) /\ running' \in CallsWithin(live') \cup {Idle}
    BY <1>1, <1>2, <2>1, SeqLiterals
  <2>3. links' \subseteq live' \X live'
    <3>1. \A l \in links : l[1] # Fw(n) /\ l[2] # Fw(n)
      BY <1>2, NoLinksYet DEF Bricks
    <3> QED BY <1>1, <3>1 DEF CallsInv
  <2> QED BY <2>2, <2>3 DEF CallsInv
<1>4. SnifferInv'
  <2>1. \A m, w : Fw(n) \notin Sniffers(m) /\ Sw(w) \notin Sniffers(m)
    BY DEF Fw, Sw, Sniffers
  <2>2. \A m \in Nics : branch[m].sniffer \in Sniffers(m) \cup {None}
    BY DEF GraphInv, ReqInv
  <2> QED BY <1>1, <2>1, <2>2 DEF SnifferInv
<1>5. SwitchInv'
  <2>1. \A w : Sw(w) # Fw(n)
    BY DEF Fw, Sw
  <2> QED BY <1>1, <2>1 DEF SwitchInv
<1> QED BY <1>3, <1>4, <1>5

LEMMA NicAddDoneBricks ==
  ASSUME GraphInv, BrickInv, NicAddDone
  PROVE  BrickInv'
<1> USE DEF BrickInv
<1>0. PICK n, v, s, h : n = req.nic /\ v = req.vni /\ s = NewSniffer /\ h = NewHead
  OBVIOUS
<1> DEFINE A == Attach(v, h)
           F == IF req.bypass THEN <<>> ELSE <<FwReload(Fw(n))>>
           W == CallsWithin(live')
<1>1. /\ n \in NicId /\ n \notin Nics /\ v \in Vni /\ pc = "new" /\ WaitEmptyQueue
      /\ Fw(n) \in live /\ branch'[n].vni = v
      /\ branch'[n].sniffer = (IF req.trace THEN s ELSE None)
      /\ s \in Sniffers(n) /\ h \in Bricks(n) /\ h \in Brick
      /\ branch'[n].head = h /\ Nics' = Nics \cup {n}
      /\ req.bypass \in BOOLEAN /\ req.trace \in BOOLEAN
      /\ h = IF ~ req.bypass THEN Fw(n) ELSE IF req.trace THEN s ELSE Vhost(n)
  BY <1>0, NewBranchFacts, NicAddEffects DEF NewHead
<1>2. \A m \in Nics : m \in NicId /\ m # n /\ branch'[m] = branch[m]
  BY <1>0, NewBranchFacts DEF Nics
<1>3. /\ switch' = (IF Second(v) THEN switch \cup {v} ELSE switch)
      /\ live' = live \cup ({As(n), Vhost(n)} \cup (IF req.trace THEN {s} ELSE {})
                   \cup (IF Second(v) THEN {Sw(v)} ELSE {}))
      /\ links' \subseteq InnerLinks(n, s) \cup links
      /\ pc' = "idle" /\ running' = running
  BY <1>0, NicAddEffects
<1>4. PICK l \in PollLists(branch') : queue' = (A \o <<UpdatePoll(l)>>) \o F
  BY <1>0, NicAddEffects
<1>5. /\ queue = <<>> /\ running \in {Nothing, Idle}
  BY <1>1, AfterWait
<1>6. /\ h \in live' /\ Fw(n) \in live' /\ Vtep \in live'
      /\ (Second(v) => Sw(v) \in live') /\ live \subseteq live'
  BY <1>1, <1>3 DEF GraphInv, LiveInv
<1>7. live' \subseteq Brick
  BY <1>1, <1>3, BrickTypes DEF GraphInv, TypeOK
<1>8. ASSUME NicsOf(v) # {}, ~ Second(v) PROVE v \in switch
  <2>1. PICK a, b \in NicsOf(v) : a # b
    BY <1>8, FiniteNics, TwoMembers DEF Second
  <2> QED BY <1>1, <2>1 DEF SwitchInv, NicsOf
<1>9. A \in Seq(W)
  <2>1. NicsOf(v) # {} => Sw(v) \in live'
    BY <1>6, <1>8 DEF SwitchInv
  <2>2. Second(v) => FirstHead(v) \in live'
    <3> SUFFICES ASSUME Second(v) PROVE FirstHead(v) \in live'
      OBVIOUS
    <3>1. PICK o \in NicsOf(v) : FirstHead(v) = branch[o].head
      BY FirstNic DEF Second
    <3> QED BY <1>1, <1>6, <3>1, NicLive DEF NicsOf
  <2>3. Link(Vtep, h) \in W /\ AddVni(h, v) \in W
    BY <1>1, <1>6, <1>7, WithinTypes
  <2>4. NicsOf(v) # {} => /\ Link(Vtep, Sw(v)) \in W /\ AddVni(Sw(v), v) \in W
                          /\ Link(Sw(v), h) \in W
    BY <1>1, <1>6, <1>7, <2>1, WithinTypes
  <2>5. Second(v) /\ NicsOf(v) # {} => Link(Sw(v), FirstHead(v)) \in W
    BY <1>1, <1>7, <2>1, <2>2, WithinTypes
  <2> HIDE DEF W
  <2> QED BY <2>3, <2>4, <2>5, AttachCases, SeqLiterals DEF Second
<1>10. queue' \in Seq(W)
  <2>1. l \in SUBSET NicId
    BY PollListsEnabled
  <2>2. UpdatePoll(l) \in W /\ FwReload(Fw(n)) \in W
    BY <1>1, <1>6, <1>7, <2>1, WithinNoBrick, WithinTypes
  <2> HIDE DEF W, A
  <2>3. <<UpdatePoll(l)>> \in Seq(W) /\ F \in Seq(W)
    BY <2>2, SeqLiterals
  <2> HIDE DEF F
  <2>4. A \o <<UpdatePoll(l)>> \in Seq(W)
    BY <1>9, <2>3, SeqJoin
  <2> QED BY <1>4, <2>3, <2>4, SeqJoin
<1>11. CallsInv'
  <2>1. Nothing \in W
    BY <1>1, WithinNoBrick
  <2>2. InnerLinks(n, s) \subseteq live' \X live'
    <3>1. {Fw(n), As(n), Vhost(n)} \subseteq live' /\ (req.trace => s \in live')
      BY <1>1, <1>3
    <3> QED BY <1>1, <3>1, GraphAssumption DEF InnerLinks
  <2>3. links' \subseteq live' \X live'
    BY <1>3, <1>6, <2>2 DEF CallsInv
  <2> QED BY <1>3, <1>5, <1>10, <2>1, <2>3 DEF CallsInv
<1>12. SnifferInv'
  <2>1. ASSUME NEW m \in Nics
        PROVE  /\ branch'[m].head \in Sniffers(m) => branch'[m].head = branch'[m].sniffer
               /\ branch'[m].sniffer # None => branch'[m].sniffer \in live'
               /\ Sniffers(m) \cap live' \subseteq {branch'[m].sniffer}
    <3>1. Sniffers(m) \cap Bricks(n) = {} /\ Sw(v) \notin Sniffers(m)
      BY <1>2, OwnBrick, BrickKinds DEF Bricks
    <3>2. live' \subseteq live \cup Bricks(n) \cup {Sw(v)}
      BY <1>1, <1>3 DEF Bricks
    <3> QED BY <1>2, <1>6, <3>1, <3>2 DEF SnifferInv
  <2>2. /\ h \in Sniffers(n) => h = branch'[n].sniffer
        /\ branch'[n].sniffer # None => branch'[n].sniffer \in live'
        /\ Sniffers(n) \cap live' \subseteq {branch'[n].sniffer}
    <3>1. /\ {Fw(n), As(n), Vhost(n)} \cap Sniffers(n) = {} /\ Sw(v) \notin Sniffers(n)
      BY NicBricksDiffer DEF Sw, Sniffers
    <3>2. Sniffers(n) \cap live = {}
      <4>1. Bricks(n) \cap live \subseteq {Fw(n)}
        BY <1>0, <1>1 DEF GraphInv, LiveInv
      <4> QED BY <3>1, <4>1 DEF Bricks
    <3> QED BY <1>1, <1>3, <3>1, <3>2
  <2> QED BY <1>1, <2>1, <2>2 DEF SnifferInv
<1>13. SwitchInv'
  <2>1. IsFiniteSet(Nics')
    BY <1>1, FS_AddElement DEF SwitchInv
  <2>2. \A w \in switch' : Sw(w) \in live'
    BY <1>3, <1>6 DEF SwitchInv
  <2>3. ASSUME NEW a \in Nics', NEW b \in Nics', a # b, branch'[a].vni = branch'[b].vni
        PROVE  branch'[a].vni \in switch'
    <3>1. CASE a # n /\ b # n
      BY <1>1, <1>2, <1>3, <2>3, <3>1 DEF SwitchInv
    <3>2. CASE a = n \/ b = n
      <4>1. branch'[a].vni = v /\ NicsOf(v) # {}
        BY <1>1, <1>2, <2>3, <3>2 DEF NicsOf
      <4> QED BY <1>3, <1>8, <4>1
    <3> QED BY <3>1, <3>2
  <2> QED BY <1>3, <2>1, <2>2, <2>3 DEF SwitchInv
<1> QED BY <1>11, <1>12, <1>13

-----------------------------------------------------------------------------
(* ActionNicUpdate without a new trace file.                               *)

(* The calls of LinkSniffer and of DisablePacketTrace.                     *)
SnifferCalls(n, g, s) ==
  IF g.bypass
  THEN <<Unlink(Vhost(n)), Link(s, Vhost(n)), Link(Vtep, s), AddVni(s, g.vni)>>
  ELSE <<UnlinkEdge(As(n), Vhost(n)), Link(As(n), s), Link(s, Vhost(n))>>
RelinkCalls(n, g) ==
  IF g.bypass
  THEN <<Unlink(g.sniffer), Link(Vtep, Vhost(n)), AddVni(Vhost(n), g.vni)>>
  ELSE <<Unlink(g.sniffer), Link(As(n), Vhost(n))>>

(* The ways in which the branch g becomes h with calls c.                  *)
TraceSame(n, g, h, c, made) ==
  h.head = g.head /\ h.sniffer = g.sniffer /\ c = <<>> /\ made = {}
TraceOn(n, g, h, c, made) ==
  /\ h.head \in Sniffers(n) /\ h.sniffer = h.head
  /\ \/ g.sniffer = h.head /\ made = {}
     \/ g.sniffer = None /\ h.head \notin live /\ made = {h.head}
  /\ c = SnifferCalls(n, g, h.head)
TraceOff(n, g, h, c, made) ==
  /\ g.sniffer # None /\ h.sniffer = g.sniffer /\ made = {}
  /\ h.head = IF g.bypass THEN Vhost(n) ELSE As(n)
  /\ c = RelinkCalls(n, g)
TraceChange(n, g, h, c, made) ==
  /\ h \in Branch /\ h.vni = g.vni /\ h.bypass = g.bypass /\ h.enable = g.enable
  /\ TraceSame(n, g, h, c, made) \/ TraceOn(n, g, h, c, made) \/ TraceOff(n, g, h, c, made)

LEMMA SetHeadKeeps ==
  ASSUME NEW e \in Edit, NEW b \in Brick,
         e.g.head \in Sniffers(e.n) => e.g.head \in {e.g.sniffer, b}
  PROVE  /\ SetHead(e, b) \in Edit /\ SetHead(e, b).n = e.n
         /\ SetHead(e, b).g = [e.g EXCEPT !.head = b]
         /\ SetHead(e, b).calls = e.calls /\ SetHead(e, b).poll = e.poll
         /\ SetHead(e, b).made = e.made /\ SetHead(e, b).gone = e.gone
<1>1. e.gone \cup (({e.g.head} \cap Sniffers(e.n)) \ {e.g.sniffer, b}) = e.gone
  OBVIOUS
<1> QED BY <1>1 DEF Edit, SetHead, Branch

LEMMA JoinLiterals ==
  ASSUME NEW a \in Rpc, NEW b \in Rpc, NEW c \in Rpc
  PROVE  <<a>> \o <<b>> = <<a, b>> /\ <<a>> \o <<b, c>> = <<a, b, c>>
<1>2. <<a>> \o <<b>> = <<a, b>>
  <2>1. /\ Len(<<a>> \o <<b>>) = 2 /\ (<<a>> \o <<b>>)[1] = a /\ (<<a>> \o <<b>>)[2] = b
        /\ <<a>> \o <<b>> \in Seq(Rpc)
    OBVIOUS
  <2>2. <<a, b>> \in Seq(Rpc) /\ Len(<<a, b>>) = 2
    OBVIOUS
  <2>3. \A i \in 1..2 : i = 1 \/ i = 2
    OBVIOUS
  <2>4. \A i \in 1..2 : (<<a>> \o <<b>>)[i] = <<a, b>>[i]
    BY <2>1, <2>3
  <2> QED BY <2>1, <2>2, <2>4, SeqEqual
<1>3. <<a>> \o <<b, c>> = <<a, b, c>>
  <2>1. /\ Len(<<a>> \o <<b, c>>) = 3 /\ (<<a>> \o <<b, c>>)[1] = a
        /\ (<<a>> \o <<b, c>>)[2] = b /\ (<<a>> \o <<b, c>>)[3] = c
        /\ <<a>> \o <<b, c>> \in Seq(Rpc)
    OBVIOUS
  <2>2. <<a, b, c>> \in Seq(Rpc) /\ Len(<<a, b, c>>) = 3
    OBVIOUS
  <2>3. \A i \in 1..3 : i = 1 \/ i = 2 \/ i = 3
    OBVIOUS
  <2>4. \A i \in 1..3 : (<<a>> \o <<b, c>>)[i] = <<a, b, c>>[i]
    BY <2>1, <2>3
  <2> QED BY <2>1, <2>2, <2>4, SeqEqual
<1> QED BY <1>2, <1>3

LEMMA LinkSnifferCalls ==
  ASSUME NEW e \in Edit, NEW s \in Sniffers(e.n), e.calls = <<>>,
         e.g.head \in Sniffers(e.n) => e.g.head \in {e.g.sniffer, s}
  PROVE  /\ LinkSniffer(e, s) \in Edit /\ LinkSniffer(e, s).g = [e.g EXCEPT !.head = s]
         /\ LinkSniffer(e, s).calls = SnifferCalls(e.n, e.g, s)
         /\ LinkSniffer(e, s).made = e.made /\ LinkSniffer(e, s).gone = e.gone
         /\ LinkSniffer(e, s).poll = e.poll
<1> DEFINE x == SetHead(e, s)
           c == SnifferCalls(e.n, e.g, s)
<1>1. e.n \in NicId /\ e.g \in Branch /\ e.g.vni \in Vni
  BY DEF Edit, Nics, Branch
<1>2. /\ s \in Brick /\ As(e.n) \in Brick /\ Vhost(e.n) \in Brick /\ Vtep \in Brick
  BY <1>1, BrickTypes
<1>3. /\ x \in Edit /\ x.n = e.n /\ x.g = [e.g EXCEPT !.head = s] /\ x.calls = <<>>
      /\ x.poll = e.poll /\ x.made = e.made /\ x.gone = e.gone
  BY <1>2, SetHeadKeeps
<1>4. c \in Seq(Rpc)
  <2>1. /\ Unlink(Vhost(e.n)) \in Rpc /\ Link(s, Vhost(e.n)) \in Rpc
        /\ Link(Vtep, s) \in Rpc /\ AddVni(s, e.g.vni) \in Rpc
        /\ UnlinkEdge(As(e.n), Vhost(e.n)) \in Rpc /\ Link(As(e.n), s) \in Rpc
    BY <1>1, <1>2 DEF Rpc
  <2> QED BY <2>1, SeqLiterals DEF SnifferCalls
<1>5. LinkSniffer(e, s) = [x EXCEPT !.calls = @ \o c]
  BY DEF LinkSniffer, SnifferCalls
<1> HIDE DEF x, c
<1>6. x.calls \o c = c
  BY <1>3, <1>4, ConcatEmptySeq
<1>7. LinkSniffer(e, s) = [x EXCEPT !.calls = c]
  BY <1>3, <1>5, <1>6 DEF Edit
<1>8. /\ [x EXCEPT !.calls = c] \in Edit /\ [x EXCEPT !.calls = c].calls = c
      /\ [x EXCEPT !.calls = c].g = x.g /\ [x EXCEPT !.calls = c].made = x.made
      /\ [x EXCEPT !.calls = c].gone = x.gone /\ [x EXCEPT !.calls = c].poll = x.poll
  BY <1>3, <1>4 DEF Edit
<1> QED BY <1>3, <1>7, <1>8 DEF c

LEMMA DisableCalls ==
  ASSUME NEW e \in Edit, e.calls = <<>>, e.g.trace, e.g.sniffer # None,
         e.g.sniffer \in Sniffers(e.n),
         e.g.head \in Sniffers(e.n) => e.g.head = e.g.sniffer
  PROVE  /\ DisablePacketTrace(e) \in Edit
         /\ DisablePacketTrace(e).g =
              [e.g EXCEPT !.head = IF e.g.bypass THEN Vhost(e.n) ELSE As(e.n)]
         /\ DisablePacketTrace(e).calls = RelinkCalls(e.n, e.g)
         /\ DisablePacketTrace(e).made = e.made /\ DisablePacketTrace(e).gone = e.gone
         /\ DisablePacketTrace(e).poll = e.poll
<1> DEFINE b == IF e.g.bypass THEN Vhost(e.n) ELSE As(e.n)
           x == SetHead(e, b)
           u == Unlink(e.g.sniffer)
           r == IF e.g.bypass THEN <<Link(Vtep, b), AddVni(b, e.g.vni)>>
                ELSE <<Link(As(e.n), Vhost(e.n))>>
           c == RelinkCalls(e.n, e.g)
<1>1. e.n \in NicId /\ e.g \in Branch /\ e.g.vni \in Vni
  BY DEF Edit, Nics, Branch
<1>2. /\ e.g.sniffer \in Brick /\ As(e.n) \in Brick /\ Vhost(e.n) \in Brick
      /\ Vtep \in Brick /\ b \in Brick
  BY <1>1, BrickTypes
<1>3. /\ x \in Edit /\ x.n = e.n /\ x.g = [e.g EXCEPT !.head = b] /\ x.calls = <<>>
      /\ x.poll = e.poll /\ x.made = e.made /\ x.gone = e.gone
  BY <1>2, SetHeadKeeps
<1>4. /\ u \in Rpc /\ Link(Vtep, b) \in Rpc /\ AddVni(b, e.g.vni) \in Rpc
      /\ Link(As(e.n), Vhost(e.n)) \in Rpc
  BY <1>1, <1>2 DEF Rpc
<1>5. (<<>> \o <<u>>) \o r = c
  <2>1. <<>> \o <<u>> = <<u>>
    BY <1>4, SeqLiterals, ConcatEmptySeq
  <2>2. CASE e.g.bypass
    <3>1. /\ c = <<u, Link(Vtep, b), AddVni(b, e.g.vni)>>
          /\ r = <<Link(Vtep, b), AddVni(b, e.g.vni)>>
      BY <2>2 DEF RelinkCalls
    <3> HIDE DEF c, r, u, b
    <3>2. <<u>> \o <<Link(Vtep, b), AddVni(b, e.g.vni)>>
            = <<u, Link(Vtep, b), AddVni(b, e.g.vni)>>
      BY <1>4, JoinLiterals, Zenon
    <3> QED BY <2>1, <3>1, <3>2, Zenon
  <2>3. CASE ~ e.g.bypass
    <3>1. c = <<u, Link(As(e.n), Vhost(e.n))>> /\ r = <<Link(As(e.n), Vhost(e.n))>>
      BY <2>3 DEF RelinkCalls
    <3> HIDE DEF c, r, u, b
    <3>2. <<u>> \o <<Link(As(e.n), Vhost(e.n))>> = <<u, Link(As(e.n), Vhost(e.n))>>
      BY <1>4, JoinLiterals, Zenon
    <3> QED BY <2>1, <3>1, <3>2, Zenon
  <2> QED BY <2>2, <2>3
<1>6. c \in Seq(Rpc)
  BY <1>4, SeqLiterals DEF RelinkCalls
<1>7. DisablePacketTrace(e) = [x EXCEPT !.calls = (@ \o <<u>>) \o r]
  BY DEF DisablePacketTrace
<1> HIDE DEF x, c, r, u, b
<1>8. DisablePacketTrace(e) = [x EXCEPT !.calls = c]
  BY <1>3, <1>5, <1>7 DEF Edit
<1>9. /\ [x EXCEPT !.calls = c] \in Edit /\ [x EXCEPT !.calls = c].calls = c
      /\ [x EXCEPT !.calls = c].g = x.g /\ [x EXCEPT !.calls = c].made = x.made
      /\ [x EXCEPT !.calls = c].gone = x.gone /\ [x EXCEPT !.calls = c].poll = x.poll
  BY <1>3, <1>6 DEF Edit
<1> QED BY <1>3, <1>8, <1>9 DEF c, b

LEMMA ConfigTraceCalls ==
  ASSUME NEW e \in Edit, e.calls = <<>>, e.made = {}, e.gone = {},
         e.g.sniffer \in Sniffers(e.n) \cup {None},
         e.g.head \in Sniffers(e.n) => e.g.head = e.g.sniffer,
         Sniffers(e.n) \cap live \subseteq {e.g.sniffer},
         NEW t \in BOOLEAN, NEW ok \in BOOLEAN
  PROVE  /\ NicConfigPacketTrace(e, t, ok).gone = {}
         /\ \E c \in Seq(Rpc) :
              /\ TraceChange(e.n, e.g, NicConfigPacketTrace(e, t, ok).g, c,
                             NicConfigPacketTrace(e, t, ok).made)
              /\ NicConfigPacketTrace(e, t, ok).calls = c \o <<UpdatePoll(e.poll)>>
<1> DEFINE x == IF t THEN EnablePacketTrace(e, ok) ELSE DisablePacketTrace(e)
           y == NicConfigPacketTrace(e, t, ok)
           s == CHOOSE b \in Sniffers(e.n) : b \notin live
           z == [e EXCEPT !.g.sniffer = s, !.made = @ \cup {s}]
<1>0. /\ e.g \in Branch /\ e.n \in NicId /\ None \notin Sniffers(e.n)
      /\ Sniffers(e.n) \subseteq Brick /\ e.g.trace \in BOOLEAN /\ As(e.n) \in Brick
      /\ Vhost(e.n) \in Brick
  <2>1. e.g \in Branch /\ e.n \in NicId
    BY DEF Edit, Nics
  <2>2. e.g.trace \in BOOLEAN
    BY <2>1 DEF Branch
  <2> QED BY <2>1, <2>2, NullAssumption, BrickTypes DEF Brick, Bricks
<1>1. y = [x EXCEPT !.g.trace = t, !.calls = Append(@, UpdatePoll(e.poll))]
  BY DEF NicConfigPacketTrace
<1>2. /\ x \in Edit /\ x.gone = {}
      /\ TraceChange(e.n, e.g, x.g, x.calls, x.made)
  <2>1. CASE /\ t => e.g.trace \/ (e.g.sniffer = None /\ ~ ok)
             /\ ~ t => ~ e.g.trace \/ e.g.sniffer = None
    <3>1. x = e
      BY <1>0, <2>1 DEF EnablePacketTrace, DisablePacketTrace
    <3> HIDE DEF x
    <3> QED BY <1>0, <3>1 DEF TraceChange, TraceSame
  <2>2. CASE t /\ ~ e.g.trace /\ e.g.sniffer # None
    <3>1. x = LinkSniffer(e, e.g.sniffer)
      BY <2>2 DEF EnablePacketTrace
    <3>2. e.g.sniffer \in Sniffers(e.n)
      BY <2>2
    <3> HIDE DEF x
    <3>3. /\ x \in Edit /\ x.g = [e.g EXCEPT !.head = e.g.sniffer]
          /\ x.calls = SnifferCalls(e.n, e.g, e.g.sniffer)
          /\ x.made = {} /\ x.gone = {}
      BY <3>1, <3>2, LinkSnifferCalls
    <3>4. /\ x.g \in Branch /\ x.g.vni = e.g.vni /\ x.g.bypass = e.g.bypass
          /\ x.g.enable = e.g.enable /\ x.g.head = e.g.sniffer
          /\ x.g.sniffer = e.g.sniffer
      BY <1>0, <3>2, <3>3 DEF Branch
    <3> QED BY <3>2, <3>3, <3>4 DEF TraceChange, TraceOn
  <2>3. CASE t /\ ~ e.g.trace /\ e.g.sniffer = None /\ ok
    <3>1. x = LinkSniffer(z, s)
      BY <2>3 DEF EnablePacketTrace
    <3>2. s \in Sniffers(e.n) /\ s \notin live
      <4>1. \E b \in Sniffers(e.n) : b \notin live
        BY <1>0, <2>3 DEF Sniffers
      <4> QED BY <4>1
    <3> HIDE DEF x, s
    <3>3. /\ z \in Edit /\ z.n = e.n /\ z.g = [e.g EXCEPT !.sniffer = s]
          /\ z.calls = <<>> /\ z.made = {s} /\ z.gone = {}
      BY <1>0, <3>2 DEF Edit, Branch
    <3>4. /\ z.g \in Branch /\ z.g.vni = e.g.vni /\ z.g.bypass = e.g.bypass
          /\ z.g.enable = e.g.enable /\ z.g.head = e.g.head /\ z.g.sniffer = s
      BY <1>0, <3>2, <3>3 DEF Branch
    <3> HIDE DEF z
    <3>5. z.g.head \notin Sniffers(z.n)
      BY <1>0, <2>3, <3>3, <3>4
    <3>6. /\ x \in Edit /\ x.g = [z.g EXCEPT !.head = s]
          /\ x.calls = SnifferCalls(z.n, z.g, s) /\ x.made = {s} /\ x.gone = {}
      BY <3>1, <3>2, <3>3, <3>5, LinkSnifferCalls
    <3>7. /\ x.g \in Branch /\ x.g.vni = e.g.vni /\ x.g.bypass = e.g.bypass
          /\ x.g.enable = e.g.enable /\ x.g.head = s /\ x.g.sniffer = s
      BY <1>0, <3>2, <3>4, <3>6 DEF Branch
    <3>8. x.calls = SnifferCalls(e.n, e.g, s)
      BY <3>3, <3>4, <3>6 DEF SnifferCalls
    <3> QED BY <2>3, <3>2, <3>6, <3>7, <3>8 DEF TraceChange, TraceOn
  <2>4. CASE ~ t /\ e.g.trace /\ e.g.sniffer # None
    <3>1. x = DisablePacketTrace(e)
      BY <2>4
    <3> HIDE DEF x
    <3>2. /\ x \in Edit /\ x.calls = RelinkCalls(e.n, e.g) /\ x.made = {} /\ x.gone = {}
          /\ x.g = [e.g EXCEPT !.head = IF e.g.bypass THEN Vhost(e.n) ELSE As(e.n)]
      BY <2>4, <3>1, DisableCalls
    <3>3. /\ x.g \in Branch /\ x.g.vni = e.g.vni /\ x.g.bypass = e.g.bypass
          /\ x.g.enable = e.g.enable /\ x.g.sniffer = e.g.sniffer
          /\ x.g.head = IF e.g.bypass THEN Vhost(e.n) ELSE As(e.n)
      BY <1>0, <3>2 DEF Branch
    <3> QED BY <2>4, <3>2, <3>3 DEF TraceChange, TraceOff
  <2> QED BY <1>0, <2>1, <2>2, <2>3, <2>4
<1> HIDE DEF x
<1>3. /\ y.g = [x.g EXCEPT !.trace = t] /\ y.made = x.made /\ y.gone = x.gone
      /\ y.calls = Append(x.calls, UpdatePoll(e.poll)) /\ x.g \in Branch
      /\ x.calls \in Seq(Rpc)
  BY <1>1, <1>2 DEF Edit
<1> HIDE DEF y
<1>4. /\ y.g \in Branch /\ y.g.vni = x.g.vni /\ y.g.bypass = x.g.bypass
      /\ y.g.enable = x.g.enable /\ y.g.head = x.g.head /\ y.g.sniffer = x.g.sniffer
  BY <1>3 DEF Branch
<1>5. TraceChange(e.n, e.g, y.g, x.calls, y.made)
  BY <1>2, <1>3, <1>4 DEF TraceChange, TraceSame, TraceOn, TraceOff
<1>6. y.calls = x.calls \o <<UpdatePoll(e.poll)>>
  BY <1>3
<1> QED BY <1>2, <1>3, <1>5, <1>6 DEF y

UpdateEffect(n, l) ==
  /\ n \in Nics /\ Ready /\ switch' = switch /\ running' = running
  /\ poll' = poll /\ phase' = phase /\ pc' = pc /\ req' = req
  /\ links' = links /\ ports' = Linked(ports, links)
  /\ \E h, c, u, f, made :
       /\ TraceChange(n, branch[n], h, c, made)
       /\ u \in {<<>>, <<UpdatePoll(l)>>} /\ f \in {<<>>, <<FwReload(Fw(n))>>}
       /\ f # <<>> => ~ branch[n].bypass
       /\ branch' = [branch EXCEPT ![n] = h]
       /\ live' = live \cup made
       /\ queue' = (queue \o (c \o u)) \o f

LEMMA TraceUpdate ==
  ASSUME GraphInv, SnifferInv, NEW n \in NicId, NEW t \in BOOLEAN \cup {None},
         NEW fw, NEW ok \in BOOLEAN, NEW l \in PollLists(branch),
         ActionNicUpdate(n, t, FALSE, fw, ok, l)
  PROVE  UpdateEffect(n, l)
<1> USE DEF GraphInv
<1> DEFINE e0 == FirstEdit(n, l)
           e1 == IF t = None THEN e0 ELSE NicConfigPacketTrace(e0, t, ok)
           f == IF fw /\ ~ branch[n].bypass THEN <<FwReload(Fw(n))>> ELSE <<>>
           g == branch[n]
<1>1. /\ n \in Nics /\ Ready /\ branch' = [branch EXCEPT ![n] = e1.g]
      /\ live' = (live \cup e1.made) \ e1.gone
      /\ links' = Without(e1.gone, links) /\ ports' = Linked(ports, links')
      /\ queue' = (queue \o e1.calls) \o f
      /\ switch' = switch /\ running' = running /\ poll' = poll /\ phase' = phase
      /\ pc' = pc /\ req' = req
  BY DEF ActionNicUpdate, FirstEdit, poller, api
<1>2. g \in Branch /\ g.sniffer \in Sniffers(n) \cup {None}
      /\ None \notin Sniffers(n) /\ Sniffers(n) \subseteq Brick
      /\ (g.head \in Sniffers(n) => g.head = g.sniffer)
      /\ Sniffers(n) \cap live \subseteq {g.sniffer}
      /\ g.trace \in BOOLEAN
  BY <1>1, NullAssumption, BrickTypes DEF TypeOK, Nics, ReqInv, SnifferInv, Branch, Brick, Bricks
<1>3. /\ e0 \in Edit /\ e0.n = n /\ e0.g = g /\ e0.calls = <<>>
      /\ e0.made = {} /\ e0.gone = {} /\ e0.poll = l
  BY <1>1, <1>2, SeqLiterals DEF FirstEdit, Edit
<1> HIDE DEF e0, f, g
<1>4. /\ e1.gone = {}
      /\ \E c, u : /\ TraceChange(n, g, e1.g, c, e1.made)
                   /\ u \in {<<>>, <<UpdatePoll(l)>>} /\ e1.calls = c \o u
  <2>1. CASE t = None
    <3>1. e1 = e0
      BY <2>1
    <3>2. <<>> \o <<>> = <<>>
      BY EmptySeq, ConcatEmptySeq
    <3> QED BY <1>2, <1>3, <3>1, <3>2 DEF TraceChange, TraceSame
  <2>2. CASE t # None
    <3>1. e1 = NicConfigPacketTrace(e0, t, ok) /\ t \in BOOLEAN
      BY <2>2
    <3> HIDE DEF e1
    <3>2. /\ e0.g.sniffer \in Sniffers(e0.n) \cup {None}
          /\ e0.g.head \in Sniffers(e0.n) => e0.g.head = e0.g.sniffer
          /\ Sniffers(e0.n) \cap live \subseteq {e0.g.sniffer}
      BY <1>2, <1>3
    <3>3. /\ NicConfigPacketTrace(e0, t, ok).gone = {}
          /\ \E c \in Seq(Rpc) :
               /\ TraceChange(e0.n, e0.g, NicConfigPacketTrace(e0, t, ok).g, c,
                              NicConfigPacketTrace(e0, t, ok).made)
               /\ NicConfigPacketTrace(e0, t, ok).calls = c \o <<UpdatePoll(e0.poll)>>
      BY <1>3, <3>1, <3>2, ConfigTraceCalls
    <3> QED BY <1>3, <3>1, <3>3
  <2> QED BY <2>1, <2>2
<1> HIDE DEF e1
<1>5. links' = links /\ ports' = Linked(ports, links)
  BY <1>1, <1>4 DEF Without
<1>6. /\ f \in {<<>>, <<FwReload(Fw(n))>>} /\ (f # <<>> => ~ branch[n].bypass)
  BY DEF f
<1>7. PICK c, u : /\ TraceChange(n, g, e1.g, c, e1.made)
                  /\ u \in {<<>>, <<UpdatePoll(l)>>} /\ e1.calls = c \o u
  BY <1>4
<1>8. /\ TraceChange(n, branch[n], e1.g, c, e1.made)
      /\ u \in {<<>>, <<UpdatePoll(l)>>} /\ f \in {<<>>, <<FwReload(Fw(n))>>}
      /\ f # <<>> => ~ branch[n].bypass
      /\ branch' = [branch EXCEPT ![n] = e1.g]
      /\ live' = live \cup e1.made
      /\ queue' = (queue \o (c \o u)) \o f
  BY <1>1, <1>4, <1>6, <1>7 DEF g
<1>9. \E h, d, w, x, made :
         /\ TraceChange(n, branch[n], h, d, made)
         /\ w \in {<<>>, <<UpdatePoll(l)>>} /\ x \in {<<>>, <<FwReload(Fw(n))>>}
         /\ x # <<>> => ~ branch[n].bypass
         /\ branch' = [branch EXCEPT ![n] = h]
         /\ live' = live \cup made
         /\ queue' = (queue \o (d \o w)) \o x
  <2> HIDE DEF f
  <2> QED BY <1>8, Zenon
<1> QED BY <1>1, <1>5, <1>9 DEF UpdateEffect

(* The calls of an update, and the branch after it.                        *)
LEMMA ChangeFacts ==
  ASSUME GraphInv, SnifferInv, NEW n \in Nics, pc = "idle",
         NEW h, NEW c, NEW made, TraceChange(n, branch[n], h, c, made)
  PROVE  /\ made \subseteq Sniffers(n) /\ made \subseteq {h.sniffer}
         /\ h.head \in Sniffers(n) => h.head = h.sniffer
         /\ h.sniffer # None => h.sniffer \in live \cup made
         /\ Sniffers(n) \cap (live \cup made) \subseteq {h.sniffer}
         /\ c \in Seq(CallsWithin(live \cup made))
<1> USE DEF GraphInv
<1> DEFINE g == branch[n]
           L == live \cup made
<1>1. /\ {Fw(n), As(n), Vhost(n), Vtep} \subseteq live /\ g.vni \in Vni /\ n \in NicId
      /\ live \subseteq Brick
  BY NicLive DEF TypeOK
<1>2. /\ None \notin Sniffers(n) /\ Sniffers(n) \subseteq Brick
  BY <1>1, NullAssumption, BrickTypes
<1>3. /\ g.head \in Sniffers(n) => g.head = g.sniffer
      /\ g.sniffer # None => g.sniffer \in live
      /\ Sniffers(n) \cap live \subseteq {g.sniffer}
      /\ g.sniffer \in Sniffers(n) \cup {None}
  BY DEF SnifferInv, ReqInv
<1>4. {As(n), Vhost(n)} \cap Sniffers(n) = {}
  BY NicBricksDiffer
<1>5. made \subseteq Sniffers(n) /\ made \subseteq {h.sniffer}
  BY <1>2 DEF TraceChange, TraceSame, TraceOn, TraceOff
<1>6. L \subseteq Brick /\ {As(n), Vhost(n), Vtep} \subseteq L
  BY <1>1, <1>2, <1>5
<1>7. CASE TraceSame(n, g, h, c, made)
  BY <1>3, <1>5, <1>7, SeqLiterals DEF TraceSame
<1>8. CASE TraceOn(n, g, h, c, made)
  <2>1. /\ h.head \in Sniffers(n) /\ h.sniffer = h.head /\ h.head \in L
        /\ c = SnifferCalls(n, g, h.head) /\ Sniffers(n) \cap L \subseteq {h.sniffer}
    BY <1>2, <1>3, <1>8 DEF TraceOn
  <2>2. /\ Unlink(Vhost(n)) \in CallsWithin(L) /\ Link(h.head, Vhost(n)) \in CallsWithin(L)
        /\ Link(Vtep, h.head) \in CallsWithin(L)
        /\ AddVni(h.head, g.vni) \in CallsWithin(L)
        /\ UnlinkEdge(As(n), Vhost(n)) \in CallsWithin(L)
        /\ Link(As(n), h.head) \in CallsWithin(L)
    BY <1>1, <1>6, <2>1, WithinTypes
  <2>3. c \in Seq(CallsWithin(L))
    BY <2>1, <2>2, SeqLiterals DEF SnifferCalls
  <2> QED BY <1>5, <2>1, <2>3
<1>9. CASE TraceOff(n, g, h, c, made)
  <2>1. /\ h.sniffer = g.sniffer /\ h.head \in {As(n), Vhost(n)} /\ g.sniffer \in L
        /\ c = RelinkCalls(n, g) /\ made = {}
    BY <1>3, <1>9 DEF TraceOff
  <2>2. /\ Unlink(g.sniffer) \in CallsWithin(L) /\ Link(Vtep, Vhost(n)) \in CallsWithin(L)
        /\ AddVni(Vhost(n), g.vni) \in CallsWithin(L)
        /\ Link(As(n), Vhost(n)) \in CallsWithin(L)
    BY <1>1, <1>6, <2>1, WithinTypes
  <2>3. c \in Seq(CallsWithin(L))
    BY <2>1, <2>2, SeqLiterals DEF RelinkCalls
  <2> QED BY <1>3, <1>4, <1>5, <2>1, <2>3
<1> QED BY <1>7, <1>8, <1>9 DEF TraceChange

LEMMA UpdateBricks ==
  ASSUME GraphInv, BrickInv, NEW n \in NicId, NEW t \in BOOLEAN \cup {None},
         NEW fw, NEW ok \in BOOLEAN, NEW l \in PollLists(branch),
         ActionNicUpdate(n, t, FALSE, fw, ok, l)
  PROVE  BrickInv'
<1> USE DEF BrickInv
<1>0. UpdateEffect(n, l)
  BY TraceUpdate
<1>1. /\ n \in Nics /\ pc = "idle" /\ switch' = switch /\ running' = running
      /\ pc' = pc /\ links' = links
  BY <1>0 DEF UpdateEffect, Ready
<1>2. PICK h, c, u, f, made :
              /\ TraceChange(n, branch[n], h, c, made)
              /\ u \in {<<>>, <<UpdatePoll(l)>>} /\ f \in {<<>>, <<FwReload(Fw(n))>>}
              /\ branch' = [branch EXCEPT ![n] = h]
              /\ live' = live \cup made
              /\ queue' = (queue \o (c \o u)) \o f
  BY <1>0 DEF UpdateEffect
<1>3. /\ made \subseteq Sniffers(n)
      /\ h.head \in Sniffers(n) => h.head = h.sniffer
      /\ h.sniffer # None => h.sniffer \in live'
      /\ Sniffers(n) \cap live' \subseteq {h.sniffer}
      /\ c \in Seq(CallsWithin(live'))
  BY <1>1, <1>2, ChangeFacts
<1>4. h \in Branch /\ h.vni = branch[n].vni
  BY <1>2 DEF TraceChange
<1>5. branch'[n] = h /\ \A m \in NicId : m # n => branch'[m] = branch[m]
  BY <1>2 DEF GraphInv, TypeOK
<1>6. Nics' = Nics /\ \A m \in Nics : branch'[m].vni = branch[m].vni
  BY <1>1, <1>4, <1>5, NullAssumption DEF Nics
<1>7. CallsInv'
  <2>1. /\ Fw(n) \in live' /\ live' \subseteq Brick /\ live \subseteq live'
        /\ branch[n].vni \in Vni
    <3>1. Fw(n) \in live /\ branch[n].vni \in Vni
      BY <1>1, NicLive
    <3>2. Sniffers(n) \subseteq Brick
      BY <3>1, BrickTypes
    <3> QED BY <1>2, <1>3, <3>1, <3>2 DEF GraphInv, TypeOK
  <2>2. /\ UpdatePoll(l) \in CallsWithin(live') /\ FwReload(Fw(n)) \in CallsWithin(live')
    BY <2>1, PollListsEnabled, WithinNoBrick, WithinTypes
  <2>3. u \in Seq(CallsWithin(live')) /\ f \in Seq(CallsWithin(live'))
    BY <1>2, <2>2, SeqLiterals
  <2>4. queue \in Seq(CallsWithin(live')) /\ running \in CallsWithin(live') \cup {Idle}
    BY <2>1, WithinMonotone, SeqMonotone DEF CallsInv
  <2>5. c \o u \in Seq(CallsWithin(live'))
    BY <1>3, <2>3, SeqJoin
  <2>6. queue \o (c \o u) \in Seq(CallsWithin(live'))
    BY <2>4, <2>5, SeqJoin
  <2>7. queue' \in Seq(CallsWithin(live'))
    BY <1>2, <2>3, <2>6, SeqJoin
  <2> QED BY <1>1, <2>1, <2>4, <2>7 DEF CallsInv
<1>8. SnifferInv'
  <2>1. ASSUME NEW m \in Nics, m # n
        PROVE  /\ branch'[m].head \in Sniffers(m) => branch'[m].head = branch'[m].sniffer
               /\ branch'[m].sniffer # None => branch'[m].sniffer \in live'
               /\ Sniffers(m) \cap live' \subseteq {branch'[m].sniffer}
    <3>1. Sniffers(m) \cap Sniffers(n) = {}
      BY <2>1, OwnBrick DEF Bricks
    <3>2. branch'[m] = branch[m]
      BY <1>5, <2>1 DEF Nics
    <3> QED BY <1>2, <1>3, <3>1, <3>2 DEF SnifferInv
  <2> QED BY <1>3, <1>5, <1>6, <2>1 DEF SnifferInv
<1>9. SwitchInv'
  BY <1>1, <1>2, <1>6 DEF SwitchInv
<1> QED BY <1>7, <1>8, <1>9

LEMMA BrickInit ==
  ASSUME Init
  PROVE  BrickInv
<1>1. Nics = {}
  BY DEF Init, Nics
<1>2. SnifferInv /\ SwitchInv
  BY <1>1, FS_EmptySet DEF Init, SnifferInv, SwitchInv
<1>3. CallsInv
  BY DEF Init, CallsInv
<1> QED BY <1>2, <1>3 DEF BrickInv

LEMMA PhaseBricks ==
  ASSUME BrickInv, UNCHANGED <<branch, switch, live, links, queue, running, pc, req>>
  PROVE  BrickInv'
<1>1. Nics' = Nics
  BY DEF Nics
<1>2. SnifferInv' /\ SwitchInv'
  BY <1>1 DEF BrickInv, SnifferInv, SwitchInv, Others, NicsOf
<1> QED BY <1>2 DEF BrickInv, CallsInv

(* The steps of the API thread on a request, one by one.                   *)
Fits(n, next) == /\ next.trace \in TraceModes
                 /\ Cardinality(NicsOf(next.vni) \ {n}) < MaxPerVni
DelStep(n) == \E next : /\ Ready /\ next.nic = n /\ (next.adding => Fits(n, next))
                       /\ NicDel(n, next)
AddStep(n) ==
  /\ Ready /\ n \notin Nics /\ queue' = queue \o <<FwNew(n), Nothing>>
  /\ pc' = "new" /\ req'.nic = n /\ Fits(n, req')
  /\ req'.vni \in Vni /\ req'.bypass \in BOOLEAN /\ req'.trace \in BOOLEAN
  /\ UNCHANGED <<branch, switch, live, links, ports, poller>>
TraceStep(n) ==
  \E t \in BOOLEAN \cup {None}, fw, ok \in BOOLEAN, l \in PollLists(branch) :
    (Updates = {} => t = None) /\ ActionNicUpdate(n, t, FALSE, fw, ok, l)
RequestStep(n) == DelStep(n) \/ AddStep(n) \/ SgRequest(n) \/ TraceStep(n)

LEMMA RequestCases ==
  ASSUME SameTraceFiles, ApiRequest
  PROVE  \E n \in NicId : RequestStep(n)
<1>1. PICK n \in NicId :
         \/ ActionNicDel(n)
         \/ \E v \in Vni, b \in BypassModes, t \in TraceModes :
              ActionNicAdd(n, v, b, t)
         \/ SgRequest(n)
         \/ \E t \in (IF "packet_trace" \in Updates THEN BOOLEAN ELSE {}) \cup {None},
               p \in (IF "packet_trace_path" \in Updates THEN BOOLEAN ELSE {FALSE}),
               fw \in BOOLEAN, ok \in (IF MayFail THEN BOOLEAN ELSE {TRUE}),
               l \in PollLists(branch) :
              ActionNicUpdate(n, t, p, fw, ok, l)
  BY DEF ApiRequest
<1>2. CASE ActionNicDel(n)
  BY <1>2, DelRequest DEF ActionNicDel, RequestStep, DelStep
<1>3. ASSUME NEW v \in Vni, NEW b \in BypassModes, NEW t \in TraceModes,
             ActionNicAdd(n, v, b, t)
      PROVE  RequestStep(n)
  <2>1. PICK next : next = [nic |-> n, adding |-> TRUE, vni |-> v, bypass |-> b,
                            trace |-> t]
    OBVIOUS
  <2>2. next.nic = n /\ next.vni = v /\ next.bypass = b /\ next.trace = t
    BY <2>1
  <2>3. b \in BOOLEAN /\ t \in BOOLEAN
    BY GraphAssumption
  <2>4. /\ Ready /\ Fits(n, next)
        /\ \/ NicDel(n, next)
           \/ /\ n \notin Nics
              /\ queue' = queue \o <<FwNew(n), Nothing>>
              /\ pc' = "new" /\ req' = next
              /\ UNCHANGED <<branch, switch, live, links, ports, poller>>
    BY <1>3, <2>1, <2>2 DEF ActionNicAdd, Fits
  <2> QED BY <2>2, <2>3, <2>4 DEF RequestStep, DelStep, AddStep
<1>4. ASSUME NEW t \in (IF "packet_trace" \in Updates THEN BOOLEAN ELSE {}) \cup {None},
             NEW p \in (IF "packet_trace_path" \in Updates THEN BOOLEAN ELSE {FALSE}),
             NEW fw \in BOOLEAN, NEW ok \in (IF MayFail THEN BOOLEAN ELSE {TRUE}),
             NEW l \in PollLists(branch), ActionNicUpdate(n, t, p, fw, ok, l)
      PROVE  RequestStep(n)
  <2>1. p = FALSE
    BY DEF SameTraceFiles
  <2>2. t \in BOOLEAN \cup {None} /\ ok \in BOOLEAN /\ (Updates = {} => t = None)
    OBVIOUS
  <2> QED BY <1>4, <2>1, <2>2 DEF RequestStep, TraceStep
<1>5. CASE SgRequest(n)
  BY <1>5 DEF RequestStep
<1> QED BY <1>1, <1>2, <1>3, <1>4, <1>5

LEMMA BrickStep ==
  ASSUME SameTraceFiles, GraphInv, BrickInv, [Next]_vars
  PROVE  BrickInv'
<1>1. CASE ApiRequest
  <2>1. PICK n \in NicId : RequestStep(n)
    BY <1>1, RequestCases
  <2>2. CASE DelStep(n)
    BY <2>2, NicDelBricks DEF DelStep
  <2>3. CASE AddStep(n)
    BY <2>3, NicAddStartBricks DEF AddStep
  <2>4. CASE TraceStep(n)
    BY <2>4, UpdateBricks DEF TraceStep
  <2> QED BY <2>1, <2>2, <2>3, <2>4, SgRequestBricks DEF RequestStep
<1>2. CASE ApiStep
  BY <1>2, NicDelSwitchBricks, NicDelDoneBricks, NicAddDoneBricks, NicAddFailsBricks
     DEF ApiStep
<1>3. CASE PollerUpdateBegin \/ PollerUpdateEnd
  BY <1>3, PhaseBricks DEF PollerUpdateBegin, PollerUpdateEnd, api
<1>4. CASE PollerPop
  BY <1>4, PopBricks
<1>5. CASE PollerExecute
  BY <1>5, ExecuteBricks
<1>6. CASE UNCHANGED vars
  BY <1>6, PhaseBricks DEF vars
<1> QED BY <1>1, <1>2, <1>3, <1>4, <1>5, <1>6 DEF Next, PollerStep, PollerExecute

(* While no client changes a trace file, the sniffer of a traced branch is *)
(* the one its head or GraphNic::sniffer refers to, switches are those of  *)
(* vnis_, and every queued call names bricks that outlive it: what the     *)
(* handlers of graph.cc add to GraphInvariant.                             *)
THEOREM BrickInvariant ==
  ASSUME SameTraceFiles PROVE Spec => [](GraphInv /\ BrickInv)
<1>1. Init => BrickInv
  BY BrickInit
<1>2. GraphInv /\ BrickInv /\ [Next]_vars => BrickInv'
  BY BrickStep
<1> QED BY <1>1, <1>2, GraphInvariant, PTL DEF Spec

(* While no client changes a trace file, a call in Graph::queue_ never     *)
(* reaches a brick that was destroyed, whether an older BRICK_DESTROY or   *)
(* the API thread destroyed it: NicDel waits for the queue to drain before *)
(* it drops the last references.                                           *)
THEOREM GraphCallsLive ==
  ASSUME SameTraceFiles PROVE Spec => []CallsOnLiveBricks
<1>1. ASSUME GraphInv, BrickInv PROVE CallsOnLiveBricks
  <2> USE <1>1 DEF GraphInv, BrickInv
  <2>1. queue \in Seq(Rpc) /\ Len(queue) \in Nat /\ queue \in Seq(CallsWithin(live))
    BY DEF TypeOK, CallsInv
  <2>2. /\ Len(Calls) = Len(queue) + 1 /\ DOMAIN Calls = 1..Len(queue) + 1
        /\ Calls[1] = running
        /\ \A i \in 2..Len(queue) + 1 : Calls[i] = queue[i - 1]
    BY <2>1 DEF Calls
  <2>3. ASSUME NEW i \in 1..Len(queue) + 1
        PROVE  \A k \in DOMAIN Calls[i].args : Calls[i].args[k] \in live
    <3>1. Calls[i] \in CallsWithin(live) \/ Calls[i] = Idle
      <4>1. CASE i = 1
        BY <2>2, <4>1 DEF CallsInv
      <4>2. CASE i # 1
        <5>1. i \in 2..Len(queue) + 1 /\ i - 1 \in 1..Len(queue)
          BY <2>1, <4>2
        <5> QED BY <2>1, <2>2, <5>1
      <4> QED BY <4>1, <4>2
    <3>2. DOMAIN Idle.args = {}
      BY DEF Idle
    <3> QED BY <3>1, <3>2 DEF CallsWithin
  <2>4. ASSUME NEW i \in 1..Len(queue) + 1, NEW j \in 1..i - 1, NEW b,
               Calls[j] = BrickDestroy(b)
        PROVE  Calls[i] = Nothing
    <3>1. Calls[j].action = "BRICK_DESTROY" /\ i \in Nat /\ j \in Nat
      BY <2>4, CallFields
    <3>2. i = Len(queue) + 1 /\ Len(queue) > 0
      <4>1. CASE j = 1
        <5>1. Len(queue) = 1
          BY <2>2, <3>1, <4>1 DEF DestroyInv
        <5> QED BY <3>1, <4>1, <5>1
      <4>2. CASE j # 1
        <5>1. j \in 2..Len(queue) + 1 /\ j - 1 \in 1..Len(queue)
          BY <2>1, <3>1, <4>2
        <5>2. j - 1 = Len(queue) - 1
          BY <2>2, <3>1, <5>1 DEF DestroyInv
        <5> QED BY <2>1, <3>1, <4>2, <5>2
      <4> QED BY <4>1, <4>2
    <3>3. pc = "del"
      <4>1. Calls[j] \in GoodCalls
        <5>1. CASE j = 1
          BY <2>2, <3>1, <5>1, CallFields DEF ShapeInv
        <5>2. CASE j # 1
          <6>1. j \in 2..Len(queue) + 1 /\ j - 1 \in 1..Len(queue)
            BY <2>1, <3>1, <5>2
          <6> QED BY <2>2, <6>1 DEF ShapeInv
        <5> QED BY <5>1, <5>2
      <4> QED BY <3>1, <4>1 DEF GoodCalls, GoodCall
    <3>4. queue # <<>> /\ queue[Len(queue)] = Nothing
      BY <2>1, <3>2, <3>3, EmptySeq DEF BarrierInv
    <3>5. i \in 2..Len(queue) + 1 /\ i - 1 = Len(queue)
      BY <2>1, <3>2
    <3> QED BY <2>2, <3>4, <3>5
  <2>5. DOMAIN Nothing.args = {}
    BY DEF Nothing
  <2> QED BY <2>2, <2>3, <2>4, <2>5 DEF CallsOnLiveBricks
<1> QED BY <1>1, BrickInvariant, PTL

-----------------------------------------------------------------------------
(* No way around a firewall: the invariant.                                *)

(* The bricks of n behind its firewall, and calls to link to them from     *)
(* outside: the NicDel of another NIC of the VNI links the head of n to    *)
(* the vtep, and the head of a traced NIC is not its firewall.             *)
Guarded(n) == {As(n), Vhost(n)} \cup Sniffers(n)
Detour(c, n) ==
  c.action = "LINK" /\ c.args[2] \in Guarded(n) /\ c.args[1] \notin Bricks(n)

(* What calls do to the branch of a filtered NIC that stays: they cut      *)
(* nothing but its sniffer, and the edge that makes room for it.           *)
PathCall(c, n) ==
  /\ c.action = "UNLINK" /\ ~ Deleting(n) /\ c.args[1] \in Bricks(n) =>
       c.args[1] = branch[n].sniffer
  /\ c.action = "UNLINK_EDGE" => \E m \in NicId : c.args = <<As(m), Vhost(m)>>
  /\ c.action = "LINK" /\ c.args[1] = As(n) => c.args[2] \in {Vhost(n)} \cup Sniffers(n)
  /\ Detour(c, n) => /\ pc = "del_switch" /\ req.nic # n
                     /\ c.args[2] = branch[n].head
PathCalls(n) == {c \in Rpc : PathCall(c, n)}

(* After a detour nothing is linked.                                       *)
NoLinks(q, i) == \A j \in i..Len(q) : q[j].action # "LINK"
DetourOk(q, r, n) ==
  /\ Detour(r, n) => NoLinks(q, 1)
  /\ \A i \in 1..Len(q) : Detour(q[i], n) => NoLinks(q, i + 1)

(* Room is made right before a sniffer s is linked to the antispoof.       *)
RoomOk(q, r, ls, n, s) ==
  /\ r = Link(As(n), s) => <<As(n), Vhost(n)>> \notin ls
  /\ \A i \in 1..Len(q) :
       q[i] = Link(As(n), s) =>
         \/ i = 1 /\ r = UnlinkEdge(As(n), Vhost(n))
         \/ i = 1 /\ r = Idle /\ <<As(n), Vhost(n)>> \notin ls
         \/ i > 1 /\ q[i - 1] = UnlinkEdge(As(n), Vhost(n))

(* A sniffer s at the head of a branch is linked, or will be.              *)
NoUnlink(q, i, s) == \A j \in i..Len(q) : q[j] # Unlink(s)
Joined(q, r, ls, n, s) ==
  \/ West(s, ls) # {} /\ r # Unlink(s) /\ NoUnlink(q, 1, s)
  \/ r = Link(As(n), s) /\ NoUnlink(q, 1, s)
  \/ \E i \in 1..Len(q) : q[i] = Link(As(n), s) /\ NoUnlink(q, i, s)

(* The links of the branch of a filtered NIC.                              *)
WayOk(ls, n) ==
  /\ \A l \in ls : l[2] \in Guarded(n) => l[1] \in Bricks(n)
  /\ \A l \in ls : l[1] = As(n) => l[2] \in {Vhost(n)} \cup Sniffers(n)

PathOf(n) ==
  /\ WayOk(links, n)
  /\ ~ Deleting(n) => <<Fw(n), As(n)>> \in links
  /\ branch[n].head # Vhost(n)
  /\ queue \in Seq(PathCalls(n)) /\ running \in PathCalls(n) \cup {Idle}
  /\ DetourOk(queue, running, n)
  /\ \A s \in Sniffers(n) : RoomOk(queue, running, links, n, s)
  /\ ~ Deleting(n) /\ branch[n].head \in Sniffers(n) =>
       Joined(queue, running, links, n, branch[n].head)

PathInv == \A n \in Nics : ~ branch[n].bypass => PathOf(n)

-----------------------------------------------------------------------------
(* Sequences of calls, popped and pushed.                                  *)

LEMMA DetourPop ==
  ASSUME NEW q \in Seq(Rpc), q # <<>>, NEW n, DetourOk(q, Idle, n)
  PROVE  DetourOk(Tail(q), Head(q), n)
<1>1. PICK k \in Nat : k = Len(q) /\ k > 0
  BY TailFacts
<1>2. /\ Len(Tail(q)) = k - 1 /\ Head(q) = q[1]
      /\ \A i \in 1..k - 1 : Tail(q)[i] = q[i + 1]
  BY <1>1, TailFacts
<1>3. ASSUME NEW i \in 1..k, Detour(q[i], n)
      PROVE  \A j \in i..k - 1 : Tail(q)[j].action # "LINK"
  BY <1>1, <1>2, <1>3 DEF DetourOk, NoLinks
<1>4. Detour(Head(q), n) => NoLinks(Tail(q), 1)
  BY <1>1, <1>2, <1>3 DEF NoLinks
<1>5. ASSUME NEW i \in 1..k - 1, Detour(Tail(q)[i], n)
      PROVE  NoLinks(Tail(q), i + 1)
  BY <1>1, <1>2, <1>3, <1>5 DEF NoLinks
<1> QED BY <1>2, <1>4, <1>5 DEF DetourOk

LEMMA RoomPop ==
  ASSUME NEW q \in Seq(Rpc), q # <<>>, NEW n, NEW s, NEW ls, RoomOk(q, Idle, ls, n, s)
  PROVE  RoomOk(Tail(q), Head(q), ls, n, s)
<1>1. PICK k \in Nat : k = Len(q) /\ k > 0
  BY TailFacts
<1>2. /\ Len(Tail(q)) = k - 1 /\ Head(q) = q[1]
      /\ \A i \in 1..k - 1 : Tail(q)[i] = q[i + 1]
  BY <1>1, TailFacts
<1>0. Idle # UnlinkEdge(As(n), Vhost(n))
  BY CallFields
<1>3. q[1] = Link(As(n), s) => <<As(n), Vhost(n)>> \notin ls
  BY <1>0, <1>1 DEF RoomOk
<1>4. ASSUME NEW i \in 1..k - 1, Tail(q)[i] = Link(As(n), s)
      PROVE  \/ i = 1 /\ q[1] = UnlinkEdge(As(n), Vhost(n))
             \/ i > 1 /\ Tail(q)[i - 1] = UnlinkEdge(As(n), Vhost(n))
  <2>1. i + 1 \in 1..k /\ q[i + 1] = Link(As(n), s) /\ i + 1 > 1 /\ (i + 1) - 1 = i
    BY <1>1, <1>2, <1>4
  <2>2. q[i] = UnlinkEdge(As(n), Vhost(n))
    <3>1. q[(i + 1) - 1] = UnlinkEdge(As(n), Vhost(n))
      BY <1>1, <2>1 DEF RoomOk
    <3> QED BY <2>1, <3>1
  <2>3. CASE i = 1
    BY <2>2, <2>3
  <2>4. CASE i > 1
    <3>1. i - 1 \in 1..k - 1 /\ (i - 1) + 1 = i
      BY <1>1, <2>4
    <3> QED BY <1>2, <2>2, <2>4, <3>1
  <2> QED BY <1>1, <2>3, <2>4
<1> QED BY <1>2, <1>3, <1>4 DEF RoomOk

LEMMA JoinedPop ==
  ASSUME NEW q \in Seq(Rpc), q # <<>>, NEW n, NEW s, NEW ls, Joined(q, Idle, ls, n, s)
  PROVE  Joined(Tail(q), Head(q), ls, n, s)
<1>1. PICK k \in Nat : k = Len(q) /\ k > 0
  BY TailFacts
<1>2. /\ Len(Tail(q)) = k - 1 /\ Head(q) = q[1]
      /\ \A i \in 1..k - 1 : Tail(q)[i] = q[i + 1]
  BY <1>1, TailFacts
<1>3. ASSUME NEW i \in 1..k, NoUnlink(q, i, s)
      PROVE  NoUnlink(Tail(q), i, s) /\ (i > 1 => NoUnlink(Tail(q), i - 1, s))
  BY <1>1, <1>2, <1>3 DEF NoUnlink
<1>4. Idle # Link(As(n), s) /\ 1 \in 1..k
  BY <1>1, CallFields
<1>5. CASE West(s, ls) # {} /\ NoUnlink(q, 1, s)
  BY <1>1, <1>2, <1>3, <1>4, <1>5 DEF Joined, NoUnlink
<1>6. ASSUME NEW i \in 1..k, q[i] = Link(As(n), s), NoUnlink(q, i, s)
      PROVE  Joined(Tail(q), Head(q), ls, n, s)
  <2>1. CASE i = 1
    BY <1>2, <1>3, <1>6, <2>1 DEF Joined
  <2>2. CASE i > 1
    <3>1. i - 1 \in 1..k - 1 /\ Tail(q)[i - 1] = q[i]
      BY <1>1, <1>2, <2>2
    <3> QED BY <1>2, <1>3, <1>6, <2>2, <3>1 DEF Joined
  <2> QED BY <2>1, <2>2
<1> QED BY <1>1, <1>4, <1>5, <1>6 DEF Joined

(* A link to a sniffer among calls d has its room made by the call before. *)
Led(d, n, s) ==
  \A i \in 1..Len(d) :
    d[i] = Link(As(n), s) => i > 1 /\ d[i - 1] = UnlinkEdge(As(n), Vhost(n))

LEMMA RoomPush ==
  ASSUME NEW q \in Seq(Rpc), NEW d \in Seq(Rpc), NEW r, NEW n, NEW s,
         NEW ls, NEW lt, <<As(n), Vhost(n)>> \in lt => <<As(n), Vhost(n)>> \in ls,
         RoomOk(q, r, ls, n, s), Led(d, n, s)
  PROVE  RoomOk(q \o d, r, lt, n, s)
<1> DEFINE p == q \o d
           u == UnlinkEdge(As(n), Vhost(n))
<1>1. PICK k \in Nat, m \in Nat : k = Len(q) /\ m = Len(d)
  OBVIOUS
<1>2. /\ Len(p) = k + m /\ \A i \in 1..k : p[i] = q[i]
      /\ \A i \in 1..m : p[k + i] = d[i]
  BY <1>1, PushFacts
<1>3. ASSUME NEW i \in 1..k + m, p[i] = Link(As(n), s)
      PROVE  \/ i = 1 /\ r = u
             \/ i = 1 /\ r = Idle /\ <<As(n), Vhost(n)>> \notin lt
             \/ i > 1 /\ p[i - 1] = u
  <2> HIDE DEF p, u
  <2>1. CASE i <= k
    <3>1. i \in 1..k /\ q[i] = Link(As(n), s)
      BY <1>1, <1>2, <1>3, <2>1
    <3>2. i > 1 => i - 1 \in 1..k /\ p[i - 1] = q[i - 1]
      BY <1>1, <1>2, <3>1
    <3> QED BY <1>1, <3>1, <3>2 DEF RoomOk, u
  <2>2. CASE i > k
    <3>1. PICK j \in 1..m : i = k + j
      <4>1. i - k \in 1..m /\ i = k + (i - k)
        BY <1>1, <2>2
      <4> QED BY <4>1
    <3>2. d[j] = Link(As(n), s)
      BY <1>2, <1>3, <3>1
    <3>3. j > 1 /\ d[j - 1] = u
      BY <1>1, <3>2 DEF Led, u
    <3>4. j - 1 \in 1..m /\ k + (j - 1) = i - 1 /\ i > 1
      BY <1>1, <3>1, <3>3
    <3> QED BY <1>2, <3>3, <3>4
  <2> QED BY <1>1, <2>1, <2>2
<1> QED BY <1>2, <1>3 DEF RoomOk

LEMMA JoinedPush ==
  ASSUME NEW q \in Seq(Rpc), NEW d \in Seq(Rpc), NEW r, NEW n, NEW s,
         NEW ls, NEW lt, West(s, ls) # {} => West(s, lt) # {},
         Joined(q, r, ls, n, s), NoUnlink(d, 1, s)
  PROVE  Joined(q \o d, r, lt, n, s)
<1> DEFINE p == q \o d
<1>1. PICK k \in Nat, m \in Nat : k = Len(q) /\ m = Len(d)
  OBVIOUS
<1>2. /\ Len(p) = k + m /\ \A i \in 1..k : p[i] = q[i]
      /\ \A i \in 1..m : p[k + i] = d[i]
  BY <1>1, PushFacts
<1> HIDE DEF p
<1>3. ASSUME NEW i \in Nat, i > 0, NoUnlink(q, i, s)
      PROVE  NoUnlink(p, i, s)
  <2>1. ASSUME NEW j \in i..k + m PROVE p[j] # Unlink(s)
    <3>1. CASE j <= k
      BY <1>1, <1>2, <1>3, <2>1, <3>1 DEF NoUnlink
    <3>2. CASE j > k
      <4>1. j - k \in 1..m /\ k + (j - k) = j
        BY <1>1, <1>3, <2>1, <3>2
      <4>2. p[j] = d[j - k]
        BY <1>2, <4>1
      <4> QED BY <1>1, <4>1, <4>2 DEF NoUnlink
    <3> QED BY <1>1, <1>3, <2>1, <3>1, <3>2
  <2> QED BY <1>2, <2>1 DEF NoUnlink
<1>4. \A i \in 1..k : i \in 1..k + m /\ i \in Nat /\ i > 0
  BY <1>1
<1>5. Joined(p, r, lt, n, s)
  BY <1>1, <1>2, <1>3, <1>4 DEF Joined
<1> QED BY <1>5 DEF p

(* The link of a sniffer among the calls pushed.                           *)
LEMMA JoinedNew ==
  ASSUME NEW q \in Seq(Rpc), NEW d \in Seq(Rpc), NEW r, NEW n, NEW s, NEW ls,
         NEW i \in 1..Len(d), d[i] = Link(As(n), s), NoUnlink(d, 1, s)
  PROVE  Joined(q \o d, r, ls, n, s)
<1> DEFINE p == q \o d
<1>1. PICK k \in Nat, m \in Nat : k = Len(q) /\ m = Len(d)
  OBVIOUS
<1>2. Len(p) = k + m /\ \A j \in 1..m : p[k + j] = d[j]
  BY <1>1, PushFacts
<1> HIDE DEF p
<1>3. k + i \in 1..k + m /\ p[k + i] = Link(As(n), s)
  BY <1>1, <1>2
<1>4. ASSUME NEW j \in k + i..k + m PROVE p[j] # Unlink(s)
  <2>1. j - k \in 1..m /\ k + (j - k) = j
    BY <1>1
  <2>2. p[j] = d[j - k]
    BY <1>2, <2>1
  <2> QED BY <1>1, <2>1, <2>2 DEF NoUnlink
<1>5. NoUnlink(p, k + i, s)
  BY <1>2, <1>4 DEF NoUnlink
<1>6. Joined(p, r, ls, n, s)
  BY <1>2, <1>3, <1>5 DEF Joined
<1> QED BY <1>6 DEF p

-----------------------------------------------------------------------------
(* The poller keeps PathInv.                                               *)

LEMMA PathCallsSame ==
  ASSUME NEW n, branch' = branch, pc' = pc, req' = req
  PROVE  PathCalls(n)' = PathCalls(n) /\ (Deleting(n)' <=> Deleting(n))
BY DEF PathCalls, PathCall, Deleting

LEMMA PopPath ==
  ASSUME GraphInv, NEW n, PathOf(n), PollerPop
  PROVE  PathOf(n)'
<1>1. /\ running = Idle /\ queue # <<>> /\ queue \in Seq(Rpc)
      /\ running' = Head(queue) /\ queue' = Tail(queue)
      /\ branch' = branch /\ links' = links /\ pc' = pc /\ req' = req
  BY DEF PollerPop, api, GraphInv, TypeOK
<1>2. PathCalls(n)' = PathCalls(n) /\ (Deleting(n)' <=> Deleting(n))
  BY <1>1, PathCallsSame
<1>3. queue \in Seq(PathCalls(n))
  BY DEF PathOf
<1>4. Head(queue) \in PathCalls(n) /\ Tail(queue) \in Seq(PathCalls(n))
  BY <1>1, <1>3
<1>5. DetourOk(queue', running', n)
  BY <1>1, DetourPop DEF PathOf
<1>6. \A s \in Sniffers(n) : RoomOk(queue', running', links', n, s)
  BY <1>1, RoomPop DEF PathOf
<1>7. ~ Deleting(n) /\ branch[n].head \in Sniffers(n) =>
        Joined(queue', running', links', n, branch[n].head)
  BY <1>1, JoinedPop DEF PathOf
<1> QED BY <1>1, <1>2, <1>4, <1>5, <1>6, <1>7 DEF PathOf

(* Calls other than UNLINK and BRICK_DESTROY.                              *)
LEMMA ExecuteLinks ==
  ASSUME TypeOK, PollerExecute
  PROVE  /\ links' \subseteq links \cup {<<running.args[1], running.args[2]>>}
         /\ running.action # "LINK" => links' \subseteq links
         /\ links' # links => running.action \in {"LINK", "UNLINK", "UNLINK_EDGE",
                                                  "BRICK_DESTROY"}
         /\ \A l \in links \ links' :
              \/ running.action \in {"UNLINK", "BRICK_DESTROY"}
                   /\ running.args[1] \in {l[1], l[2]}
              \/ running.action = "UNLINK_EDGE" /\ l = running.args
         /\ \A l \in links' \ links :
              /\ running.action = "LINK"
              /\ CanLink(running.args[1], running.args[2], links)
              /\ l = <<running.args[1], running.args[2]>>
BY ExecuteCases DEF Without, BrickLink

(* The links inside the branch of a filtered NIC that stays.               *)
LEMMA InsideStays ==
  ASSUME GraphInv, NEW n \in Nics, ~ Deleting(n), PathOf(n), PollerExecute,
         NEW l \in links, l[1] \in Bricks(n), l[2] \in Bricks(n), l \notin links'
  PROVE  \/ running.action = "UNLINK" /\ branch[n].sniffer \in {l[1], l[2]}
            /\ running.args[1] = branch[n].sniffer
         \/ l = <<As(n), Vhost(n)>>
<1> USE DEF GraphInv
<1>1. running \in Rpc /\ PathCall(running, n) /\ GoodCall(running)
  <2>1. Idle \notin Rpc
    BY CallCases, CallFields
  <2> QED BY <2>1, ExecuteCases DEF PathOf, PathCalls, ShapeInv, GoodCalls
<1>2. CASE running.action = "UNLINK"
  BY <1>1, <1>2, ExecuteLinks DEF PathCall
<1>3. CASE running.action = "BRICK_DESTROY"
  <2>1. pc = "del" /\ running.args[1] = Fw(req.nic) /\ req.nic # n
    BY <1>1, <1>3 DEF GoodCall, Deleting
  <2>2. Fw(req.nic) \in Bricks(n)
    BY <1>3, <2>1, ExecuteLinks
  <2>3. Fw(req.nic)[2] = req.nic
    BY DEF Fw
  <2> QED BY <2>1, <2>2, <2>3, OwnBrick
<1>4. CASE running.action \notin {"UNLINK", "BRICK_DESTROY"}
  <2>1. running.action = "UNLINK_EDGE" /\ l = running.args
    BY <1>4, ExecuteLinks
  <2>2. PICK m \in NicId : l = <<As(m), Vhost(m)>>
    BY <1>1, <2>1 DEF PathCall
  <2>3. As(m) \in Bricks(n) /\ As(m)[2] = m
    BY <2>2 DEF As
  <2> QED BY <2>2, <2>3, OwnBrick
<1> QED BY <1>2, <1>3, <1>4

(* A detour is refused: its brick has something on its west side.          *)
LEMMA DetourRefused ==
  ASSUME GraphInv, SnifferInv, NEW n \in Nics, PathOf(n), PollerExecute,
         Detour(running, n)
  PROVE  ~ CanLink(running.args[1], running.args[2], links)
<1> USE DEF GraphInv
<1>1. /\ running \in Rpc /\ PathCall(running, n) /\ running.action = "LINK"
  <2>1. Idle \notin Rpc
    BY CallCases, CallFields
  <2> QED BY <2>1, ExecuteCases DEF PathOf, PathCalls, Detour
<1>2. /\ running.args[2] = branch[n].head /\ branch[n].head \in Guarded(n)
      /\ ~ Deleting(n) /\ running.args[1] \notin Bricks(n)
  BY <1>1 DEF PathCall, Deleting, Detour
<1>3. branch[n].head = As(n) \/ branch[n].head \in Sniffers(n)
  BY <1>2 DEF PathOf, Guarded
<1>4. West(branch[n].head, links) # {}
  <2>1. CASE branch[n].head = As(n)
    <3>1. <<Fw(n), As(n)>> \in links
      BY <1>2 DEF PathOf
    <3> QED BY <2>1, <3>1 DEF West
  <2>2. CASE branch[n].head \in Sniffers(n)
    <3>1. Joined(queue, running, links, n, branch[n].head) /\ NoLinks(queue, 1)
      BY <1>2, <2>2 DEF PathOf, DetourOk
    <3>2. running # Link(As(n), branch[n].head)
      <4>1. As(n) \in Bricks(n)
        BY DEF Bricks
      <4> QED BY <1>2, <4>1, CallFields
    <3>3. \A i \in 1..Len(queue) : queue[i] # Link(As(n), branch[n].head)
      BY <3>1, CallFields DEF NoLinks
    <3> QED BY <3>1, <3>2, <3>3 DEF Joined
  <2> QED BY <1>3, <2>1, <2>2
<1> QED BY <1>2, <1>4 DEF CanLink

(* Once its link is executed a sniffer has something on its west side.     *)
LEMMA SnifferLinked ==
  ASSUME GraphInv, SnifferInv, CallsInv, NEW n \in Nics, PathOf(n), PollerExecute,
         NEW s \in Sniffers(n), running = Link(As(n), s)
  PROVE  West(s, links') # {}
<1>1. running.action = "LINK" /\ running.args[1] = As(n) /\ running.args[2] = s
  BY CallFields
<1>2. links' = BrickLink(As(n), s, links)
  BY <1>1, ExecuteCases DEF GraphInv
<1>3. <<As(n), Vhost(n)>> \notin links
  BY DEF PathOf, RoomOk
<1>4. s \in live
  <2>1. running.args = <<As(n), s>> /\ 2 \in DOMAIN <<As(n), s>>
    BY DEF Link
  <2>2. running \in CallsWithin(live)
    BY <1>1, CallFields DEF CallsInv
  <2> QED BY <2>1, <2>2 DEF CallsWithin
<1>5. East(As(n), links) \subseteq {<<As(n), s>>}
  <2>1. ASSUME NEW l \in links, l[1] = As(n)
        PROVE  l = <<As(n), s>>
    <3>1. l \in live \X live /\ l[2] \in {Vhost(n)} \cup Sniffers(n)
      BY <2>1 DEF CallsInv, PathOf, WayOk
    <3>2. l = <<As(n), l[2]>>
      BY <2>1, <3>1
    <3>3. l[2] \in Sniffers(n) /\ l[2] \in live
      BY <1>3, <3>1, <3>2
    <3>4. Sniffers(n) \cap live \subseteq {branch[n].sniffer}
      BY DEF SnifferInv
    <3> QED BY <1>4, <3>2, <3>3, <3>4
  <2> QED BY <2>1 DEF East
<1>6. CASE East(As(n), links) = {} /\ West(s, links) = {}
  <2>1. Cardinality(East(As(n), links)) = 0
    BY <1>6, FS_EmptySet
  <2>2. As(n)[1] # "vtep" /\ As(n)[1] # "switch"
    BY DEF As
  <2>3. CanLink(As(n), s, links)
    BY <1>6, <2>1, <2>2 DEF CanLink
  <2>4. <<As(n), s>> \in links'
    BY <1>2, <2>3 DEF BrickLink
  <2> QED BY <2>4 DEF West
<1>7. CASE West(s, links) # {}
  BY <1>2, <1>7 DEF BrickLink, West
<1>8. CASE East(As(n), links) # {}
  <2>1. <<As(n), s>> \in links
    BY <1>5, <1>8 DEF East
  <2> QED BY <1>2, <2>1 DEF BrickLink, West
<1> QED BY <1>6, <1>7, <1>8

LEMMA ExecutePath ==
  ASSUME GraphInv, SnifferInv, CallsInv, NEW n \in Nics, PathOf(n), PollerExecute
  PROVE  PathOf(n)'
<1> USE DEF GraphInv
<1>1. /\ running \in Rpc /\ running # Idle /\ PathCall(running, n)
      /\ running' = Idle /\ queue' = queue /\ branch' = branch
      /\ pc' = pc /\ req' = req
  <2>1. Idle \notin Rpc
    BY CallCases, CallFields
  <2> QED BY <2>1, ExecuteCases, ExecutedFrame DEF PathOf, PathCalls
<1>2. PathCalls(n)' = PathCalls(n) /\ (Deleting(n)' <=> Deleting(n))
  BY <1>1, PathCallsSame
<1>3. WayOk(links', n)
  <2>1. ASSUME NEW l \in links', l \notin links
        PROVE  /\ l[2] \in Guarded(n) => l[1] \in Bricks(n)
               /\ l[1] = As(n) => l[2] \in {Vhost(n)} \cup Sniffers(n)
    <3>1. /\ running.action = "LINK" /\ l[1] = running.args[1] /\ l[2] = running.args[2]
          /\ CanLink(running.args[1], running.args[2], links)
      BY <2>1, ExecuteLinks
    <3>2. ~ Detour(running, n)
      BY <3>1, DetourRefused
    <3> QED BY <1>1, <3>1, <3>2 DEF Detour, PathCall
  <2> QED BY <2>1 DEF WayOk, PathOf
<1>4. ASSUME ~ Deleting(n) PROVE <<Fw(n), As(n)>> \in links'
  <2>1. <<Fw(n), As(n)>> \in links
    BY <1>4 DEF PathOf
  <2>2. Fw(n) \in Bricks(n) /\ As(n) \in Bricks(n)
    BY DEF Bricks
  <2>3. branch[n].sniffer \notin {Fw(n), As(n)}
    <3>1. branch[n].sniffer \in Sniffers(n) \cup {None}
      BY DEF ReqInv
    <3>2. None # Fw(n) /\ None # As(n)
      BY <2>2, NullAssumption DEF Nics, Brick
    <3> QED BY <3>1, <3>2, NicBricksDiffer
  <2>4. <<Fw(n), As(n)>> # <<As(n), Vhost(n)>>
    BY NicBricksDiffer
  <2> QED BY <1>4, <2>1, <2>2, <2>3, <2>4, InsideStays
<1>5. DetourOk(queue', running', n)
  BY <1>1, CallFields DEF PathOf, DetourOk, Detour
<1>6. ASSUME NEW s \in Sniffers(n) PROVE RoomOk(queue', running', links', n, s)
  <2>1. Idle # Link(As(n), s)
    BY CallFields
  <2>2. RoomOk(queue, running, links, n, s)
    BY DEF PathOf
  <2>3. ASSUME running = UnlinkEdge(As(n), Vhost(n))
        PROVE  <<As(n), Vhost(n)>> \notin links'
    <3>1. running.action = "UNLINK_EDGE" /\ running.args = <<As(n), Vhost(n)>>
      BY <2>3 DEF UnlinkEdge
    <3>2. links' = links \ {running.args}
      BY <3>1, ExecuteCases
    <3> QED BY <3>1, <3>2
  <2>4. ASSUME NEW i \in 1..Len(queue), queue[i] = Link(As(n), s)
        PROVE  \/ i = 1 /\ <<As(n), Vhost(n)>> \notin links'
               \/ i > 1 /\ queue[i - 1] = UnlinkEdge(As(n), Vhost(n))
    BY <1>1, <2>2, <2>3, <2>4 DEF RoomOk
  <2> QED BY <1>1, <2>1, <2>4 DEF RoomOk
<1>7. ASSUME ~ Deleting(n), branch[n].head \in Sniffers(n)
      PROVE  Joined(queue', running', links', n, branch[n].head)
  <2>1. PICK s \in Sniffers(n) : s = branch[n].head /\ s = branch[n].sniffer
    BY <1>7 DEF SnifferInv
  <2>2. Joined(queue, running, links, n, s)
    BY <1>7, <2>1 DEF PathOf
  <2>3. Idle # Unlink(s)
    BY CallFields
  <2>4. CASE West(s, links) # {} /\ running # Unlink(s) /\ NoUnlink(queue, 1, s)
    <3>1. PICK l \in links : l[2] = s
      BY <2>4 DEF West
    <3>2. l[1] \in Bricks(n) /\ l[2] \in Bricks(n)
      BY <3>1 DEF PathOf, WayOk, Guarded, Bricks
    <3>3. l \in links'
      <4>1. ~ (running.action = "UNLINK" /\ running.args[1] = s)
        <5>1. ASSUME running.action = "UNLINK", running.args[1] = s
              PROVE  running = Unlink(s)
          BY <1>1, <5>1 DEF Rpc, Link, Unlink, UnlinkEdge, AddVni, FwReload, FwNew,
             BrickDestroy, UpdatePoll, Nothing
        <5> QED BY <2>4, <5>1
      <4>2. l # <<As(n), Vhost(n)>>
        BY <3>1, NicBricksDiffer
      <4> QED BY <1>7, <2>1, <3>1, <3>2, <4>1, <4>2, InsideStays
    <3>4. West(s, links') # {}
      BY <3>1, <3>3 DEF West
    <3> QED BY <1>1, <2>1, <2>3, <2>4, <3>4 DEF Joined
  <2>5. CASE running = Link(As(n), s) /\ NoUnlink(queue, 1, s)
    <3>1. West(s, links') # {}
      BY <2>5, SnifferLinked
    <3> QED BY <1>1, <2>1, <2>3, <2>5, <3>1 DEF Joined
  <2>6. CASE \E i \in 1..Len(queue) :
               queue[i] = Link(As(n), s) /\ NoUnlink(queue, i, s)
    BY <1>1, <2>1, <2>6 DEF Joined
  <2> QED BY <2>2, <2>4, <2>5, <2>6 DEF Joined
<1>8. branch[n].head # Vhost(n) /\ queue \in Seq(PathCalls(n))
  BY DEF PathOf
<1> QED BY <1>1, <1>2, <1>3, <1>4, <1>5, <1>6, <1>7, <1>8 DEF PathOf

-----------------------------------------------------------------------------
(* The API thread keeps PathInv.                                           *)

(* Calls that leave the branch of n as it is.                              *)
Elsewhere(n) ==
  {c \in Rpc :
     /\ c.action = "UNLINK" => c.args[1] \notin Bricks(n)
     /\ c.action = "UNLINK_EDGE" => \E m \in NicId : c.args = <<As(m), Vhost(m)>>
     /\ c.action = "LINK" => c.args[1] # As(n)
     /\ ~ Detour(c, n)}

(* While no NIC of the two of a VNI is deleted there are no detours.       *)
LEMMA NoDetours ==
  ASSUME NEW n, PathOf(n),
         pc # "del_switch" \/ (queue = <<>> /\ running \in {Nothing, Idle})
  PROVE  /\ \A i \in 1..Len(queue) : ~ Detour(queue[i], n)
         /\ ~ Detour(running, n)
<1>1. CASE pc # "del_switch"
  <2>1. /\ \A i \in 1..Len(queue) : queue[i] \in PathCalls(n)
        /\ running \in PathCalls(n) \cup {Idle}
    BY DEF PathOf
  <2> QED BY <1>1, <2>1, CallFields DEF PathCalls, PathCall, Detour
<1>2. CASE queue = <<>> /\ running \in {Nothing, Idle}
  BY <1>2, CallFields DEF Detour
<1> QED BY <1>1, <1>2

(* What calls may do in a state without detours holds on as long as the    *)
(* NIC has the same sniffer, or gets its first one.                        *)
LEMMA PathCallsKeep ==
  ASSUME NEW n, n \in NicId, NEW c \in PathCalls(n), ~ Detour(c, n),
         branch[n].sniffer \in {branch'[n].sniffer, None},
         Deleting(n) => Deleting(n)'
  PROVE  c \in PathCalls(n)'
<1>1. None \notin Bricks(n)
  BY NullAssumption DEF Brick
<1> QED BY <1>1 DEF PathCalls, PathCall, Detour

LEMMA ElsewhereCalls ==
  ASSUME NEW n, NEW s
  PROVE  /\ Elsewhere(n) \subseteq Rpc /\ Elsewhere(n) \subseteq PathCalls(n)'
         /\ Link(As(n), s) \notin Elsewhere(n)
         /\ s \in Sniffers(n) => Unlink(s) \notin Elsewhere(n)
         /\ \A c \in Elsewhere(n) : ~ Detour(c, n)
<1>1. Link(As(n), s) \notin Elsewhere(n)
  BY CallFields DEF Elsewhere
<1>2. s \in Sniffers(n) => Unlink(s) \notin Elsewhere(n)
  <2>1. Unlink(s).args[1] = s /\ Unlink(s).action = "UNLINK"
    BY DEF Unlink
  <2> QED BY <2>1 DEF Elsewhere, Bricks
<1>3. Elsewhere(n) \subseteq PathCalls(n)'
  BY DEF Elsewhere, PathCalls, PathCall, Detour
<1> QED BY <1>1, <1>2, <1>3 DEF Elsewhere

(* The calls of the queue and d, without detours.                          *)
LEMMA PushCalls ==
  ASSUME TypeOK, NEW n \in NicId, PathOf(n), NEW d \in Seq(PathCalls(n)'),
         pc # "del_switch" \/ (queue = <<>> /\ running \in {Nothing, Idle}),
         queue' = queue \o d, running' = running,
         branch[n].sniffer \in {branch'[n].sniffer, None},
         Deleting(n) => Deleting(n)'
  PROVE  /\ queue' \in Seq(PathCalls(n)')
         /\ running' \in PathCalls(n)' \cup {Idle}
<1>1. /\ \A i \in 1..Len(queue) : ~ Detour(queue[i], n)
      /\ ~ Detour(running, n)
  BY NoDetours
<1>2. queue \in Seq(PathCalls(n)) /\ running \in PathCalls(n) \cup {Idle}
  BY DEF PathOf
<1>3. \A i \in 1..Len(queue) : queue[i] \in PathCalls(n)'
  BY <1>1, <1>2, PathCallsKeep
<1>4. queue \in Seq(PathCalls(n)')
  BY <1>2, <1>3
<1>5. running \in PathCalls(n)' \cup {Idle}
  BY <1>1, <1>2, PathCallsKeep
<1> QED BY <1>4, <1>5, SeqJoin

(* Links that are made elsewhere, and links of the branch that stay.       *)
SameWay(n) ==
  /\ \A l \in links' \ links : l[1] \notin Bricks(n) /\ l[2] \notin Bricks(n)
  /\ \A l \in links : l[1] \in Bricks(n) /\ l[2] \in Bricks(n) => l \in links'

LEMMA SameWayFacts ==
  ASSUME NEW n, PathOf(n), SameWay(n)
  PROVE  /\ WayOk(links', n)
         /\ <<Fw(n), As(n)>> \in links => <<Fw(n), As(n)>> \in links'
         /\ <<As(n), Vhost(n)>> \in links' => <<As(n), Vhost(n)>> \in links
         /\ \A s \in Sniffers(n) : West(s, links) # {} => West(s, links') # {}
<1>1. {Fw(n), As(n), Vhost(n)} \subseteq Bricks(n) /\ Guarded(n) \subseteq Bricks(n)
  BY DEF Bricks, Guarded
<1>2. WayOk(links', n)
  BY <1>1 DEF SameWay, WayOk, PathOf
<1>3. ASSUME NEW s \in Sniffers(n), NEW l \in West(s, links)
      PROVE  West(s, links') # {}
  <2>1. l \in links /\ l[2] = s /\ s \in Guarded(n)
    BY <1>3 DEF West, Guarded
  <2>2. l[1] \in Bricks(n)
    BY <2>1 DEF PathOf, WayOk
  <2>3. l \in links'
    BY <1>1, <2>1, <2>2 DEF SameWay
  <2> QED BY <2>1, <2>3 DEF West
<1>4. <<Fw(n), As(n)>> \in links => <<Fw(n), As(n)>> \in links'
  BY <1>1 DEF SameWay
<1>5. <<As(n), Vhost(n)>> \in links' => <<As(n), Vhost(n)>> \in links
  BY <1>1 DEF SameWay
<1> QED BY <1>2, <1>3, <1>4, <1>5

(* A step that leaves the branch of n alone and pushes calls d.            *)
LEMMA PushPath ==
  ASSUME TypeOK, NEW n \in NicId, PathOf(n), NEW d \in Seq(Elsewhere(n)),
         pc # "del_switch" \/ (queue = <<>> /\ running \in {Nothing, Idle}),
         queue' = queue \o d, running' = running, SameWay(n),
         branch'[n].head = branch[n].head,
         branch'[n].sniffer = branch[n].sniffer,
         Deleting(n) => Deleting(n)'
  PROVE  PathOf(n)'
<1>1. /\ queue \in Seq(Rpc) /\ d \in Seq(Rpc) /\ d \in Seq(PathCalls(n)')
  BY ElsewhereCalls, SeqMonotone DEF TypeOK
<1>2. /\ queue' \in Seq(PathCalls(n)')
      /\ running' \in PathCalls(n)' \cup {Idle}
  BY <1>1, PushCalls
<1>3. DetourOk(queue', running', n)
  <2>1. /\ \A i \in 1..Len(queue) : ~ Detour(queue[i], n)
        /\ ~ Detour(running, n)
    BY NoDetours
  <2>2. \A i \in 1..Len(d) : ~ Detour(d[i], n)
    BY DEF Elsewhere
  <2>3. \A i \in 1..Len(queue \o d) : ~ Detour((queue \o d)[i], n)
    <3> DEFINE p == queue \o d
    <3>1. PICK k \in Nat, m \in Nat : k = Len(queue) /\ m = Len(d)
      BY <1>1
    <3>2. /\ Len(p) = k + m /\ \A i \in 1..k : p[i] = queue[i]
          /\ \A i \in 1..m : p[k + i] = d[i]
      BY <1>1, <3>1, PushFacts
    <3> HIDE DEF p
    <3>3. ASSUME NEW i \in 1..k + m PROVE ~ Detour(p[i], n)
      <4>1. CASE i <= k
        BY <2>1, <3>1, <3>2, <4>1
      <4>2. CASE i > k
        <5>1. i - k \in 1..m /\ k + (i - k) = i
          BY <3>1, <4>2
        <5>2. p[i] = d[i - k]
          BY <3>2, <5>1
        <5> QED BY <2>2, <3>1, <5>1, <5>2
      <4> QED BY <3>1, <4>1, <4>2
    <3>4. \A i \in 1..Len(p) : ~ Detour(p[i], n)
      BY <3>2, <3>3
    <3> QED BY <3>4 DEF p
  <2> QED BY <2>1, <2>3 DEF DetourOk
<1>4. ASSUME NEW s \in Sniffers(n) PROVE RoomOk(queue', running', links', n, s)
  <2>1. RoomOk(queue, running, links, n, s)
    BY DEF PathOf
  <2>2. Led(d, n, s)
    BY ElsewhereCalls DEF Led
  <2> QED BY <1>1, <2>1, <2>2, SameWayFacts, RoomPush
<1>5. ASSUME ~ Deleting(n)', branch'[n].head \in Sniffers(n)
      PROVE  Joined(queue', running', links', n, branch'[n].head)
  <2>1. PICK s \in Sniffers(n) : s = branch[n].head
    BY <1>5
  <2>2. Joined(queue, running, links, n, s)
    BY <1>5, <2>1 DEF PathOf
  <2>3. NoUnlink(d, 1, s)
    BY <2>1, ElsewhereCalls DEF NoUnlink
  <2>4. West(s, links) # {} => West(s, links') # {}
    BY SameWayFacts
  <2> QED BY <1>1, <2>1, <2>2, <2>3, <2>4, JoinedPush
<1>6. /\ WayOk(links', n) /\ branch'[n].head # Vhost(n)
      /\ ~ Deleting(n)' => <<Fw(n), As(n)>> \in links'
  BY SameWayFacts DEF PathOf
<1> QED BY <1>2, <1>3, <1>4, <1>5, <1>6 DEF PathOf

LEMMA ElsewhereTypes ==
  ASSUME NEW n, NEW b \in Brick, NEW v \in Vni, NEW m \in NicId, NEW s \in SUBSET NicId
  PROVE  /\ UpdatePoll(s) \in Elsewhere(n) /\ Nothing \in Elsewhere(n)
         /\ FwNew(m) \in Elsewhere(n) /\ FwReload(b) \in Elsewhere(n)
         /\ BrickDestroy(b) \in Elsewhere(n) /\ AddVni(b, v) \in Elsewhere(n)
         /\ b \notin Bricks(n) => Unlink(b) \in Elsewhere(n)
         /\ UnlinkEdge(As(m), Vhost(m)) \in Elsewhere(n)
<1>1. Unlink(b).args[1] = b /\ UnlinkEdge(As(m), Vhost(m)).args = <<As(m), Vhost(m)>>
  BY DEF Unlink, UnlinkEdge
<1>2. As(m) \in Brick /\ Vhost(m) \in Brick
  BY DEF Brick, Bricks
<1>3. /\ Unlink(b) \in Rpc /\ UnlinkEdge(As(m), Vhost(m)) \in Rpc
      /\ AddVni(b, v) \in Rpc /\ FwReload(b) \in Rpc /\ FwNew(m) \in Rpc
      /\ BrickDestroy(b) \in Rpc /\ UpdatePoll(s) \in Rpc /\ Nothing \in Rpc
  BY <1>2 DEF Rpc
<1> QED BY <1>1, <1>3, CallFields DEF Elsewhere, Detour

LEMMA ElsewhereLink ==
  ASSUME NEW n, NEW w \in Brick, NEW e \in Brick, w # As(n),
         w \in Bricks(n) \/ e \notin Guarded(n)
  PROVE  Link(w, e) \in Elsewhere(n)
<1>1. Link(w, e) \in Rpc
  BY DEF Rpc
<1> QED BY <1>1, CallFields DEF Elsewhere, Detour

(* Bricks of other NICs, of the vtep and of switches.                      *)
LEMMA OutsideBricks ==
  ASSUME NEW n, NEW m, n # m, NEW v
  PROVE  /\ Bricks(m) \cap Bricks(n) = {} /\ Vtep \notin Bricks(n)
         /\ Sw(v) \notin Bricks(n) /\ Guarded(n) \subseteq Bricks(n)
<1>1. Bricks(m) \cap Bricks(n) = {}
  BY OwnBrick
<1>2. Vtep \notin Bricks(n) /\ Sw(v) \notin Bricks(n)
  BY BrickKinds
<1> QED BY <1>1, <1>2 DEF Guarded, Bricks

LEMMA SgRequestPath ==
  ASSUME GraphInv, NEW n \in Nics, PathOf(n), NEW m \in NicId, SgRequest(m)
  PROVE  PathOf(n)'
<1>1. /\ pc = "idle" /\ pc' = pc /\ running' = running /\ branch' = branch
      /\ links' = links
  BY DEF SgRequest, Ready, poller, api
<1>2. /\ queue' = queue \o <<FwReload(Fw(m))>> /\ n \in NicId
  BY DEF SgRequest, GraphInv, TypeOK, Nics
<1>3. FwReload(Fw(m)) \in Elsewhere(n)
  <2>1. Fw(m) \in Brick
    BY DEF Brick, Bricks
  <2>2. FwReload(Fw(m)) \in Rpc
    BY <2>1 DEF Rpc
  <2> QED BY <2>2, CallFields DEF Elsewhere, Detour
<1>4. <<FwReload(Fw(m))>> \in Seq(Elsewhere(n))
  BY <1>3, SeqLiterals
<1>5. SameWay(n) /\ ~ Deleting(n)
  BY <1>1 DEF SameWay, Deleting
<1> QED BY <1>1, <1>2, <1>4, <1>5, PushPath DEF GraphInv

LEMMA NicAddStartPath ==
  ASSUME GraphInv, NEW n \in Nics, PathOf(n), NEW m \in NicId, AddStep(m)
  PROVE  PathOf(n)'
<1>1. /\ pc = "idle" /\ running' = running /\ branch' = branch /\ links' = links
      /\ queue' = queue \o <<FwNew(m), Nothing>> /\ n \in NicId
  BY DEF AddStep, Ready, poller, Nics
<1>2. FwNew(m) \in Elsewhere(n) /\ Nothing \in Elsewhere(n)
  <2>1. FwNew(m) \in Rpc /\ Nothing \in Rpc
    BY DEF Rpc
  <2> QED BY <2>1, CallFields DEF Elsewhere, Detour
<1>3. <<FwNew(m), Nothing>> \in Seq(Elsewhere(n))
  BY <1>2, SeqLiterals
<1>4. SameWay(n) /\ ~ Deleting(n)
  BY <1>1 DEF SameWay, Deleting
<1> QED BY <1>1, <1>3, <1>4, PushPath DEF GraphInv

LEMMA NicDelSwitchPath ==
  ASSUME GraphInv, NEW n \in Nics, PathOf(n), NicDelSwitch
  PROVE  PathOf(n)'
<1>0. PICK m, v : m = req.nic /\ v = branch[m].vni
  OBVIOUS
<1>1. /\ pc = "del_switch" /\ WaitEmptyQueue /\ pc' = "del"
      /\ links' = Without({Sw(v)}, links)
      /\ queue' = <<BrickDestroy(Fw(m)), Nothing>> /\ branch' = branch /\ req' = req
      /\ running' = running
  BY <1>0 DEF NicDelSwitch, poller
<1>2. queue = <<>> /\ running \in {Nothing, Idle} /\ m \in NicId /\ n \in NicId
  BY <1>0, <1>1, AfterWait DEF GraphInv, ReqInv, Nics
<1>3. <<BrickDestroy(Fw(m)), Nothing>> \in Seq(Elsewhere(n))
  <2>1. Fw(m) \in Brick
    BY <1>2 DEF Brick, Bricks
  <2>2. BrickDestroy(Fw(m)) \in Rpc /\ Nothing \in Rpc
    BY <2>1 DEF Rpc
  <2>3. BrickDestroy(Fw(m)) \in Elsewhere(n) /\ Nothing \in Elsewhere(n)
    BY <2>2, CallFields DEF Elsewhere, Detour
  <2> QED BY <2>3, SeqLiterals
<1>4. SameWay(n)
  <2>1. Sw(v) \notin Bricks(n)
    BY BrickKinds
  <2> QED BY <1>1, <2>1 DEF SameWay, Without
<1>5. queue' = queue \o <<BrickDestroy(Fw(m)), Nothing>>
  BY <1>1, <1>2
<1>6. Deleting(n) => Deleting(n)'
  BY <1>1 DEF Deleting
<1> QED BY <1>1, <1>2, <1>3, <1>4, <1>5, <1>6, PushPath DEF GraphInv

LEMMA NicDelDonePath ==
  ASSUME GraphInv, NEW n \in Nics, n # req.nic, PathOf(n), NicDelDone
  PROVE  PathOf(n)' /\ branch'[n] = branch[n]
<1>0. PICK m, v, gone : /\ m = req.nic /\ v = branch[m].vni
                        /\ gone = (Bricks(m) \ {Fw(m)})
                             \cup (IF NicsOf(v) = {m} THEN {Sw(v)} ELSE {})
  OBVIOUS
<1>1. /\ pc = "del" /\ WaitEmptyQueue
      /\ branch' = [branch EXCEPT ![m] = None] /\ links' = Without(gone, links)
      /\ queue' = <<FwNew(m), Nothing>> \/ queue' = queue
      /\ running' = running
  BY <1>0 DEF NicDelDone, poller
<1>2. /\ queue = <<>> /\ running \in {Nothing, Idle} /\ m \in NicId /\ n \in NicId
      /\ n # m
  BY <1>0, <1>1, AfterWait DEF GraphInv, ReqInv, Nics
<1>3. branch'[n] = branch[n]
  BY <1>1, <1>2 DEF GraphInv, TypeOK
<1>4. PICK d \in Seq(Elsewhere(n)) : queue' = queue \o d
  <2>1. FwNew(m) \in Rpc /\ Nothing \in Rpc
    BY <1>2 DEF Rpc
  <2>2. FwNew(m) \in Elsewhere(n) /\ Nothing \in Elsewhere(n)
    BY <2>1, CallFields DEF Elsewhere, Detour
  <2>3. <<FwNew(m), Nothing>> \in Seq(Elsewhere(n)) /\ <<>> \in Seq(Elsewhere(n))
    BY <2>2, SeqLiterals
  <2>4. queue' = queue \o <<FwNew(m), Nothing>> \/ queue' = queue \o <<>>
    BY <1>1, <1>2
  <2> QED BY <2>3, <2>4
<1>5. SameWay(n)
  <2>1. gone \cap Bricks(n) = {}
    BY <1>0, <1>2, OutsideBricks
  <2> QED BY <1>1, <2>1 DEF SameWay, Without
<1>6. ~ Deleting(n)
  BY DEF Deleting
<1>7. PathOf(n)'
  BY <1>1, <1>2, <1>3, <1>4, <1>5, <1>6, PushPath DEF GraphInv
<1> QED BY <1>3, <1>7

LEMMA NicAddFailsPath ==
  ASSUME GraphInv, NEW n \in Nics, PathOf(n), NicAddFails
  PROVE  PathOf(n)'
<1>1. /\ pc = "new" /\ WaitEmptyQueue /\ pc' = "idle"
      /\ links' = links /\ queue' = queue /\ branch' = branch /\ running' = running
  BY DEF NicAddFails, poller
<1>2. queue' = queue \o <<>> /\ n \in NicId
  BY <1>1 DEF GraphInv, TypeOK, Nics
<1>3. SameWay(n) /\ ~ Deleting(n)
  BY <1>1 DEF SameWay, Deleting
<1>4. <<>> \in Seq(Elsewhere(n))
  OBVIOUS
<1> QED BY <1>1, <1>2, <1>3, <1>4, PushPath DEF GraphInv

(* NicAddDone: the first branch of the VNI is unlinked from the vtep, so   *)
(* its head is not behind a firewall.                                      *)
LEMMA NewCallsElsewhere ==
  ASSUME GraphInv, PathInv, NicAddDone, NEW n \in NicId,
         n \in Nics => ~ branch[n].bypass,
         n \in Nics \/ (n = req.nic /\ ~ req.bypass)
  PROVE  queue' \in Seq(Elsewhere(n))
<1>0. PICK m, v, h : m = req.nic /\ v = req.vni /\ h = NewHead
  OBVIOUS
<1> DEFINE A == Attach(v, h)
           F == IF req.bypass THEN <<>> ELSE <<FwReload(Fw(m))>>
           W == Elsewhere(n)
<1>1. /\ m \in NicId /\ m \notin Nics /\ v \in Vni
      /\ h \in Bricks(m) /\ h \in Brick /\ (~ req.bypass => h = Fw(m))
      /\ (Second(v) => <<Vtep, FirstHead(v)>> \in links)
  BY <1>0, NewBranchFacts, NicAddEffects DEF NewHead
<1>2. PICK l \in PollLists(branch') : queue' = (A \o <<UpdatePoll(l)>>) \o F
  BY <1>0, NicAddEffects
<1>3. Vtep \in Brick /\ Sw(v) \in Brick /\ Fw(m) \in Brick /\ l \in SUBSET NicId
  BY <1>1, PollListsEnabled DEF Brick, Bricks
<1>4. /\ UpdatePoll(l) \in W /\ FwReload(Fw(m)) \in W /\ AddVni(h, v) \in W
      /\ AddVni(Sw(v), v) \in W
  BY <1>1, <1>3, ElsewhereTypes
<1>5. h \notin Guarded(n)
  <2>1. CASE n \in Nics
    BY <1>1, <2>1, OutsideBricks
  <2>2. CASE n = m /\ ~ req.bypass
    BY <1>1, <2>2, NicBricksDiffer DEF Guarded
  <2> QED BY <1>0, <2>1, <2>2
<1>6. /\ Vtep # As(n) /\ Sw(v) # As(n) /\ Sw(v) \notin Guarded(n)
  BY DEF Vtep, Sw, As, Guarded, Vhost, Sniffers
<1>7. Link(Vtep, h) \in W /\ Link(Vtep, Sw(v)) \in W /\ Link(Sw(v), h) \in W
  BY <1>1, <1>3, <1>5, <1>6, ElsewhereLink
<1>8. ASSUME Second(v) PROVE Link(Sw(v), FirstHead(v)) \in W
  <2>1. PICK o \in NicsOf(v) : FirstHead(v) = branch[o].head
    BY <1>8, FirstNic DEF Second
  <2>2. o \in Nics /\ branch[o].head \in Bricks(o) /\ o \in NicId
    BY <2>1 DEF NicsOf, Nics, GraphInv, ReqInv
  <2>3. branch[o].head \in Brick
    BY <2>2 DEF Brick
  <2>4. branch[o].head \notin Guarded(n)
    <3>1. CASE o = n
      <4>1. /\ WayOk(links, n) /\ <<Vtep, branch[o].head>> \in links
            /\ Vtep \notin Bricks(n)
        BY <1>1, <1>8, <2>1, <2>2, <3>1, BrickKinds DEF PathInv, PathOf
      <4>2. <<Vtep, branch[o].head>>[1] = Vtep
            /\ <<Vtep, branch[o].head>>[2] = branch[o].head
        OBVIOUS
      <4> QED BY <4>1, <4>2 DEF WayOk
    <3>2. CASE o # n
      BY <2>2, <3>2, OutsideBricks
    <3> QED BY <3>1, <3>2
  <2> QED BY <1>3, <1>6, <2>1, <2>3, <2>4, ElsewhereLink
<1> HIDE DEF W
<1>9. A \in Seq(W)
  <2>1. CASE A = <<Link(Vtep, h), AddVni(h, v)>>
    BY <1>4, <1>7, <2>1, SeqLiterals
  <2>2. CASE /\ Second(v)
             /\ A = <<Link(Vtep, Sw(v)), AddVni(Sw(v), v), Link(Sw(v), FirstHead(v)),
                      Link(Sw(v), h)>>
    BY <1>4, <1>7, <1>8, <2>2, SeqLiterals
  <2>3. CASE A = <<Link(Sw(v), h)>>
    BY <1>7, <2>3, SeqLiterals
  <2> QED BY <2>1, <2>2, <2>3, AttachCases DEF Second
<1>10. <<UpdatePoll(l)>> \in Seq(W) /\ F \in Seq(W)
  BY <1>4, SeqLiterals
<1> HIDE DEF A, F
<1>11. A \o <<UpdatePoll(l)>> \in Seq(W)
  BY <1>9, <1>10, SeqJoin
<1>12. queue' \in Seq(W)
  BY <1>2, <1>10, <1>11, SeqJoin
<1> QED BY <1>12 DEF W

LEMMA NicAddDonePath ==
  ASSUME GraphInv, PathInv, NicAddDone
  PROVE  PathInv'
<1>0. PICK m, v, s : m = req.nic /\ v = req.vni /\ s = NewSniffer
  OBVIOUS
<1>1. /\ m \in NicId /\ m \notin Nics /\ s \in Sniffers(m) /\ pc = "new"
      /\ WaitEmptyQueue /\ pc' = "idle" /\ running' = running
      /\ branch'[m].head = NewHead /\ branch'[m].bypass = req.bypass
      /\ Nics' = Nics \cup {m} /\ (~ req.bypass => NewHead = Fw(m))
      /\ \A n \in NicId : n # m => branch'[n] = branch[n]
  BY <1>0, NewBranchFacts, NicAddEffects DEF NewHead
<1>2. queue = <<>> /\ running \in {Nothing, Idle}
  BY <1>1, AfterWait
<1>3. /\ links' \subseteq InnerLinks(m, s) \cup links
      /\ InnerLinks(m, s) \subseteq links'
      /\ \A l \in links : l \in links' \/ l = <<Vtep, FirstHead(v)>>
  BY <1>0, NicAddEffects
<1>4. InnerLinks(m, s) \subseteq Bricks(m) \X Bricks(m)
  BY <1>1, InnerLinksOwn
<1>5. ASSUME NEW n \in Nics, ~ branch[n].bypass PROVE PathOf(n)'
  <2>1. queue' \in Seq(Elsewhere(n)) /\ n \in NicId /\ n # m
    BY <1>1, <1>5, NewCallsElsewhere DEF Nics
  <2>2. queue' = queue \o queue'
    <3>1. PICK p : p = queue'
      OBVIOUS
    <3>2. p \in Seq(Elsewhere(n))
      BY <2>1, <3>1
    <3>3. <<>> \o p = p
      BY <3>2
    <3> QED BY <1>2, <3>1, <3>3
  <2>3. SameWay(n)
    <3>1. Bricks(m) \cap Bricks(n) = {} /\ Vtep \notin Bricks(n)
      BY <2>1, OutsideBricks
    <3> QED BY <1>3, <1>4, <3>1 DEF SameWay
  <2>4. ~ Deleting(n)
    BY <1>1 DEF Deleting
  <2>5. branch'[n] = branch[n] /\ PathOf(n) /\ TypeOK
    BY <1>1, <1>5, <2>1 DEF PathInv, GraphInv
  <2> QED BY <1>1, <1>2, <2>1, <2>2, <2>3, <2>4, <2>5, PushPath
<1>6. ASSUME ~ req.bypass PROVE PathOf(m)'
  <2>1. queue' \in Seq(Elsewhere(m))
    BY <1>0, <1>1, <1>6, NewCallsElsewhere
  <2>2. /\ queue' \in Seq(PathCalls(m)')
        /\ \A i \in 1..Len(queue') : queue'[i] \in Elsewhere(m)
    <3>1. Elsewhere(m) \subseteq PathCalls(m)'
      BY <1>1, ElsewhereCalls
    <3>2. queue' \in Seq(PathCalls(m)')
      BY <2>1, <3>1, SeqMonotone
    <3> QED BY <2>1, <3>2
  <2>3. running' \in PathCalls(m)' \cup {Idle} /\ ~ Detour(running, m)
    <3>1. Nothing \in Rpc
      BY DEF Rpc
    <3> QED BY <1>1, <1>2, <3>1, CallFields DEF PathCalls, PathCall, Detour
  <2>4. DetourOk(queue', running', m)
    BY <1>1, <2>2, <2>3 DEF DetourOk, Elsewhere
  <2>5. \A x \in Sniffers(m) : RoomOk(queue', running', links', m, x)
    <3>1. ASSUME NEW x
          PROVE  /\ Link(As(m), x) \notin Elsewhere(m)
                 /\ Link(As(m), x) \notin {Nothing, Idle}
      <4>1. Link(As(m), x) \notin Elsewhere(m)
        BY ElsewhereCalls
      <4> QED BY <4>1 DEF Link, Nothing, Idle
    <3> QED BY <1>1, <1>2, <2>2, <3>1 DEF RoomOk
  <2>6. InnerLinks(m, s) \subseteq {<<Fw(m), As(m)>>, <<As(m), Vhost(m)>>,
                                    <<As(m), s>>, <<s, Vhost(m)>>}
        /\ <<Fw(m), As(m)>> \in InnerLinks(m, s)
    BY <1>6, GraphAssumption DEF InnerLinks
  <2>7. s # As(m) /\ Fw(m) # As(m)
    BY <1>1, NicBricksDiffer
  <2>8. \A l \in links : l[1] \notin Bricks(m) /\ l[2] \notin Bricks(m)
    BY <1>1, NoLinksYet
  <2>9. WayOk(links', m)
    <3>1. ASSUME NEW l \in links', l \in InnerLinks(m, s)
          PROVE  /\ l[2] \in Guarded(m) => l[1] \in Bricks(m)
                 /\ l[1] = As(m) => l[2] \in {Vhost(m)} \cup Sniffers(m)
      <4>1. l[1] \in Bricks(m)
        BY <1>4, <3>1
      <4>2. l[1] = As(m) => l[2] \in {Vhost(m)} \cup Sniffers(m)
        BY <1>1, <2>6, <2>7, <3>1
      <4> QED BY <4>1, <4>2
    <3>2. Guarded(m) \subseteq Bricks(m) /\ As(m) \in Bricks(m)
      BY DEF Guarded, Bricks
    <3> QED BY <1>3, <2>8, <3>1, <3>2 DEF WayOk
  <2>10. <<Fw(m), As(m)>> \in links'
    BY <1>3, <2>6
  <2>11. branch'[m].head # Vhost(m) /\ branch'[m].head \notin Sniffers(m)
    BY <1>1, <1>6, NicBricksDiffer
  <2> QED BY <2>2, <2>3, <2>4, <2>5, <2>9, <2>10, <2>11 DEF PathOf
<1>7. \A n \in Nics : n \in NicId /\ n # m
  BY <1>1 DEF Nics
<1> QED BY <1>1, <1>5, <1>6, <1>7 DEF PathInv

(* NicDel.                                                                 *)
LEMMA NicDelSteps ==
  ASSUME GraphInv, Ready, NEW m, NEW next, NicDel(m, next), next.nic = m
  PROVE  /\ m \in Nics /\ m \in NicId /\ pc = "idle" /\ links' = links
         /\ running' = running /\ req'.nic = m
         /\ pc' = (IF Cardinality(Others(m)) = 1 THEN "del_switch" ELSE "del")
         /\ branch'[m].head = branch[m].head /\ branch'[m].sniffer = branch[m].sniffer
         /\ branch'[m].bypass = branch[m].bypass
         /\ \A n \in NicId : n # m => branch'[n] = branch[n]
         /\ Nics' = Nics
         /\ \E s \in SUBSET NicId :
              queue' = queue \o ((<<UpdatePoll(s)>> \o Detach(m)) \o <<Nothing>>)
<1>1. /\ m \in Nics /\ m \in NicId /\ pc = "idle" /\ req' = next /\ running' = running
      /\ branch' = [branch EXCEPT ![m].enable = FALSE]
      /\ pc' = IF Cardinality(Others(m)) = 1 THEN "del_switch" ELSE "del"
      /\ links' = links
  BY DEF NicDel, Ready, poller, Nics
<1>2. PICK s \in PollLists([branch EXCEPT ![m].enable = FALSE]) :
        queue' = ((queue \o <<UpdatePoll(s)>>) \o Detach(m)) \o <<Nothing>>
  BY DEF NicDel
<1>3. /\ branch'[m].head = branch[m].head /\ branch'[m].sniffer = branch[m].sniffer
      /\ branch'[m].bypass = branch[m].bypass
      /\ (\A n \in NicId : n # m => branch'[n] = branch[n])
      /\ Nics' = Nics
  BY <1>1, DisabledBranch DEF GraphInv
<1>4. s \in SUBSET NicId
  BY PollListsEnabled
<1>5. queue' = queue \o ((<<UpdatePoll(s)>> \o Detach(m)) \o <<Nothing>>)
  <2>1. UpdatePoll(s) \in Rpc /\ Nothing \in Rpc
    BY <1>4 DEF Rpc
  <2>2. <<UpdatePoll(s)>> \in Seq(Rpc) /\ <<Nothing>> \in Seq(Rpc)
    BY <2>1
  <2>3. Detach(m) \in Seq(Rpc)
    <3>1. \A n \in Nics : branch[n].head \in Brick /\ branch[n].vni \in Vni /\ n \in NicId
      BY DEF Nics, GraphInv, TypeOK, Branch
    <3>2. Vtep \in Brick /\ Sw(branch[m].vni) \in Brick /\ Fw(m) \in Brick
      BY <1>1, <3>1 DEF Brick, Bricks
    <3>3. CASE Cardinality(Others(m)) = 1
      <4>1. PICK o \in Nics :
              Detach(m) = <<Unlink(Sw(branch[m].vni)), Link(Vtep, branch[o].head),
                            AddVni(branch[o].head, branch[m].vni)>>
        BY <1>1, <3>3, DetachCalls
      <4>2. /\ Unlink(Sw(branch[m].vni)) \in Rpc /\ Link(Vtep, branch[o].head) \in Rpc
            /\ AddVni(branch[o].head, branch[m].vni) \in Rpc
        BY <1>1, <3>1, <3>2 DEF Rpc
      <4> QED BY <4>1, <4>2, SeqLiterals
    <3>4. CASE Cardinality(Others(m)) # 1
      <4>1. Detach(m) = <<Unlink(branch[m].head), BrickDestroy(Fw(m))>>
        BY <1>1, <3>4, DetachCalls
      <4>2. Unlink(branch[m].head) \in Rpc /\ BrickDestroy(Fw(m)) \in Rpc
        BY <1>1, <3>1, <3>2 DEF Rpc
      <4> QED BY <4>1, <4>2, SeqLiterals
    <3> QED BY <3>3, <3>4
  <2>4. PICK x, y, z : x = <<UpdatePoll(s)>> /\ y = Detach(m) /\ z = <<Nothing>>
    OBVIOUS
  <2>5. /\ queue \in Seq(Rpc) /\ x \in Seq(Rpc) /\ y \in Seq(Rpc) /\ z \in Seq(Rpc)
        /\ x \o y \in Seq(Rpc)
    BY <2>2, <2>3, <2>4, SeqJoin DEF GraphInv, TypeOK
  <2>6. ((queue \o x) \o y) \o z = queue \o ((x \o y) \o z)
    <3>1. (queue \o x) \o y = queue \o (x \o y)
      BY <2>5, SeqAssociative
    <3>2. (queue \o (x \o y)) \o z = queue \o ((x \o y) \o z)
      BY <2>5, SeqAssociative
    <3> QED BY <3>1, <3>2
  <2> QED BY <1>2, <2>4, <2>6
<1> QED BY <1>1, <1>3, <1>4, <1>5

(* The calls of NicDel.                                                    *)
DelCalls(m, s) == (<<UpdatePoll(s)>> \o Detach(m)) \o <<Nothing>>

LEMMA JoinFour ==
  ASSUME NEW a \in Rpc, NEW b \in Rpc, NEW c \in Rpc, NEW d \in Rpc
  PROVE  (<<a>> \o <<b, c>>) \o <<d>> = <<a, b, c, d>>
<1>1. <<a>> \o <<b, c>> = <<a, b, c>>
  BY JoinLiterals
<1> DEFINE x == <<a, b, c>> \o <<d>>
<1>2. /\ x \in Seq(Rpc) /\ Len(x) = 4 /\ x[1] = a /\ x[2] = b /\ x[3] = c /\ x[4] = d
  OBVIOUS
<1>3. <<a, b, c, d>> \in Seq(Rpc) /\ Len(<<a, b, c, d>>) = 4
  OBVIOUS
<1> HIDE DEF x
<1>4. \A i \in 1..4 : x[i] = <<a, b, c, d>>[i]
  <2>1. \A i \in 1..4 : i = 1 \/ i = 2 \/ i = 3 \/ i = 4
    OBVIOUS
  <2> QED BY <1>2, <2>1
<1>5. x = <<a, b, c, d>>
  BY <1>2, <1>3, <1>4, SeqEqual
<1> QED BY <1>1, <1>5 DEF x

LEMMA JoinFive ==
  ASSUME NEW a \in Rpc, NEW b \in Rpc, NEW c \in Rpc, NEW d \in Rpc, NEW e \in Rpc
  PROVE  (<<a>> \o <<b, c, d>>) \o <<e>> = <<a, b, c, d, e>>
<1> DEFINE y == <<a>> \o <<b, c, d>>
           x == y \o <<e>>
<1>1. /\ y \in Seq(Rpc) /\ Len(y) = 4 /\ y[1] = a /\ y[2] = b /\ y[3] = c /\ y[4] = d
  OBVIOUS
<1> HIDE DEF y
<1>2. /\ x \in Seq(Rpc) /\ Len(x) = 5 /\ x[1] = a /\ x[2] = b /\ x[3] = c /\ x[4] = d
      /\ x[5] = e
  <2>1. PICK z : z = <<e>>
    OBVIOUS
  <2>2. z \in Seq(Rpc) /\ Len(z) = 1 /\ z[1] = e
    BY <2>1
  <2>3. /\ y \o z \in Seq(Rpc) /\ Len(y \o z) = Len(y) + Len(z)
        /\ \A i \in 1..Len(y) : (y \o z)[i] = y[i]
        /\ \A i \in 1..Len(z) : (y \o z)[Len(y) + i] = z[i]
    BY <1>1, <2>2, PushFacts
  <2>4. x = y \o z
    BY <2>1
  <2> HIDE DEF x
  <2> QED BY <1>1, <2>2, <2>3, <2>4
<1>3. <<a, b, c, d, e>> \in Seq(Rpc) /\ Len(<<a, b, c, d, e>>) = 5
  OBVIOUS
<1> HIDE DEF x
<1>4. \A i \in 1..5 : x[i] = <<a, b, c, d, e>>[i]
  <2>1. \A i \in 1..5 : i = 1 \/ i = 2 \/ i = 3 \/ i = 4 \/ i = 5
    OBVIOUS
  <2> QED BY <1>2, <2>1
<1>5. x = <<a, b, c, d, e>>
  BY <1>2, <1>3, <1>4, SeqEqual
<1> QED BY <1>5 DEF x, y

LEMMA DelCallsList ==
  ASSUME GraphInv, NEW m \in Nics, NEW s \in SUBSET NicId
  PROVE  \/ /\ Cardinality(Others(m)) = 1
            /\ \E o \in Nics :
                 /\ o # m /\ o \in Others(m)
                 /\ DelCalls(m, s) =
                      <<UpdatePoll(s), Unlink(Sw(branch[m].vni)),
                        Link(Vtep, branch[o].head),
                        AddVni(branch[o].head, branch[m].vni), Nothing>>
         \/ /\ Cardinality(Others(m)) # 1
            /\ DelCalls(m, s) = <<UpdatePoll(s), Unlink(branch[m].head),
                                  BrickDestroy(Fw(m)), Nothing>>
<1>1. \A n \in Nics : branch[n].head \in Brick /\ branch[n].vni \in Vni /\ n \in NicId
  BY DEF Nics, GraphInv, TypeOK, Branch
<1>2. Vtep \in Brick /\ Sw(branch[m].vni) \in Brick /\ Fw(m) \in Brick
  BY <1>1 DEF Brick, Bricks
<1>3. UpdatePoll(s) \in Rpc /\ Nothing \in Rpc
  BY DEF Rpc
<1>4. CASE Cardinality(Others(m)) = 1
  <2>1. PICK o \in Nics :
          /\ o # m /\ o \in Others(m)
          /\ Detach(m) = <<Unlink(Sw(branch[m].vni)), Link(Vtep, branch[o].head),
                           AddVni(branch[o].head, branch[m].vni)>>
    BY <1>4, DetachCalls
  <2>2. PICK b, c, d : /\ b = Unlink(Sw(branch[m].vni)) /\ c = Link(Vtep, branch[o].head)
                       /\ d = AddVni(branch[o].head, branch[m].vni)
    OBVIOUS
  <2>3. b \in Rpc /\ c \in Rpc /\ d \in Rpc
    BY <1>1, <1>2, <2>2 DEF Rpc
  <2>4. Detach(m) = <<b, c, d>>
    BY <2>1, <2>2
  <2>5. DelCalls(m, s) = <<UpdatePoll(s), b, c, d, Nothing>>
    BY <1>3, <2>3, <2>4, JoinFive DEF DelCalls
  <2> QED BY <1>4, <2>1, <2>2, <2>5
<1>5. CASE Cardinality(Others(m)) # 1
  <2>1. Detach(m) = <<Unlink(branch[m].head), BrickDestroy(Fw(m))>>
    BY <1>5, DetachCalls
  <2>2. Unlink(branch[m].head) \in Rpc /\ BrickDestroy(Fw(m)) \in Rpc
    BY <1>1, <1>2 DEF Rpc
  <2>3. DelCalls(m, s) = <<UpdatePoll(s), Unlink(branch[m].head),
                           BrickDestroy(Fw(m)), Nothing>>
    BY <1>3, <2>1, <2>2, JoinFour DEF DelCalls
  <2> QED BY <1>5, <2>3
<1> QED BY <1>4, <1>5

LEMMA NicDelPath ==
  ASSUME GraphInv, Ready, NEW n \in Nics, ~ branch[n].bypass, PathOf(n),
         NEW m, NEW next, NicDel(m, next), next.nic = m
  PROVE  PathOf(n)' /\ branch'[n].bypass = branch[n].bypass
<1>1. /\ m \in Nics /\ m \in NicId /\ pc = "idle" /\ links' = links
      /\ running' = running /\ req'.nic = m /\ pc' \in {"del", "del_switch"}
      /\ (pc' = "del_switch" <=> Cardinality(Others(m)) = 1)
  BY NicDelSteps
<1>2. /\ branch'[n].head = branch[n].head /\ branch'[n].sniffer = branch[n].sniffer
      /\ branch'[n].bypass = branch[n].bypass /\ n \in NicId
  BY NicDelSteps DEF Nics
<1>3. PICK s \in SUBSET NicId : queue' = queue \o DelCalls(m, s)
  BY NicDelSteps DEF DelCalls
<1>4. ~ Deleting(n) /\ (Deleting(n)' <=> n = m)
  BY <1>1 DEF Deleting
<1>5. SameWay(n)
  BY <1>1 DEF SameWay
<1>6. \A o \in Nics : /\ branch[o].head \in Brick /\ branch[o].vni \in Vni
                      /\ o \in NicId /\ branch[o].head \in Bricks(o)
  BY DEF Nics, GraphInv, TypeOK, Branch, ReqInv
<1>7. Vtep \in Brick /\ Sw(branch[m].vni) \in Brick /\ Fw(m) \in Brick
  BY <1>1, <1>6 DEF Brick, Bricks
<1>8. UpdatePoll(s) \in Elsewhere(n) /\ Nothing \in Elsewhere(n)
      /\ BrickDestroy(Fw(m)) \in Elsewhere(n)
  BY <1>1, <1>6, <1>7, ElsewhereTypes
<1>9. CASE DelCalls(m, s) \in Seq(Elsewhere(n))
  BY <1>1, <1>2, <1>3, <1>4, <1>5, <1>9, PushPath DEF GraphInv
<1>10. CASE Cardinality(Others(m)) # 1
  <2>1. DelCalls(m, s) = <<UpdatePoll(s), Unlink(branch[m].head), BrickDestroy(Fw(m)),
                           Nothing>>
    BY <1>1, <1>10, DelCallsList
  <2>2. CASE n # m
    <3>1. branch[m].head \notin Bricks(n)
      BY <1>1, <1>6, <2>2, OutsideBricks
    <3>2. Unlink(branch[m].head) \in Elsewhere(n)
      BY <1>1, <1>6, <3>1, ElsewhereTypes
    <3>3. DelCalls(m, s) \in Seq(Elsewhere(n))
      BY <1>8, <2>1, <3>2, SeqLiterals
    <3> QED BY <1>9, <3>3
  <2>3. CASE n = m
    <3> DEFINE d == DelCalls(m, s)
    <3>1. Elsewhere(n) \subseteq PathCalls(n)'
      BY ElsewhereCalls
    <3>2. Unlink(branch[m].head) \in Rpc /\ Unlink(branch[m].head).action = "UNLINK"
      BY <1>1, <1>6, CallFields DEF Rpc
    <3>3. Unlink(branch[m].head) \in PathCalls(n)'
      BY <1>4, <2>3, <3>2 DEF PathCalls, PathCall, Detour
    <3>4. d \in Seq(PathCalls(n)') /\ d \in Seq(Rpc)
      <4>1. PathCalls(n)' \subseteq Rpc
        BY DEF PathCalls
      <4>2. d \in Seq(PathCalls(n)')
        BY <1>8, <2>1, <3>1, <3>3, SeqLiterals
      <4> HIDE DEF d
      <4> QED BY <4>1, <4>2, SeqMonotone
    <3>5. queue' \in Seq(PathCalls(n)') /\ running' \in PathCalls(n)' \cup {Idle}
      BY <1>1, <1>2, <1>3, <1>4, <3>4, PushCalls DEF GraphInv
    <3>6. DetourOk(queue', running', n)
      <4>1. \A i \in 1..Len(queue') : ~ Detour(queue'[i], n)
        BY <1>1, <2>3, <3>5 DEF PathCalls, PathCall
      <4>2. ~ Detour(running', n)
        BY <1>1, <2>3, <3>5, CallFields DEF PathCalls, PathCall, Detour
      <4> QED BY <4>1, <4>2 DEF DetourOk
    <3>7. ASSUME NEW x \in Sniffers(n) PROVE RoomOk(queue', running', links', n, x)
      <4>1. Link(As(n), x) \notin Elsewhere(n)
        BY ElsewhereCalls
      <4>2. Link(As(n), x) # Unlink(branch[m].head)
        BY DEF Link, Unlink
      <4>3. d \in Seq({c \in Rpc : c # Link(As(n), x)})
        <5>1. Elsewhere(n) \subseteq Rpc
          BY DEF Elsewhere
        <5> QED BY <1>8, <2>1, <3>2, <4>1, <4>2, <5>1, SeqLiterals
      <4> HIDE DEF d
      <4>4. Led(d, n, x)
        BY <4>3 DEF Led
      <4>5. RoomOk(queue, running, links, n, x) /\ queue \in Seq(Rpc)
        BY DEF PathOf, GraphInv, TypeOK
      <4>6. queue' = queue \o d
        BY <1>3 DEF d
      <4> QED BY <1>1, <3>4, <4>4, <4>5, <4>6, RoomPush
    <3>8. WayOk(links', n) /\ branch'[n].head # Vhost(n)
      BY <1>1, <1>2 DEF PathOf
    <3>9. PathOf(n)'
      BY <1>4, <2>3, <3>5, <3>6, <3>7, <3>8 DEF PathOf
    <3> QED BY <1>2, <3>9
  <2> QED BY <2>2, <2>3
<1>11. CASE Cardinality(Others(m)) = 1
  <2>1. PICK o \in Nics :
          /\ o # m
          /\ DelCalls(m, s) =
               <<UpdatePoll(s), Unlink(Sw(branch[m].vni)), Link(Vtep, branch[o].head),
                 AddVni(branch[o].head, branch[m].vni), Nothing>>
    BY <1>1, <1>11, DelCallsList
  <2>2. /\ Vtep # As(n) /\ Vtep \notin Bricks(n) /\ Sw(branch[m].vni) \notin Bricks(n)
    BY BrickKinds DEF Vtep, As
  <2>3. /\ Unlink(Sw(branch[m].vni)) \in Elsewhere(n)
        /\ AddVni(branch[o].head, branch[m].vni) \in Elsewhere(n)
    BY <1>1, <1>6, <1>7, <2>2, ElsewhereTypes
  <2>4. CASE branch[o].head \notin Guarded(n)
    <3>1. Link(Vtep, branch[o].head) \in Elsewhere(n)
      BY <1>6, <1>7, <2>2, <2>4, ElsewhereLink
    <3>2. PICK a, b, c, d, e \in Elsewhere(n) : DelCalls(m, s) = <<a, b, c, d, e>>
      BY <1>8, <2>1, <2>3, <3>1
    <3>3. DelCalls(m, s) \in Seq(Elsewhere(n))
      BY <3>2
    <3> QED BY <1>9, <3>3
  <2>5. CASE branch[o].head \in Guarded(n)
    <3>1. o = n
      BY <1>6, <2>5, OutsideBricks
    <3> DEFINE L == Link(Vtep, branch[n].head)
               V == AddVni(branch[n].head, branch[m].vni)
               U == Unlink(Sw(branch[m].vni))
    <3>2. PICK d : d = DelCalls(m, s) /\ d = <<UpdatePoll(s), U, L, V, Nothing>>
      BY <2>1, <3>1
    <3>3. L \in Rpc /\ L.action = "LINK" /\ L.args[1] = Vtep /\ L.args[2] = branch[n].head
      BY <1>6, <1>7, CallFields DEF Rpc
    <3>4. L \in PathCalls(n)'
      BY <1>1, <1>2, <1>11, <2>1, <2>2, <3>1, <3>3 DEF PathCalls, PathCall
    <3>5. /\ Elsewhere(n) \subseteq PathCalls(n)' /\ U \in Elsewhere(n) /\ V \in Elsewhere(n)
          /\ PathCalls(n)' \subseteq Rpc
      BY <2>3, <3>1, ElsewhereCalls DEF PathCalls
    <3>6. V.action # "LINK" /\ Nothing.action # "LINK"
      BY CallFields
    <3>7. L \notin {Link(As(n), x) : x \in Sniffers(n)} /\ \A x : L # Unlink(x)
      BY <2>2, <3>3, CallFields
    <3> HIDE DEF L, V, U
    <3>8. d \in Seq(PathCalls(n)') /\ d \in Seq(Rpc)
      <4>1. PICK T : T = PathCalls(n)'
        OBVIOUS
      <4>2. UpdatePoll(s) \in T /\ U \in T /\ L \in T /\ V \in T /\ Nothing \in T
        BY <1>8, <3>4, <3>5, <4>1
      <4>3. d \in Seq(T)
        BY <3>2, <4>2
      <4> QED BY <3>5, <4>1, <4>3, SeqMonotone
    <3>9. queue' \in Seq(PathCalls(n)') /\ running' \in PathCalls(n)' \cup {Idle}
      BY <1>1, <1>2, <1>3, <1>4, <3>2, <3>8, PushCalls DEF GraphInv
    <3>10. /\ Len(d) = 5 /\ d[1] = UpdatePoll(s) /\ d[2] = U /\ d[3] = L /\ d[4] = V
           /\ d[5] = Nothing /\ \A i \in 1..5 : i \in {1, 2, 3, 4, 5}
      BY <3>2
    <3>11. DetourOk(queue', running', n)
      <4>1. \A i \in {1, 2, 4, 5} : d[i] \in Elsewhere(n)
        BY <1>8, <3>5, <3>10
      <4>2. \A i \in 1..5 : Detour(d[i], n) => i = 3
        BY <3>10, <4>1 DEF Elsewhere
      <4>3. \A i \in 4..5 : d[i].action # "LINK"
        <5>1. \A i \in 4..5 : i = 4 \/ i = 5
          OBVIOUS
        <5> QED BY <3>6, <3>10, <5>1
      <4>4. /\ \A i \in 1..Len(queue) : ~ Detour(queue[i], n)
            /\ ~ Detour(running, n)
        BY <1>1, NoDetours
      <4>0. queue \in Seq(Rpc) /\ Len(queue) \in Nat
        BY DEF GraphInv, TypeOK
      <4>5. PICK k, p : k \in Nat /\ k = Len(queue) /\ p = queue \o d
        BY <4>0
      <4>6. /\ Len(p) = k + 5 /\ \A i \in 1..k : p[i] = queue[i]
            /\ \A i \in 1..5 : p[k + i] = d[i]
        <5>1. /\ Len(queue \o d) = Len(queue) + Len(d)
              /\ \A i \in 1..Len(queue) : (queue \o d)[i] = queue[i]
              /\ \A i \in 1..Len(d) : (queue \o d)[Len(queue) + i] = d[i]
          BY <3>8, <4>0, PushFacts
        <5> QED BY <3>10, <4>5, <5>1, Zenon
      <4>7. ASSUME NEW i \in 1..k + 5, Detour(p[i], n)
            PROVE  i = k + 3
        <5>1. i > k
          BY <4>4, <4>5, <4>6, <4>7
        <5>2. i - k \in 1..5 /\ k + (i - k) = i
          BY <4>5, <5>1
        <5>3. Detour(d[i - k], n)
          BY <4>6, <4>7, <5>2
        <5>4. i - k = 3
          BY <4>2, <5>2, <5>3
        <5> QED BY <4>5, <5>4
      <4>8. ASSUME NEW j \in (k + 3) + 1..k + 5
            PROVE  p[j].action # "LINK"
        <5>1. j - k \in 4..5 /\ j - k \in 1..5 /\ k + (j - k) = j
          BY <4>5
        <5>2. p[j] = d[j - k]
          BY <4>6, <5>1
        <5> QED BY <4>3, <5>1, <5>2
      <4>9. \A i \in 1..Len(p) : Detour(p[i], n) => NoLinks(p, i + 1)
        BY <4>6, <4>7, <4>8 DEF NoLinks
      <4>10. queue' = p
        BY <1>3, <3>2, <4>5
      <4> QED BY <1>1, <4>4, <4>9, <4>10 DEF DetourOk
    <3>12. ASSUME NEW x \in Sniffers(n)
           PROVE  \A i \in 1..5 : d[i] # Link(As(n), x) /\ d[i] # Unlink(x)
      <4>1. Link(As(n), x) \notin Elsewhere(n) /\ Unlink(x) \notin Elsewhere(n)
        BY ElsewhereCalls
      <4> QED BY <1>8, <3>5, <3>7, <3>10, <4>1
    <3>13. queue' = queue \o d /\ queue \in Seq(Rpc)
      BY <1>3, <3>2 DEF GraphInv, TypeOK
    <3>14. ASSUME NEW x \in Sniffers(n) PROVE RoomOk(queue', running', links', n, x)
      <4>1. Led(d, n, x)
        BY <3>10, <3>12 DEF Led
      <4>2. RoomOk(queue, running, links, n, x)
        BY DEF PathOf
      <4> QED BY <1>1, <3>8, <3>13, <4>1, <4>2, RoomPush
    <3>15. ASSUME branch'[n].head \in Sniffers(n)
           PROVE  Joined(queue', running', links', n, branch'[n].head)
      <4>1. PICK x \in Sniffers(n) : x = branch[n].head
        BY <1>2, <3>15
      <4>2. Joined(queue, running, links, n, x)
        BY <1>4, <4>1 DEF PathOf
      <4>3. NoUnlink(d, 1, x)
        BY <3>10, <3>12, <4>1 DEF NoUnlink
      <4> QED BY <1>1, <1>2, <3>8, <3>13, <4>1, <4>2, <4>3, JoinedPush
    <3>16. /\ WayOk(links', n) /\ branch'[n].head # Vhost(n)
           /\ <<Fw(n), As(n)>> \in links'
      BY <1>1, <1>2, <1>4 DEF PathOf
    <3>17. PathOf(n)'
      BY <3>9, <3>11, <3>14, <3>15, <3>16 DEF PathOf
    <3> QED BY <1>2, <3>17
  <2> QED BY <2>4, <2>5
<1> QED BY <1>10, <1>11

(* ActionNicUpdate, for another NIC and for n itself.                      *)
LEMMA ChangeElsewhere ==
  ASSUME GraphInv, NEW m \in Nics, NEW n, n # m,
         NEW h, NEW c, NEW made, TraceChange(m, branch[m], h, c, made)
  PROVE  c \in Seq(Elsewhere(n))
<1> DEFINE g == branch[m]
           W == Elsewhere(n)
<1>1. m \in NicId /\ g.vni \in Vni /\ g.sniffer \in Sniffers(m) \cup {None}
  BY DEF Nics, GraphInv, TypeOK, Branch, ReqInv
<1>2. /\ {As(m), Vhost(m)} \cup Sniffers(m) \subseteq Bricks(m) /\ Bricks(m) \subseteq Brick
      /\ Vtep \in Brick
  BY <1>1, BrickTypes
<1>3. Bricks(m) \cap Bricks(n) = {} /\ Guarded(n) \subseteq Bricks(n)
  BY OutsideBricks
<1>4. As(n) \in Bricks(n) /\ Vtep # As(n)
  BY DEF Bricks, Vtep, As
<1>5. ASSUME NEW w \in Bricks(m) \cup {Vtep}, NEW e \in Bricks(m)
      PROVE  Link(w, e) \in W
  BY <1>2, <1>3, <1>4, ElsewhereLink
<1>6. ASSUME NEW b \in Bricks(m)
      PROVE  Unlink(b) \in W /\ AddVni(b, g.vni) \in W
  BY <1>1, <1>2, <1>3, ElsewhereTypes
<1>7. UnlinkEdge(As(m), Vhost(m)) \in W
  BY <1>1, <1>2, ElsewhereTypes
<1> HIDE DEF W, g
<1>8. CASE TraceSame(m, g, h, c, made)
  BY <1>8 DEF TraceSame
<1>9. CASE TraceOn(m, g, h, c, made)
  <2>1. h.head \in Bricks(m) /\ c = SnifferCalls(m, g, h.head)
    BY <1>2, <1>9 DEF TraceOn
  <2>2. /\ Unlink(Vhost(m)) \in W /\ Link(h.head, Vhost(m)) \in W
        /\ Link(Vtep, h.head) \in W /\ AddVni(h.head, g.vni) \in W
        /\ Link(As(m), h.head) \in W
    BY <1>2, <1>5, <1>6, <2>1
  <2> QED BY <1>7, <2>1, <2>2, SeqLiterals DEF SnifferCalls, W
<1>10. CASE TraceOff(m, g, h, c, made)
  <2>1. g.sniffer \in Bricks(m) /\ c = RelinkCalls(m, g)
    BY <1>1, <1>2, <1>10 DEF TraceOff, g
  <2>2. /\ Unlink(g.sniffer) \in W /\ Link(Vtep, Vhost(m)) \in W
        /\ AddVni(Vhost(m), g.vni) \in W /\ Link(As(m), Vhost(m)) \in W
    BY <1>2, <1>5, <1>6, <2>1
  <2> QED BY <2>1, <2>2, SeqLiterals DEF RelinkCalls, W
<1> QED BY <1>8, <1>9, <1>10 DEF TraceChange, g

(* The facts of an update that the next lemmas start from.                 *)
LEMMA UpdateSteps ==
  ASSUME GraphInv, SnifferInv, NEW m \in NicId, TraceStep(m)
  PROVE  /\ m \in Nics /\ pc = "idle" /\ pc' = pc /\ req' = req
         /\ running' = running /\ links' = links
         /\ \E h, c, u, made :
              /\ TraceChange(m, branch[m], h, c, made)
              /\ branch'[m] = h /\ \A n \in NicId : n # m => branch'[n] = branch[n]
              /\ queue' = queue \o (c \o u) /\ c \in Seq(Rpc)
              /\ Nics' = Nics
              /\ \A n : u \in Seq(Elsewhere(n))
<1>0. PICK l \in PollLists(branch) : UpdateEffect(m, l)
  BY TraceUpdate DEF TraceStep
<1>1. /\ m \in Nics /\ pc = "idle" /\ pc' = pc /\ req' = req
      /\ running' = running /\ links' = links
  BY <1>0 DEF UpdateEffect, Ready
<1>2. PICK h, c, p, f, made :
        /\ TraceChange(m, branch[m], h, c, made)
        /\ p \in {<<>>, <<UpdatePoll(l)>>} /\ f \in {<<>>, <<FwReload(Fw(m))>>}
        /\ branch' = [branch EXCEPT ![m] = h]
        /\ queue' = (queue \o (c \o p)) \o f
  BY <1>0 DEF UpdateEffect
<1>3. branch'[m] = h /\ \A n \in NicId : n # m => branch'[n] = branch[n]
  BY <1>2 DEF GraphInv, TypeOK
<1>4. h \in Branch
  BY <1>2 DEF TraceChange
<1>5. Nics' = Nics
  BY <1>1, <1>3, <1>4, NullAssumption DEF Nics
<1>6. l \in SUBSET NicId /\ Fw(m) \in Brick /\ branch[m].vni \in Vni
  BY <1>1, PollListsEnabled DEF Brick, Bricks, Nics, GraphInv, TypeOK, Branch
<1>7. ASSUME NEW n PROVE p \o f \in Seq(Elsewhere(n))
  <2>1. UpdatePoll(l) \in Elsewhere(n) /\ FwReload(Fw(m)) \in Elsewhere(n)
    BY <1>6, ElsewhereTypes
  <2>2. p \in Seq(Elsewhere(n)) /\ f \in Seq(Elsewhere(n))
    BY <1>2, <2>1, SeqLiterals
  <2> QED BY <2>2, SeqJoin
<1>8. c \in Seq(Rpc)
  <2>1. c \in Seq(CallsWithin(live \cup made))
    BY <1>1, <1>2, ChangeFacts
  <2>2. CallsWithin(live \cup made) \subseteq Rpc
    BY DEF CallsWithin
  <2> QED BY <2>1, <2>2, SeqMonotone
<1>9. queue' = queue \o (c \o (p \o f))
  <2>1. UpdatePoll(l) \in Rpc /\ FwReload(Fw(m)) \in Rpc
    BY <1>6 DEF Rpc
  <2>2. p \in Seq(Rpc) /\ f \in Seq(Rpc) /\ queue \in Seq(Rpc)
    BY <1>2, <2>1, SeqLiterals DEF GraphInv, TypeOK
  <2>3. c \o p \in Seq(Rpc)
    BY <1>8, <2>2, SeqJoin
  <2>4. (queue \o (c \o p)) \o f = queue \o ((c \o p) \o f)
    BY <2>2, <2>3, SeqAssociative
  <2>5. (c \o p) \o f = c \o (p \o f)
    BY <1>8, <2>2, SeqAssociative
  <2> QED BY <1>2, <2>4, <2>5, Zenon
<1>10. PICK u : u = p \o f
  OBVIOUS
<1>11. (\A n : u \in Seq(Elsewhere(n))) /\ queue' = queue \o (c \o u)
  BY <1>7, <1>9, <1>10
<1> QED BY <1>1, <1>2, <1>3, <1>5, <1>8, <1>11

LEMMA UpdatePathOther ==
  ASSUME GraphInv, SnifferInv, NEW n \in Nics, PathOf(n), NEW m \in NicId, m # n,
         TraceStep(m)
  PROVE  PathOf(n)' /\ branch'[n] = branch[n]
<1>1. /\ m \in Nics /\ pc = "idle" /\ pc' = pc /\ running' = running /\ links' = links
      /\ n \in NicId
  BY UpdateSteps DEF Nics
<1>2. PICK h, c, u, made :
        /\ TraceChange(m, branch[m], h, c, made)
        /\ \A o \in NicId : o # m => branch'[o] = branch[o]
        /\ queue' = queue \o (c \o u)
        /\ \A o : u \in Seq(Elsewhere(o))
  BY UpdateSteps
<1>3. c \in Seq(Elsewhere(n))
  BY <1>1, <1>2, ChangeElsewhere
<1>4. c \o u \in Seq(Elsewhere(n))
  BY <1>2, <1>3, SeqJoin
<1>5. SameWay(n) /\ ~ Deleting(n)
  BY <1>1 DEF SameWay, Deleting
<1>6. branch'[n] = branch[n]
  BY <1>1, <1>2
<1>7. PathOf(n)'
  BY <1>1, <1>2, <1>4, <1>5, <1>6, PushPath DEF GraphInv
<1> QED BY <1>6, <1>7

(* Any index of c \o u is one of c or one of u.                            *)
LEMMA JoinedIndex ==
  ASSUME NEW c \in Seq(Rpc), NEW u \in Seq(Rpc), NEW i \in 1..Len(c \o u)
  PROVE  \/ i \in 1..Len(c) /\ (c \o u)[i] = c[i]
         \/ \E j \in 1..Len(u) : (c \o u)[i] = u[j]
<1>1. /\ Len(c \o u) = Len(c) + Len(u) /\ Len(c) \in Nat /\ Len(u) \in Nat
      /\ \A k \in 1..Len(c) : (c \o u)[k] = c[k]
      /\ \A k \in 1..Len(u) : (c \o u)[Len(c) + k] = u[k]
  BY PushFacts
<1>2. CASE i <= Len(c)
  BY <1>1, <1>2
<1>3. CASE i > Len(c)
  <2>1. i - Len(c) \in 1..Len(u) /\ Len(c) + (i - Len(c)) = i
    BY <1>1, <1>3
  <2> QED BY <1>1, <2>1
<1> QED BY <1>1, <1>2, <1>3

(* The branch of n changes, and calls d are pushed that are good for it.   *)
LEMMA OwnPush ==
  ASSUME GraphInv, NEW n \in Nics, PathOf(n), pc = "idle", pc' = pc, links' = links,
         running' = running, NEW d \in Seq(PathCalls(n)'), queue' = queue \o d,
         branch[n].sniffer \in {branch'[n].sniffer, None},
         branch'[n].head # Vhost(n),
         \A x \in Sniffers(n) : Led(d, n, x),
         branch'[n].head \in Sniffers(n) =>
           Joined(queue', running', links', n, branch'[n].head)
  PROVE  PathOf(n)'
<1>1. n \in NicId /\ ~ Deleting(n) /\ ~ Deleting(n)' /\ queue \in Seq(Rpc)
  BY DEF Nics, Deleting, GraphInv, TypeOK
<1>2. queue' \in Seq(PathCalls(n)') /\ running' \in PathCalls(n)' \cup {Idle}
  BY <1>1, PushCalls DEF GraphInv
<1>3. DetourOk(queue', running', n)
  <2>1. \A i \in 1..Len(queue') : ~ Detour(queue'[i], n)
    BY <1>2 DEF PathCalls, PathCall
  <2>2. ~ Detour(running', n)
    BY <1>2, CallFields DEF PathCalls, PathCall, Detour
  <2> QED BY <2>1, <2>2 DEF DetourOk
<1>4. d \in Seq(Rpc)
  <2>1. PathCalls(n)' \subseteq Rpc
    BY DEF PathCalls
  <2> QED BY <2>1, SeqMonotone
<1>5. ASSUME NEW x \in Sniffers(n) PROVE RoomOk(queue', running', links', n, x)
  <2>1. RoomOk(queue, running, links, n, x)
    BY DEF PathOf
  <2> QED BY <1>1, <1>4, <2>1, RoomPush
<1>6. WayOk(links', n) /\ <<Fw(n), As(n)>> \in links'
  BY <1>1 DEF PathOf
<1> QED BY <1>2, <1>3, <1>5, <1>6 DEF PathOf

LEMMA UpdatePathOwn ==
  ASSUME GraphInv, SnifferInv, NEW n \in Nics, ~ branch[n].bypass, PathOf(n),
         TraceStep(n)
  PROVE  PathOf(n)' /\ branch'[n].bypass = branch[n].bypass
<1>0. n \in NicId
  BY DEF Nics
<1>1. /\ pc = "idle" /\ pc' = pc /\ running' = running /\ links' = links
  BY <1>0, UpdateSteps
<1>2. PICK h, c, u, made :
        /\ TraceChange(n, branch[n], h, c, made)
        /\ branch'[n] = h /\ queue' = queue \o (c \o u) /\ c \in Seq(Rpc)
        /\ u \in Seq(Elsewhere(n))
  BY <1>0, UpdateSteps
<1> DEFINE g == branch[n]
           d == c \o u
<1>3. h.bypass = g.bypass
  BY <1>2 DEF TraceChange
<1>4. /\ Elsewhere(n) \subseteq PathCalls(n)' /\ Elsewhere(n) \subseteq Rpc
      /\ PathCalls(n)' \subseteq Rpc
  BY <1>0, ElsewhereCalls DEF PathCalls
<1>5. /\ {As(n), Vhost(n)} \cup Sniffers(n) \subseteq Bricks(n) /\ Bricks(n) \subseteq Brick
      /\ None \notin Brick
  BY <1>0, NullAssumption DEF Brick, Bricks
<1>6. u \in Seq(PathCalls(n)') /\ u \in Seq(Rpc) /\ queue \in Seq(Rpc)
  BY <1>2, <1>4, SeqMonotone DEF GraphInv, TypeOK
<1>7. ASSUME NEW x \in Sniffers(n), NEW j \in 1..Len(u)
      PROVE  u[j] # Link(As(n), x) /\ u[j] # Unlink(x)
  <2>1. Link(As(n), x) \notin Elsewhere(n) /\ Unlink(x) \notin Elsewhere(n)
    BY <1>7, ElsewhereCalls
  <2> QED BY <1>2, <2>1
<1>8. ~ Deleting(n) /\ ~ Deleting(n)'
  BY <1>1 DEF Deleting
<1>9. CASE TraceSame(n, g, h, c, made)
  <2>1. h.head = g.head /\ h.sniffer = g.sniffer /\ c = <<>>
    BY <1>9 DEF TraceSame
  <2>2. d \in Seq(Elsewhere(n))
    BY <1>2, <2>1
  <2>3. SameWay(n)
    BY <1>1 DEF SameWay
  <2>4. PathOf(n)'
    BY <1>0, <1>1, <1>2, <1>8, <2>1, <2>2, <2>3, PushPath DEF GraphInv
  <2> QED BY <1>2, <1>3, <2>4
<1>10. CASE TraceOn(n, g, h, c, made)
  <2>1. PICK s \in Sniffers(n) :
          /\ s = h.head /\ s = h.sniffer /\ g.sniffer \in {s, None}
          /\ c = <<UnlinkEdge(As(n), Vhost(n)), Link(As(n), s), Link(s, Vhost(n))>>
    BY <1>10 DEF TraceOn, SnifferCalls
  <2>2. s # As(n) /\ s # Vhost(n) /\ s \in Bricks(n)
    BY <1>5, NicBricksDiffer
  <2>3. /\ Len(c) = 3 /\ c[1] = UnlinkEdge(As(n), Vhost(n)) /\ c[2] = Link(As(n), s)
        /\ c[3] = Link(s, Vhost(n)) /\ \A i \in 1..3 : i = 1 \/ i = 2 \/ i = 3
    BY <2>1
  <2>4. c \in Seq(PathCalls(n)')
    <3>1. Link(s, Vhost(n)) \in Elsewhere(n)
      BY <1>5, <2>2, ElsewhereLink
    <3>2. UnlinkEdge(As(n), Vhost(n)) \in Elsewhere(n)
      <4>1. UnlinkEdge(As(n), Vhost(n)) \in Rpc
        BY <1>5 DEF Rpc
      <4>2. UnlinkEdge(As(n), Vhost(n)).args = <<As(n), Vhost(n)>>
            /\ UnlinkEdge(As(n), Vhost(n)).action = "UNLINK_EDGE"
        BY DEF UnlinkEdge
      <4> QED BY <1>0, <4>1, <4>2 DEF Elsewhere, Detour
    <3>3. Link(As(n), s) \in PathCalls(n)'
      <4>1. Link(As(n), s) \in Rpc
        BY <1>5 DEF Rpc
      <4> QED BY <1>5, <4>1, CallFields DEF PathCalls, PathCall, Detour
    <3>4. PICK T : T = PathCalls(n)'
      OBVIOUS
    <3>5. /\ UnlinkEdge(As(n), Vhost(n)) \in T /\ Link(As(n), s) \in T
          /\ Link(s, Vhost(n)) \in T
      BY <1>4, <3>1, <3>2, <3>3, <3>4
    <3>6. c \in Seq(T)
      BY <2>1, <3>5, SeqLiterals
    <3> QED BY <3>4, <3>6
  <2>5. d \in Seq(PathCalls(n)') /\ d \in Seq(Rpc)
    BY <1>2, <1>6, <2>4, SeqJoin
  <2>6. \A x \in Sniffers(n) : /\ c[1] # Link(As(n), x) /\ c[3] # Link(As(n), x)
                               /\ c[1] # Unlink(x) /\ c[2] # Unlink(x) /\ c[3] # Unlink(x)
    BY <2>2, <2>3 DEF UnlinkEdge, Link, Unlink
  <2>7. d[1] = c[1] /\ d[2] = c[2] /\ Len(d) = 3 + Len(u) /\ Len(u) \in Nat
    <3>1. /\ Len(c \o u) = Len(c) + Len(u) /\ Len(u) \in Nat
          /\ \A i \in 1..Len(c) : (c \o u)[i] = c[i]
      BY <1>2, <1>6, PushFacts
    <3>2. 1 \in 1..3 /\ 2 \in 1..3
      OBVIOUS
    <3> HIDE DEF d
    <3>3. Len(d) = Len(c) + Len(u) /\ \A i \in 1..Len(c) : d[i] = c[i]
      BY <3>1 DEF d
    <3> QED BY <2>3, <3>1, <3>2, <3>3
  <2>8. ASSUME NEW i \in 1..Len(d)
        PROVE  \/ i = 1 /\ d[i] = c[1]
               \/ i = 2
               \/ i = 3 /\ d[i] = c[3]
               \/ \E j \in 1..Len(u) : d[i] = u[j]
    <3>1. \/ i \in 1..Len(c) /\ d[i] = c[i]
          \/ \E j \in 1..Len(u) : d[i] = u[j]
      BY <1>2, <1>6, <2>8, JoinedIndex
    <3> HIDE DEF d
    <3> QED BY <2>3, <3>1
  <2> HIDE DEF d
  <2>9. ASSUME NEW x \in Sniffers(n) PROVE Led(d, n, x)
    <3>1. ASSUME NEW i \in 1..Len(d), d[i] = Link(As(n), x) PROVE i = 2
      BY <1>7, <2>6, <2>8, <3>1
    <3>2. 2 > 1 /\ d[2 - 1] = UnlinkEdge(As(n), Vhost(n))
      BY <2>3, <2>7
    <3> QED BY <3>1, <3>2 DEF Led
  <2>10. Joined(queue', running', links', n, s)
    <3>1. 2 \in 1..Len(d) /\ d[2] = Link(As(n), s)
      BY <2>3, <2>7
    <3>2. NoUnlink(d, 1, s)
      BY <1>7, <2>6, <2>7, <2>8 DEF NoUnlink
    <3>3. queue' = queue \o d
      BY <1>2 DEF d
    <3> QED BY <1>6, <2>5, <3>1, <3>2, <3>3, JoinedNew
  <2>11. queue' = queue \o d /\ branch'[n].head = s /\ branch'[n].sniffer = s
    BY <1>2, <2>1 DEF d
  <2>12. PathOf(n)'
    BY <1>1, <2>1, <2>2, <2>5, <2>9, <2>10, <2>11, OwnPush
  <2> QED BY <1>2, <1>3, <2>12
<1>11. CASE TraceOff(n, g, h, c, made)
  <2>1. /\ g.sniffer # None /\ h.sniffer = g.sniffer /\ h.head = As(n)
        /\ c = <<Unlink(g.sniffer), Link(As(n), Vhost(n))>>
    BY <1>11 DEF TraceOff, RelinkCalls
  <2>2. g.sniffer \in Sniffers(n)
    BY <2>1 DEF GraphInv, ReqInv
  <2>3. /\ Unlink(g.sniffer) \in PathCalls(n)' /\ Link(As(n), Vhost(n)) \in PathCalls(n)'
    <3>1. Unlink(g.sniffer) \in Rpc /\ Link(As(n), Vhost(n)) \in Rpc
      BY <1>5, <2>2 DEF Rpc
    <3>2. Unlink(g.sniffer).args[1] = g.sniffer /\ Unlink(g.sniffer).action = "UNLINK"
      BY DEF Unlink
    <3>3. Unlink(g.sniffer) \in PathCalls(n)'
      BY <1>2, <2>1, <3>1, <3>2 DEF PathCalls, PathCall, Detour
    <3>4. Link(As(n), Vhost(n)) \in PathCalls(n)'
      BY <1>5, <3>1, CallFields DEF PathCalls, PathCall, Detour
    <3> QED BY <3>3, <3>4
  <2>4. d \in Seq(PathCalls(n)')
    <3>1. PICK T : T = PathCalls(n)'
      OBVIOUS
    <3>2. c \in Seq(T)
      BY <2>1, <2>3, <3>1, SeqLiterals
    <3> QED BY <1>6, <3>1, <3>2, SeqJoin
  <2>5. As(n) \notin Sniffers(n) /\ As(n) # Vhost(n) /\ Vhost(n) \notin Sniffers(n)
    BY NicBricksDiffer
  <2>6. ASSUME NEW x \in Sniffers(n) PROVE Led(d, n, x)
    <3>1. c[1] # Link(As(n), x) /\ c[2] # Link(As(n), x) /\ Len(c) = 2
          /\ \A i \in 1..2 : i = 1 \/ i = 2
      BY <2>1, <2>5 DEF Link, Unlink
    <3>2. \A i \in 1..Len(d) : d[i] # Link(As(n), x)
      <4>1. \A i \in 1..Len(d) : \/ i \in 1..Len(c) /\ d[i] = c[i]
                                 \/ \E j \in 1..Len(u) : d[i] = u[j]
        BY <1>2, <1>6, JoinedIndex
      <4> HIDE DEF d
      <4> QED BY <1>7, <3>1, <4>1
    <3> QED BY <3>2 DEF Led
  <2> HIDE DEF d
  <2>7. queue' = queue \o d /\ branch'[n].head = As(n) /\ branch'[n].sniffer = g.sniffer
    BY <1>2, <2>1 DEF d
  <2>8. PathOf(n)'
    BY <1>1, <2>4, <2>5, <2>6, <2>7, OwnPush
  <2> QED BY <1>2, <1>3, <2>8
<1> QED BY <1>2, <1>9, <1>10, <1>11 DEF TraceChange

LEMMA PathInit ==
  ASSUME Init
  PROVE  PathInv
BY DEF Init, PathInv, Nics

LEMMA PhasePath ==
  ASSUME PathInv, UNCHANGED <<branch, links, queue, running, pc, req>>
  PROVE  PathInv'
<1>1. Nics' = Nics
  BY DEF Nics
<1>2. ASSUME NEW n, PathOf(n) PROVE PathOf(n)'
  <2>1. PathCalls(n)' = PathCalls(n) /\ (Deleting(n)' <=> Deleting(n))
    BY PathCallsSame
  <2> QED BY <1>2, <2>1 DEF PathOf
<1> QED BY <1>1, <1>2 DEF PathInv

LEMMA PathStep ==
  ASSUME SameTraceFiles, GraphInv, BrickInv, PathInv, [Next]_vars
  PROVE  PathInv'
<1> USE DEF BrickInv
<1>1. ASSUME \A n \in Nics : ~ branch[n].bypass => PathOf(n)',
             \A n \in Nics' : n \in Nics /\ branch'[n].bypass = branch[n].bypass
      PROVE  PathInv'
  BY <1>1 DEF PathInv
<1>2. ASSUME branch' = branch
      PROVE  \A n \in Nics' : n \in Nics /\ branch'[n].bypass = branch[n].bypass
  BY <1>2 DEF Nics
<1>3. CASE ApiRequest
  <2>1. PICK m \in NicId : RequestStep(m)
    BY <1>3, RequestCases
  <2>2. CASE DelStep(m)
    <3>1. PICK next : Ready /\ next.nic = m /\ NicDel(m, next)
      BY <2>2 DEF DelStep
    <3>2. \A n \in Nics : ~ branch[n].bypass => PathOf(n)'
      BY <3>1, NicDelPath DEF PathInv
    <3>3. /\ branch'[m].bypass = branch[m].bypass /\ Nics' = Nics
          /\ \A n \in NicId : n # m => branch'[n] = branch[n]
      BY <3>1, NicDelSteps
    <3> QED BY <1>1, <3>2, <3>3 DEF Nics
  <2>3. CASE AddStep(m)
    <3>1. \A n \in Nics : ~ branch[n].bypass => PathOf(n)'
      BY <2>3, NicAddStartPath DEF PathInv
    <3> QED BY <1>1, <1>2, <2>3, <3>1 DEF AddStep
  <2>4. CASE SgRequest(m)
    <3>1. \A n \in Nics : ~ branch[n].bypass => PathOf(n)'
      BY <2>4, SgRequestPath DEF PathInv
    <3> QED BY <1>1, <1>2, <2>4, <3>1 DEF SgRequest
  <2>5. CASE TraceStep(m)
    <3>1. \A n \in Nics : ~ branch[n].bypass => PathOf(n)'
      BY <2>5, UpdatePathOther, UpdatePathOwn DEF PathInv
    <3>2. PICK h, c, made :
            /\ TraceChange(m, branch[m], h, c, made) /\ branch'[m] = h
            /\ \A n \in NicId : n # m => branch'[n] = branch[n]
            /\ Nics' = Nics
      BY <2>5, UpdateSteps
    <3>3. branch'[m].bypass = branch[m].bypass
      BY <3>2 DEF TraceChange
    <3> QED BY <1>1, <3>1, <3>2, <3>3 DEF Nics
  <2> QED BY <2>1, <2>2, <2>3, <2>4, <2>5 DEF RequestStep
<1>4. CASE NicDelSwitch
  <2>1. \A n \in Nics : ~ branch[n].bypass => PathOf(n)'
    BY <1>4, NicDelSwitchPath DEF PathInv
  <2> QED BY <1>1, <1>2, <1>4, <2>1 DEF NicDelSwitch
<1>5. CASE NicDelDone
  <2>1. PICK m : m = req.nic /\ branch' = [branch EXCEPT ![m] = None]
    BY <1>5 DEF NicDelDone
  <2>2. m \in NicId /\ branch'[m] = None
    BY <1>5, <2>1 DEF NicDelDone, GraphInv, ReqInv, TypeOK, Nics
  <2>3. \A n \in Nics' : n \in Nics /\ n # m /\ branch'[n] = branch[n]
    BY <2>1, <2>2 DEF Nics, GraphInv, TypeOK
  <2>4. \A n \in Nics : n # m /\ ~ branch[n].bypass => PathOf(n)'
    BY <1>5, <2>1, NicDelDonePath DEF PathInv
  <2> QED BY <2>3, <2>4 DEF PathInv
<1>6. CASE NicAddDone
  BY <1>6, NicAddDonePath
<1>7. CASE NicAddFails
  <2>1. \A n \in Nics : ~ branch[n].bypass => PathOf(n)'
    BY <1>7, NicAddFailsPath DEF PathInv
  <2> QED BY <1>1, <1>2, <1>7, <2>1 DEF NicAddFails
<1>8. CASE PollerUpdateBegin \/ PollerUpdateEnd
  BY <1>8, PhasePath DEF PollerUpdateBegin, PollerUpdateEnd, api
<1>9. CASE PollerPop
  <2>1. \A n \in Nics : ~ branch[n].bypass => PathOf(n)'
    BY <1>9, PopPath DEF PathInv
  <2> QED BY <1>1, <1>2, <1>9, <2>1 DEF PollerPop
<1>10. CASE PollerExecute
  <2>1. \A n \in Nics : ~ branch[n].bypass => PathOf(n)'
    BY <1>10, ExecutePath DEF PathInv
  <2>2. branch' = branch
    BY <1>10, ExecuteCases, ExecutedFrame DEF GraphInv
  <2> QED BY <1>1, <1>2, <2>1, <2>2
<1>11. CASE UNCHANGED vars
  BY <1>11, PhasePath DEF vars
<1> QED
  BY <1>3, <1>4, <1>5, <1>6, <1>7, <1>8, <1>9, <1>10, <1>11
     DEF Next, ApiStep, PollerStep, PollerExecute

(* While no client changes a trace file, no packet reaches the vhost of a  *)
(* NIC around its firewall: every link to a brick behind the firewall of a *)
(* filtered NIC comes from its own branch.  NicDel may ask the poller for  *)
(* another one, to the head of the branch that stays; packetgraph refuses  *)
(* it, for that brick already has a link on its west side.                 *)
THEOREM GraphNoUnfilteredPath ==
  ASSUME SameTraceFiles PROVE Spec => []NoUnfilteredPath
<1>1. Init => PathInv
  BY PathInit
<1>2. GraphInv /\ BrickInv /\ PathInv /\ [Next]_vars => PathInv'
  BY PathStep
<1>3. PathInv => NoUnfilteredPath
  BY DEF PathInv, PathOf, WayOk, NoUnfilteredPath, Guarded
<1>4. Spec => [](GraphInv /\ BrickInv)
  BY BrickInvariant
<1> QED BY <1>1, <1>2, <1>3, <1>4, PTL DEF Spec

-----------------------------------------------------------------------------
(* Where the calls lead.  From here on no trace is changed.                *)

NoTraceUpdates == Updates = {}

(* Links and ports once a brick is unlinked, and after a call.             *)
Cut(b, st) == [l |-> Without({b}, st.l), p |-> Linked(st.p, Without({b}, st.l))]
After(c, st) ==
  CASE c.action = "LINK" ->
         [l |-> BrickLink(c.args[1], c.args[2], st.l), p |-> st.p]
    [] c.action \in {"UNLINK", "BRICK_DESTROY"} -> Cut(c.args[1], st)
    [] c.action = "UNLINK_EDGE" ->
         [l |-> st.l \ {c.args}, p |-> Linked(st.p, st.l \ {c.args})]
    [] c.action = "ADD_VNI" ->
         [l |-> st.l,
          p |-> Linked({x \in st.p : x[1] # c.vni} \cup {<<c.vni, c.args[2]>>}, st.l)]
    [] OTHER -> st

(* Executing r and then q leads from the links and ports st to end: tr is  *)
(* what they are in between.                                               *)
LeadsTo(q, r, st, end) ==
  \E tr : /\ tr[1] = After(r, st)
          /\ \A i \in 1..Len(q) : tr[i + 1] = After(q[i], tr[i])
          /\ tr[Len(q) + 1] = end

(* How the NICs S of VNI v, with heads H, are put behind the vtep: two or  *)
(* more through the switch, a single one directly.  Gate is the brick that *)
(* the vtep sends packets of v to.                                         *)
Two(S) == \E n, m \in S : n # m
Gate(v, S, H) == IF Two(S) THEN {Sw(v)} ELSE {H[n] : n \in S}
Gates(v, S, H) ==
  IF Two(S) THEN {<<Vtep, Sw(v)>>} \cup {<<Sw(v), H[n]>> : n \in S}
  ELSE {<<Vtep, H[n]>> : n \in S}
Gated(st, v, S, H) == /\ Gates(v, S, H) \subseteq st.l
                      /\ \A b \in Gate(v, S, H) : <<v, b>> \in st.p

(* Vtep and switches have sides enough for the NICs.                       *)
Enough == /\ IsFiniteSet(Vni) /\ Cardinality(Vni) <= VtepMax
          /\ MaxPerVni <= SwitchMax

(* The wiring of NICs N: I[n] are the links inside the branch of n, M the  *)
(* NICs that stay, S[v] those behind the vtep in VNI v.  There is no other *)
(* link and, with sides enough, none is missing.                           *)
Only(ls, N, I, S, H) ==
  \A l \in ls : (\E n \in N : l \in I[n]) \/ (\E v \in Vni : l \in Gates(v, S[v], H))
Wired(st, N, M, I, S, H) ==
  /\ Only(st.l, N, I, S, H)
  /\ Enough => /\ \A n \in M : I[n] \subseteq st.l
               /\ \A v \in Vni : Gated(st, v, S[v], H)

(* A branch is linked inside its bricks and from its head on, and is in    *)
(* one VNI.                                                                *)
Frame(N, M, I, S, H) ==
  /\ M \subseteq N
  /\ \A n \in N : /\ H[n] \in Bricks(n) /\ I[n] \subseteq Bricks(n) \X Bricks(n)
                  /\ \A l \in I[n] : l[2] # H[n]
  /\ \A v \in Vni : S[v] \subseteq M
  /\ \A v, w \in Vni : v # w => S[v] \cap S[w] = {}

(* S is T but for v.                                                       *)
Differ(S, T, v) == \A w \in Vni : w # v => S[w] = T[w]

-----------------------------------------------------------------------------
(* Where the calls lead: what links and ports will be.                     *)

LEMMA AfterLink ==
  ASSUME NEW ls, NEW ps, NEW w, NEW e
  PROVE  After(Link(w, e), [l |-> ls, p |-> ps]) = [l |-> BrickLink(w, e, ls), p |-> ps]
BY DEF Link, After

LEMMA AfterCut ==
  ASSUME NEW st, NEW b
  PROVE  After(Unlink(b), st) = Cut(b, st) /\ After(BrickDestroy(b), st) = Cut(b, st)
BY DEF Unlink, BrickDestroy, After, Cut

LEMMA AfterAddVni ==
  ASSUME NEW ls, NEW ps, NEW b, NEW v
  PROVE  After(AddVni(b, v), [l |-> ls, p |-> ps]) =
           [l |-> ls, p |-> Linked({x \in ps : x[1] # v} \cup {<<v, b>>}, ls)]
BY DEF AddVni, After

LEMMA AfterOther ==
  ASSUME NEW st
  PROVE  /\ \A b : After(FwReload(b), st) = st
         /\ \A n : After(FwNew(n), st) = st
         /\ \A s : After(UpdatePoll(s), st) = st
         /\ After(Nothing, st) = st /\ After(Idle, st) = st
BY DEF FwReload, FwNew, UpdatePoll, Nothing, Idle, After

LEMMA LeadsEmpty ==
  ASSUME NEW r, NEW st, NEW end
  PROVE  LeadsTo(<<>>, r, st, end) <=> end = After(r, st)
<1>1. Len(<<>>) = 0
  OBVIOUS
<1>2. ASSUME LeadsTo(<<>>, r, st, end) PROVE end = After(r, st)
  BY <1>1, <1>2 DEF LeadsTo
<1>3. ASSUME end = After(r, st) PROVE LeadsTo(<<>>, r, st, end)
  <2> DEFINE tr == [i \in {1} |-> end]
  <2>1. /\ tr[1] = After(r, st) /\ tr[Len(<<>>) + 1] = end
        /\ \A i \in 1..Len(<<>>) : tr[i + 1] = After(<<>>[i], tr[i])
    BY <1>1, <1>3
  <2> QED BY <2>1 DEF LeadsTo
<1> QED BY <1>2, <1>3

LEMMA LeadsAppend ==
  ASSUME NEW q \in Seq(Rpc), NEW c, NEW r, NEW st, NEW end, LeadsTo(q, r, st, end)
  PROVE  LeadsTo(Append(q, c), r, st, After(c, end))
<1>1. PICK tr : /\ tr[1] = After(r, st)
                /\ \A i \in 1..Len(q) : tr[i + 1] = After(q[i], tr[i])
                /\ tr[Len(q) + 1] = end
  BY DEF LeadsTo
<1>2. PICK k : k \in Nat /\ k = Len(q)
  OBVIOUS
<1>3. /\ Len(Append(q, c)) = k + 1 /\ Append(q, c)[k + 1] = c
      /\ \A i \in 1..k : Append(q, c)[i] = q[i]
  BY <1>2
<1> DEFINE tt == [i \in 1..(k + 2) |-> IF i = k + 2 THEN After(c, end) ELSE tr[i]]
<1>4. /\ tt[1] = After(r, st) /\ tt[k + 2] = After(c, end) /\ tt[k + 1] = end
      /\ \A i \in 1..k : tt[i] = tr[i] /\ tt[i + 1] = tr[i + 1]
  BY <1>1, <1>2
<1> HIDE DEF tt
<1>5. ASSUME NEW i \in 1..(k + 1) PROVE tt[i + 1] = After(Append(q, c)[i], tt[i])
  <2>1. CASE i = k + 1
    <3>1. i + 1 = k + 2
      BY <1>2, <2>1
    <3> QED BY <1>3, <1>4, <2>1, <3>1
  <2>2. CASE i # k + 1
    <3>1. i \in 1..k
      BY <1>2, <2>2
    <3> QED BY <1>1, <1>2, <1>3, <1>4, <3>1
  <2> QED BY <2>1, <2>2
<1>6. Len(Append(q, c)) + 1 = k + 2
  BY <1>2, <1>3
<1> QED BY <1>3, <1>4, <1>5, <1>6 DEF LeadsTo

LEMMA LeadsPop ==
  ASSUME NEW q \in Seq(Rpc), q # <<>>, NEW st, NEW end, LeadsTo(q, Idle, st, end)
  PROVE  LeadsTo(Tail(q), Head(q), st, end)
<1>1. PICK tr : /\ tr[1] = After(Idle, st)
                /\ \A i \in 1..Len(q) : tr[i + 1] = After(q[i], tr[i])
                /\ tr[Len(q) + 1] = end
  BY DEF LeadsTo
<1>2. PICK k : k \in Nat \ {0} /\ k = Len(q)
  BY TailFacts
<1>3. /\ Len(Tail(q)) = k - 1 /\ Head(q) = q[1]
      /\ \A i \in 1..(k - 1) : Tail(q)[i] = q[i + 1]
  BY <1>2, TailFacts
<1>4. tr[1] = st
  BY <1>1, AfterOther
<1> DEFINE tt == [i \in 1..k |-> tr[i + 1]]
<1>5. /\ \A i \in 1..k : tt[i] = tr[i + 1]
      /\ \A i \in 1..(k - 1) : i \in 1..k /\ i + 1 \in 1..k
      /\ 1 \in 1..k /\ k \in 1..k /\ (k - 1) + 1 = k /\ 1 + 1 = 2
  BY <1>2
<1> HIDE DEF tt
<1>6. tt[1] = After(Head(q), st)
  BY <1>1, <1>2, <1>3, <1>4, <1>5
<1>7. tt[Len(Tail(q)) + 1] = end
  BY <1>1, <1>2, <1>3, <1>5
<1>8. ASSUME NEW i \in 1..(k - 1) PROVE tt[i + 1] = After(Tail(q)[i], tt[i])
  <2>1. tt[i + 1] = tr[(i + 1) + 1] /\ tt[i] = tr[i + 1] /\ Tail(q)[i] = q[i + 1]
    BY <1>3, <1>5
  <2>2. i + 1 \in 1..Len(q)
    BY <1>2, <1>5
  <2> QED BY <1>1, <2>1, <2>2
<1> QED BY <1>3, <1>6, <1>7, <1>8 DEF LeadsTo

LEMMA LeadsExecute ==
  ASSUME NEW q, NEW r, NEW st, NEW end, LeadsTo(q, r, st, end)
  PROVE  LeadsTo(q, Idle, After(r, st), end)
<1>1. After(Idle, After(r, st)) = After(r, st)
  BY AfterOther
<1> QED BY <1>1 DEF LeadsTo

(* What executing the popped call does.                                    *)
Now == [l |-> links, p |-> ports]
LEMMA ExecuteAfter ==
  ASSUME TypeOK, PollerExecute
  PROVE  Now' = After(running, Now)
<1>1. Now.l = links /\ Now.p = ports
  BY DEF Now
<1>2. Now' = [l |-> links', p |-> ports']
  BY DEF Now
<1>3. running.action \in {"LINK", "UNLINK", "UNLINK_EDGE", "ADD_VNI", "UPDATE_POLL",
                          "FW_NEW", "BRICK_DESTROY", "NOTHING", "FW_RELOAD"}
  BY ExecuteCases
<1>4. CASE running.action = "LINK"
  BY <1>1, <1>2, <1>4, ExecuteCases DEF After
<1>5. CASE running.action \in {"UNLINK", "BRICK_DESTROY"}
  BY <1>1, <1>2, <1>5, ExecuteCases DEF After, Cut
<1>6. CASE running.action = "UNLINK_EDGE"
  BY <1>1, <1>2, <1>6, ExecuteCases DEF After
<1>7. CASE running.action = "ADD_VNI"
  BY <1>1, <1>2, <1>7, ExecuteCases DEF After
<1>8. CASE running.action \in {"UPDATE_POLL", "FW_NEW", "NOTHING", "FW_RELOAD"}
  <2>1. links' = links /\ ports' = ports
    BY <1>8, ExecuteCases
  <2>2. After(running, Now) = Now
    BY <1>8 DEF After
  <2> QED BY <1>2, <2>1, <2>2 DEF Now
<1> QED BY <1>3, <1>4, <1>5, <1>6, <1>7, <1>8
-----------------------------------------------------------------------------
(* The wiring.                                                             *)

LEMMA ImageBound ==
  ASSUME NEW S, IsFiniteSet(S), NEW f, NEW T, \A t \in T : \E s \in S : t = f[s]
  PROVE  IsFiniteSet(T) /\ Cardinality(T) \in Nat /\ Cardinality(T) <= Cardinality(S)
         /\ Cardinality(S) \in Nat
<1> DEFINE R == {f[s] : s \in S}
           g == [s \in S |-> f[s]]
<1>1. g \in Surjection(S, R)
  BY DEF Surjection
<1>2. T \in SUBSET R
  OBVIOUS
<1> HIDE DEF R, g
<1>3. IsFiniteSet(R) /\ Cardinality(R) <= Cardinality(S)
  BY <1>1, FS_Surjection
<1>4. IsFiniteSet(T) /\ Cardinality(T) <= Cardinality(R)
  BY <1>2, <1>3, FS_Subset
<1>5. Cardinality(R) \in Nat /\ Cardinality(S) \in Nat /\ Cardinality(T) \in Nat
  BY <1>3, <1>4, FS_CardinalityType
<1> QED BY <1>3, <1>4, <1>5

LEMMA NamesDiffer ==
  ASSUME NEW n, NEW m, NEW a \in Bricks(n), NEW v, NEW w
  PROVE  /\ a \in Bricks(m) => n = m
         /\ a # Vtep /\ a # Sw(v) /\ Sw(v) # Vtep
         /\ Sw(v) = Sw(w) => v = w
<1>1. a \in Bricks(m) => n = m
  BY OwnBrick
<1>2. a # Vtep /\ a # Sw(v) /\ Sw(v) # Vtep
  BY BrickKinds
<1>3. Sw(v) = Sw(w) => v = w
  BY DEF Sw
<1> QED BY <1>1, <1>2, <1>3

(* What a link is.                                                         *)
InnerLink(l, N, I, H) ==
  \E n \in N : /\ l \in I[n] /\ l = <<l[1], l[2]>> /\ l[1] \in Bricks(n)
               /\ l[2] \in Bricks(n) /\ l[2] # H[n]
SwitchLink(l, v, S) == Two(S) /\ l = <<Vtep, Sw(v)>> /\ l[1] = Vtep /\ l[2] = Sw(v)
PortLink(l, v, S, H) ==
  \E n \in S : Two(S) /\ l = <<Sw(v), H[n]>> /\ l[1] = Sw(v) /\ l[2] = H[n]
SoleLink(l, v, S, H) ==
  \E n \in S : S = {n} /\ l = <<Vtep, H[n]>> /\ l[1] = Vtep /\ l[2] = H[n]

LEMMA GateLinks ==
  ASSUME NEW v, NEW S, NEW H, NEW l
  PROVE  l \in Gates(v, S, H) <=>
           SwitchLink(l, v, S) \/ PortLink(l, v, S, H) \/ SoleLink(l, v, S, H)
<1>1. CASE Two(S)
  <2>1. ~ SoleLink(l, v, S, H)
    BY <1>1 DEF Two, SoleLink
  <2>2. l \in Gates(v, S, H) <=> l = <<Vtep, Sw(v)>> \/ \E n \in S : l = <<Sw(v), H[n]>>
    BY <1>1 DEF Gates
  <2> QED BY <1>1, <2>1, <2>2 DEF SwitchLink, PortLink
<1>2. CASE ~ Two(S)
  <2>1. ~ SwitchLink(l, v, S) /\ ~ PortLink(l, v, S, H)
    BY <1>2 DEF SwitchLink, PortLink
  <2>2. l \in Gates(v, S, H) <=> \E n \in S : l = <<Vtep, H[n]>>
    BY <1>2 DEF Gates
  <2>3. \A n \in S : S = {n}
    BY <1>2 DEF Two
  <2> QED BY <2>1, <2>2, <2>3 DEF SoleLink
<1> QED BY <1>1, <1>2

LEMMA LinkKinds ==
  ASSUME NEW N, NEW M, NEW I, NEW S, NEW H, Frame(N, M, I, S, H),
         NEW ls, Only(ls, N, I, S, H), NEW l \in ls
  PROVE  \/ InnerLink(l, N, I, H)
         \/ \E v \in Vni : \/ SwitchLink(l, v, S[v]) \/ PortLink(l, v, S[v], H)
                           \/ SoleLink(l, v, S[v], H)
<1>1. CASE \E n \in N : l \in I[n]
  BY <1>1 DEF Frame, InnerLink
<1>2. CASE \E v \in Vni : l \in Gates(v, S[v], H)
  BY <1>2, GateLinks
<1> QED BY <1>1, <1>2 DEF Only

(* Links that end at the head of a branch, or at a switch.                 *)
LEMMA HeadLinks ==
  ASSUME NEW N, NEW M, NEW I, NEW S, NEW H, Frame(N, M, I, S, H),
         NEW ls, Only(ls, N, I, S, H), NEW l \in ls
  PROVE  /\ \A n \in N : l[2] = H[n] =>
              \E v \in Vni : n \in S[v] /\ l \in Gates(v, S[v], H)
                             /\ l = IF Two(S[v]) THEN <<Sw(v), H[n]>> ELSE <<Vtep, H[n]>>
         /\ \A v \in Vni : Sw(v) \in {l[1], l[2]} => Two(S[v]) /\ l \in Gates(v, S[v], H)
         /\ l[1] = Vtep => \E v \in Vni : l \in Gates(v, S[v], H)
         /\ \A n \in N : (l[1] \in Bricks(n) \/ (l[2] \in Bricks(n) /\ l[2] # H[n])) =>
              l \in I[n] /\ l[1] \in Bricks(n) /\ l[2] \in Bricks(n)
<1>1. \A v \in Vni : \A n \in S[v] : n \in N /\ H[n] \in Bricks(n)
  BY DEF Frame
<1>2. CASE InnerLink(l, N, I, H)
  <2>1. PICK n \in N : /\ l \in I[n] /\ l[1] \in Bricks(n) /\ l[2] \in Bricks(n)
                       /\ l[2] # H[n]
    BY <1>2 DEF InnerLink
  <2>2. \A m \in N : l[2] # H[m]
    BY <2>1, NamesDiffer DEF Frame
  <2>3. \A m \in N : l[1] \in Bricks(m) \/ l[2] \in Bricks(m) => m = n
    BY <2>1, NamesDiffer
  <2>4. l[1] # Vtep /\ \A v : Sw(v) \notin {l[1], l[2]}
    BY <2>1, NamesDiffer
  <2> QED BY <2>1, <2>2, <2>3, <2>4
<1>3. ASSUME NEW v \in Vni, SwitchLink(l, v, S[v])
      PROVE  /\ \A n \in N : l[2] # H[n] /\ l[1] \notin Bricks(n) /\ l[2] \notin Bricks(n)
             /\ \A w : Sw(w) \in {l[1], l[2]} => v = w
             /\ Two(S[v]) /\ l \in Gates(v, S[v], H)
  <2>1. l[1] = Vtep /\ l[2] = Sw(v) /\ Two(S[v]) /\ l \in Gates(v, S[v], H)
    BY <1>3, GateLinks DEF SwitchLink
  <2>2. \A n \in N : l[2] # H[n] /\ l[1] \notin Bricks(n) /\ l[2] \notin Bricks(n)
    BY <2>1, NamesDiffer DEF Frame
  <2>3. \A w : Sw(w) \in {l[1], l[2]} => v = w
    BY <2>1 DEF Sw, Vtep
  <2> QED BY <2>1, <2>2, <2>3
<1>4. ASSUME NEW v \in Vni, NEW m \in S[v], l[1] \in {Vtep, Sw(v)}, l[2] = H[m]
      PROVE  /\ \A n \in N : l[2] = H[n] => n = m
             /\ \A n \in N : l[1] \notin Bricks(n)
             /\ \A n \in N : l[2] \in Bricks(n) => n = m
             /\ \A w : Sw(w) \in {l[1], l[2]} => v = w /\ l[1] = Sw(v)
  <2>1. m \in N /\ H[m] \in Bricks(m)
    BY <1>1
  <2>2. \A n \in N : l[2] = H[n] => n = m
    BY <1>4, <2>1, NamesDiffer DEF Frame
  <2>3. \A n \in N : l[1] \notin Bricks(n) /\ (l[2] \in Bricks(n) => n = m)
    BY <1>4, <2>1, NamesDiffer
  <2>4. \A w : Sw(w) \in {l[1], l[2]} => v = w /\ l[1] = Sw(v)
    <3>1. \A w : Sw(w) # Vtep /\ H[m] # Sw(w)
      BY <2>1, NamesDiffer
    <3> QED BY <1>4, <3>1 DEF Sw
  <2> QED BY <2>2, <2>3, <2>4
<1>5. CASE \E v \in Vni : SwitchLink(l, v, S[v])
  BY <1>3, <1>5
<1>6. CASE \E v \in Vni : PortLink(l, v, S[v], H)
  <2>1. PICK v \in Vni : PortLink(l, v, S[v], H)
    BY <1>6
  <2>2. PICK m \in S[v] : Two(S[v]) /\ l = <<Sw(v), H[m]>> /\ l[1] = Sw(v) /\ l[2] = H[m]
    BY <2>1 DEF PortLink
  <2>3. l \in Gates(v, S[v], H) /\ Sw(v) # Vtep
    BY <2>1, GateLinks, BrickKinds DEF Sw, Vtep
  <2>4. \A n \in N : l[2] = H[n] => n = m
    BY <1>4, <2>2
  <2>5. \A n \in N : l[1] \notin Bricks(n) /\ (l[2] \in Bricks(n) => n = m)
    BY <1>4, <2>2
  <2>6. \A w : Sw(w) \in {l[1], l[2]} => v = w
    BY <1>4, <2>2
  <2> QED BY <2>2, <2>3, <2>4, <2>5, <2>6
<1>7. CASE \E v \in Vni : SoleLink(l, v, S[v], H)
  <2>1. PICK v \in Vni : SoleLink(l, v, S[v], H)
    BY <1>7
  <2>2. PICK m \in S[v] : S[v] = {m} /\ l = <<Vtep, H[m]>> /\ l[1] = Vtep /\ l[2] = H[m]
    BY <2>1 DEF SoleLink
  <2>3. l \in Gates(v, S[v], H) /\ ~ Two(S[v]) /\ \A w : Sw(w) # Vtep
    BY <2>1, <2>2, GateLinks DEF Sw, Vtep, Two
  <2>4. \A n \in N : l[2] = H[n] => n = m
    BY <1>4, <2>2
  <2>5. \A n \in N : l[1] \notin Bricks(n) /\ (l[2] \in Bricks(n) => n = m)
    BY <1>4, <2>2
  <2>6. \A w : Sw(w) \notin {l[1], l[2]}
    BY <1>4, <2>2, <2>3
  <2> QED BY <2>2, <2>3, <2>4, <2>5, <2>6
<1> QED BY <1>2, <1>5, <1>6, <1>7, LinkKinds

(* Sides enough: the links of the vtep are one for each VNI.               *)
LEMMA VtepRoom ==
  ASSUME NEW N, NEW M, NEW I, NEW S, NEW H, Frame(N, M, I, S, H),
         NEW ls, Only(ls, N, I, S, H), NEW v \in Vni, S[v] = {}, Enough
  PROVE  Cardinality(East(Vtep, ls)) < VtepMax
<1> DEFINE f == [w \in Vni |-> CHOOSE l : l \in Gates(w, S[w], H) /\ l[1] = Vtep]
<1>1. ASSUME NEW w \in Vni, NEW l, NEW k, l \in Gates(w, S[w], H), l[1] = Vtep,
             k \in Gates(w, S[w], H), k[1] = Vtep
      PROVE  l = k
  <2>1. Sw(w) # Vtep
    BY DEF Sw, Vtep
  <2>2. \A x : x \in Gates(w, S[w], H) /\ x[1] = Vtep =>
                 SwitchLink(x, w, S[w]) \/ SoleLink(x, w, S[w], H)
    BY <2>1, GateLinks DEF PortLink
  <2>3. CASE Two(S[w])
    BY <1>1, <2>2, <2>3 DEF SwitchLink, SoleLink, Two
  <2>4. CASE ~ Two(S[w])
    BY <1>1, <2>2, <2>4 DEF SwitchLink, SoleLink
  <2> QED BY <2>3, <2>4
<1>2. ASSUME NEW l \in East(Vtep, ls) PROVE \E w \in Vni \ {v} : l = f[w]
  <2>1. l \in ls /\ l[1] = Vtep
    BY DEF East
  <2>2. PICK w \in Vni : l \in Gates(w, S[w], H)
    BY <2>1, HeadLinks
  <2>3. f[w] \in Gates(w, S[w], H) /\ f[w][1] = Vtep
    BY <2>1, <2>2
  <2>4. w # v
    BY <2>2, GateLinks DEF SwitchLink, PortLink, SoleLink, Two
  <2> HIDE DEF f
  <2> QED BY <1>1, <2>1, <2>2, <2>3, <2>4
<1> HIDE DEF f
<1>3. IsFiniteSet(Vni \ {v}) /\ Cardinality(Vni \ {v}) = Cardinality(Vni) - 1
      /\ Cardinality(Vni) \in Nat
  BY FS_RemoveElement, FS_CardinalityType DEF Enough
<1>4. Cardinality(East(Vtep, ls)) \in Nat
      /\ Cardinality(East(Vtep, ls)) <= Cardinality(Vni \ {v})
  BY <1>2, <1>3, ImageBound
<1> QED BY <1>3, <1>4, GraphAssumption DEF Enough

(* The links of a switch are one for each NIC.                             *)
LEMMA SwitchRoom ==
  ASSUME NEW N, NEW M, NEW I, NEW S, NEW H, Frame(N, M, I, S, H),
         NEW ls, Only(ls, N, I, S, H), NEW v \in Vni, IsFiniteSet(S[v])
  PROVE  /\ Cardinality(East(Sw(v), ls)) <= Cardinality(S[v])
         /\ Cardinality(East(Sw(v), ls)) \in Nat /\ Cardinality(S[v]) \in Nat
<1> DEFINE f == [n \in S[v] |-> <<Sw(v), H[n]>>]
<1>1. ASSUME NEW l \in East(Sw(v), ls) PROVE \E n \in S[v] : l = f[n]
  <2>1. l \in ls /\ l[1] = Sw(v)
    BY DEF East
  <2>2. l \in Gates(v, S[v], H) /\ Sw(v) # Vtep
    BY <2>1, HeadLinks DEF Sw, Vtep
  <2>3. PortLink(l, v, S[v], H)
    BY <2>1, <2>2, GateLinks DEF SwitchLink, SoleLink
  <2> QED BY <2>3 DEF PortLink
<1> HIDE DEF f
<1> QED BY <1>1, ImageBound

(* Ports stay with their links.                                            *)
LEMMA GatedStays ==
  ASSUME NEW st, NEW v, NEW S, NEW H, Gated(st, v, S, H),
         NEW ls, Gates(v, S, H) \subseteq ls
  PROVE  Gated([l |-> ls, p |-> Linked(st.p, ls)], v, S, H)
<1>1. \A b \in Gate(v, S, H) : <<Vtep, b>> \in Gates(v, S, H)
  BY DEF Gate, Gates
<1>2. \A b \in Gate(v, S, H) : <<v, b>> \in Linked(st.p, ls)
  BY <1>1 DEF Gated, Linked
<1> QED BY <1>2 DEF Gated

(* The ends of the links of a VNI.                                         *)
LEMMA GateEnds ==
  ASSUME NEW N, NEW M, NEW I, NEW S, NEW H, Frame(N, M, I, S, H),
         NEW v \in Vni, NEW l \in Gates(v, S[v], H)
  PROVE  /\ l[1] = Vtep \/ (l[1] = Sw(v) /\ Two(S[v]))
         /\ \/ l[2] = Sw(v) /\ Two(S[v])
            \/ \E n \in S[v] : l[2] = H[n] /\ l[2] \in Bricks(n)
<1>1. \A n \in S[v] : H[n] \in Bricks(n)
  BY DEF Frame
<1>2. CASE SwitchLink(l, v, S[v])
  BY <1>2 DEF SwitchLink
<1>3. CASE PortLink(l, v, S[v], H)
  BY <1>1, <1>3 DEF PortLink
<1>4. CASE SoleLink(l, v, S[v], H)
  BY <1>1, <1>4 DEF SoleLink
<1> QED BY <1>2, <1>3, <1>4, GateLinks

(* Other links of a wiring go when bricks are unlinked that neither the    *)
(* NICs that stay nor their gates use.                                     *)
LEMMA WiredCut ==
  ASSUME NEW st, NEW N, NEW M, NEW I, NEW S, NEW H, Wired(st, N, M, I, S, H),
         NEW K, K \subseteq M, NEW P, NEW T, NEW ls \in SUBSET st.l,
         Only(ls, P, I, T, H),
         \A n \in K : \A l \in I[n] : l \in st.l => l \in ls,
         \A v \in Vni :
           \/ T[v] = {}
           \/ T[v] = S[v] /\ \A l \in Gates(v, S[v], H) : l \in st.l => l \in ls
           \/ Gated(st, v, S[v], H) =>
                Gated([l |-> ls, p |-> Linked(st.p, ls)], v, T[v], H)
  PROVE  Wired([l |-> ls, p |-> Linked(st.p, ls)], P, K, I, T, H)
<1> DEFINE new == [l |-> ls, p |-> Linked(st.p, ls)]
<1>1. ASSUME Enough, NEW v \in Vni PROVE Gated(new, v, T[v], H)
  <2>1. Gated(st, v, S[v], H)
    BY <1>1 DEF Wired
  <2>2. CASE T[v] = {}
    BY <2>2 DEF Gated, Gates, Gate, Two
  <2>3. CASE T[v] = S[v] /\ (\A l \in Gates(v, S[v], H) : l \in st.l => l \in ls)
    <3>1. Gates(v, S[v], H) \subseteq ls
      BY <2>1, <2>3 DEF Gated
    <3> QED BY <2>1, <2>3, <3>1, GatedStays
  <2> QED BY <2>1, <2>2, <2>3
<1>2. ASSUME Enough, NEW n \in K PROVE I[n] \subseteq ls
  BY <1>2 DEF Wired
<1> QED BY <1>1, <1>2 DEF Wired

-----------------------------------------------------------------------------
(* What the calls of NicAdd and NicDel do to a wiring.                     *)

LEMMA OnlyMoves ==
  ASSUME NEW N, NEW I, NEW S, NEW T, NEW H, NEW ls, Only(ls, N, I, S, H),
         NEW v \in Vni, Differ(T, S, v), NEW k,
         \A l \in k : l \in ls \/ l \in Gates(v, T[v], H),
         \A l \in k : l \in Gates(v, S[v], H) => l \in Gates(v, T[v], H)
  PROVE  Only(k, N, I, T, H)
BY DEF Only, Differ

LEMMA NoGates ==
  ASSUME NEW v, NEW H, NEW l
  PROVE  l \notin Gates(v, {}, H)
BY DEF Gates, Two

LEMMA InnerEnds ==
  ASSUME NEW N, NEW M, NEW I, NEW S, NEW H, Frame(N, M, I, S, H),
         NEW n \in N, NEW l \in I[n]
  PROVE  l[1] \in Bricks(n) /\ l[2] \in Bricks(n)
BY DEF Frame

(* Unlinking the switch of a VNI.                                          *)
LEMMA CutSwitch ==
  ASSUME NEW st, NEW N, NEW M, NEW I, NEW S, NEW H, Frame(N, M, I, S, H),
         Wired(st, N, M, I, S, H), NEW v \in Vni, Two(S[v]),
         NEW T, Differ(T, S, v), T[v] = {}
  PROVE  Wired(Cut(Sw(v), st), N, M, I, T, H)
<1> DEFINE ls == Without({Sw(v)}, st.l)
<1>1. \A l \in st.l : l \in ls <=> l[1] # Sw(v) /\ l[2] # Sw(v)
  BY DEF Without
<1>2. ls \in SUBSET st.l
  BY DEF Without
<1> HIDE DEF ls
<1>3. \A l \in Gates(v, S[v], H) : l[1] = Sw(v) \/ l[2] = Sw(v)
  BY GateLinks DEF SwitchLink, PortLink, SoleLink, Two
<1>4. Only(ls, N, I, T, H)
  <2>1. \A l \in ls : l \in st.l /\ l \notin Gates(v, S[v], H)
    BY <1>1, <1>2, <1>3
  <2> QED BY <2>1, OnlyMoves DEF Wired
<1>5. \A n \in M : \A l \in I[n] : l \in st.l => l \in ls
  <2>1. \A n \in M : \A l \in I[n] : l[1] \in Bricks(n) /\ l[2] \in Bricks(n)
    BY InnerEnds DEF Frame
  <2> QED BY <1>1, <2>1, NamesDiffer
<1>6. ASSUME NEW w \in Vni, w # v, NEW l \in Gates(w, S[w], H), l \in st.l
      PROVE  l \in ls
  <2>1. l[1] # Sw(v)
    BY <1>6, GateEnds DEF Sw, Vtep
  <2>2. l[2] # Sw(v)
    <3>1. \A n : Sw(v) \notin Bricks(n)
      BY BrickKinds
    <3>2. Sw(w) # Sw(v)
      BY <1>6 DEF Sw
    <3> QED BY <3>1, <3>2, GateEnds
  <2> QED BY <1>1, <1>6, <2>1, <2>2
<1>7. Wired([l |-> ls, p |-> Linked(st.p, ls)], N, M, I, T, H)
  BY <1>2, <1>4, <1>5, <1>6, WiredCut DEF Differ
<1> QED BY <1>7 DEF Cut, ls

(* Unlinking the only NIC of a VNI from the vtep.                          *)
LEMMA CutSole ==
  ASSUME NEW st, NEW N, NEW M, NEW I, NEW S, NEW H, Frame(N, M, I, S, H),
         Wired(st, N, M, I, S, H), NEW v \in Vni, NEW o, S[v] = {o},
         NEW T, Differ(T, S, v), T[v] = {}, NEW ls, ls = st.l \ {<<Vtep, H[o]>>}
  PROVE  Wired([l |-> ls, p |-> Linked(st.p, ls)], N, M, I, T, H)
<1>1. \A l \in Gates(v, S[v], H) : l = <<Vtep, H[o]>>
  BY GateLinks DEF SwitchLink, PortLink, SoleLink, Two
<1>2. Only(ls, N, I, T, H)
  <2>1. \A l \in ls : l \in st.l /\ l \notin Gates(v, S[v], H)
    BY <1>1
  <2> QED BY <2>1, OnlyMoves DEF Wired
<1>3. \A n \in M : \A l \in I[n] : l \in st.l => l \in ls
  <2>1. \A n \in M : \A l \in I[n] : l[1] \in Bricks(n)
    BY InnerEnds DEF Frame
  <2>2. \A n \in M : \A l \in I[n] : l[1] # Vtep
    BY <2>1, NamesDiffer
  <2>3. <<Vtep, H[o]>>[1] = Vtep
    OBVIOUS
  <2> QED BY <2>2, <2>3
<1>4. ASSUME NEW w \in Vni, w # v, NEW l \in Gates(w, S[w], H), l \in st.l
      PROVE  l \in ls
  <2>1. o \in N /\ H[o] \in Bricks(o) /\ o \notin S[w]
    BY <1>4 DEF Frame
  <2>2. l[2] # H[o]
    <3>1. CASE l[2] = Sw(w)
      BY <2>1, <3>1, NamesDiffer
    <3>2. ASSUME NEW n \in S[w], l[2] \in Bricks(n) PROVE l[2] # H[o]
      BY <2>1, <3>2, NamesDiffer
    <3> QED BY <3>1, <3>2, GateEnds
  <2> QED BY <1>4, <2>2
<1>5. ls \in SUBSET st.l
  OBVIOUS
<1>6. \A w \in Vni :
        \/ T[w] = {}
        \/ T[w] = S[w] /\ \A l \in Gates(w, S[w], H) : l \in st.l => l \in ls
  BY <1>4 DEF Differ
<1> QED BY <1>2, <1>3, <1>5, <1>6, WiredCut

(* Unlinking the head of one of several NICs, or of the only one.          *)
LEMMA CutHead ==
  ASSUME NEW st, NEW N, NEW M, NEW I, NEW S, NEW H, Frame(N, M, I, S, H),
         Wired(st, N, M, I, S, H), NEW v \in Vni, NEW n \in S[v],
         S[v] = {n} \/ Two(S[v] \ {n}),
         NEW T, Differ(T, S, v), T[v] = S[v] \ {n}
  PROVE  Wired(Cut(H[n], st), N, M \ {n}, I, T, H)
<1> DEFINE ls == Without({H[n]}, st.l)
<1>1. \A l \in st.l : l \in ls <=> l[1] # H[n] /\ l[2] # H[n]
  BY DEF Without
<1>2. ls \in SUBSET st.l
  BY DEF Without
<1> HIDE DEF ls
<1>3. n \in N /\ n \in M /\ H[n] \in Bricks(n)
  BY DEF Frame
<1>4. \A l \in Gates(v, S[v], H) : l[2] # H[n] => l \in Gates(v, T[v], H)
  <2>1. CASE S[v] = {n}
    BY <2>1, GateLinks DEF SwitchLink, PortLink, SoleLink, Two
  <2>2. CASE Two(S[v] \ {n})
    <3>1. Two(T[v])
      BY <2>2
    <3>2. ASSUME NEW l \in Gates(v, S[v], H), l[2] # H[n]
          PROVE  SwitchLink(l, v, T[v]) \/ PortLink(l, v, T[v], H)
      <4>1. ~ SoleLink(l, v, S[v], H)
        BY <2>2 DEF SoleLink, Two
      <4>2. CASE SwitchLink(l, v, S[v])
        BY <3>1, <4>2 DEF SwitchLink
      <4>3. CASE PortLink(l, v, S[v], H)
        BY <3>1, <3>2, <4>3 DEF PortLink
      <4> QED BY <4>1, <4>2, <4>3, GateLinks
    <3> QED BY <3>2, GateLinks
  <2> QED BY <2>1, <2>2
<1>5. Only(ls, N, I, T, H)
  <2>1. \A l \in ls : l \in st.l /\ l[2] # H[n]
    BY <1>1, <1>2
  <2> QED BY <1>4, <2>1, OnlyMoves DEF Wired
<1>6. \A m \in M \ {n} : \A l \in I[m] : l \in st.l => l \in ls
  <2>1. \A m \in M : \A l \in I[m] : l[1] \in Bricks(m) /\ l[2] \in Bricks(m)
    BY InnerEnds DEF Frame
  <2>2. \A m \in M \ {n} : H[n] \notin Bricks(m)
    BY <1>3, NamesDiffer
  <2> QED BY <1>1, <2>1, <2>2
<1>7. ASSUME NEW w \in Vni, NEW l \in Gates(w, S[w], H), l \in st.l,
             w = v => l \in Gates(v, T[v], H)
      PROVE  l \in ls
  <2>1. l[1] # H[n]
    BY <1>3, GateEnds, NamesDiffer
  <2>2. l[2] # H[n]
    <3>1. CASE l[2] = Sw(w)
      BY <1>3, <3>1, NamesDiffer
    <3>2. CASE w # v
      <4>1. n \notin S[w]
        BY <3>2 DEF Frame
      <4>2. \A m \in S[w] : l[2] \in Bricks(m) => l[2] # H[n]
        BY <1>3, <4>1, NamesDiffer
      <4> QED BY <3>1, <4>2, GateEnds
    <3>3. CASE w = v /\ l[2] # Sw(w)
      <4>1. \E m \in T[v] : l[2] = H[m]
        BY <1>7, <3>3, GateLinks DEF SwitchLink, PortLink, SoleLink
      <4>2. PICK m \in T[v] : l[2] = H[m]
        BY <4>1
      <4>3. m # n /\ H[m] \in Bricks(m)
        BY <4>2 DEF Frame
      <4> QED BY <1>3, <4>2, <4>3, NamesDiffer
    <3> QED BY <3>1, <3>2, <3>3
  <2> QED BY <1>1, <1>7, <2>1, <2>2
<1>8. ASSUME Gated(st, v, S[v], H)
      PROVE  Gated([l |-> ls, p |-> Linked(st.p, ls)], v, T[v], H)
  <2>1. CASE T[v] = {}
    BY <2>1 DEF Gated, Gates, Gate, Two
  <2>2. CASE Two(S[v] \ {n})
    <3>1. Two(T[v]) /\ Two(S[v])
      BY <2>2 DEF Two
    <3>2. Gates(v, T[v], H) \subseteq Gates(v, S[v], H)
          /\ Gate(v, T[v], H) = Gate(v, S[v], H)
      BY <3>1 DEF Gates, Gate
    <3>3. Gated(st, v, T[v], H)
      BY <1>8, <3>2 DEF Gated
    <3>4. Gates(v, T[v], H) \subseteq ls
      BY <1>7, <1>8, <3>2 DEF Gated
    <3> QED BY <3>3, <3>4, GatedStays
  <2> QED BY <2>1, <2>2
<1>9. Wired([l |-> ls, p |-> Linked(st.p, ls)], N, M \ {n}, I, T, H)
  BY <1>2, <1>5, <1>6, <1>7, <1>8, WiredCut DEF Differ
<1> QED BY <1>9 DEF Cut, ls

(* Bricks go that the wiring does not need, and NICs with all their links. *)
LEMMA WiredWithout ==
  ASSUME NEW st, NEW N, NEW M, NEW I, NEW S, NEW H, Frame(N, M, I, S, H),
         Wired(st, N, M, I, S, H), NEW Z,
         \A b \in Z : \/ \E n \in N \ M : b \in Bricks(n)
                      \/ \E v \in Vni : b = Sw(v) /\ ~ Two(S[v]),
         NEW P, M \subseteq P, NEW ls, ls = Without(Z, st.l),
         \A n \in N \ P : \A l \in I[n] : l \notin ls
  PROVE  /\ Wired([l |-> ls, p |-> Linked(st.p, ls)], P, M, I, S, H)
         /\ \A l \in st.l \ ls : \E n \in N \ M : l \in I[n]
<1>1. \A l \in st.l : l \in ls <=> l[1] \notin Z /\ l[2] \notin Z
  BY DEF Without
<1>2. ls \in SUBSET st.l
  BY DEF Without
<1>3. Only(ls, P, I, S, H)
  BY <1>2 DEF Only, Wired
<1>4. \A n \in M : \A l \in I[n] : l \in st.l => l \in ls
  <2>1. \A n \in M : \A l \in I[n] : l[1] \in Bricks(n) /\ l[2] \in Bricks(n)
    BY InnerEnds DEF Frame
  <2>2. \A n \in M : \A b \in Bricks(n) : b \notin Z
    BY NamesDiffer
  <2> QED BY <1>1, <2>1, <2>2
<1>5. ASSUME NEW w \in Vni, NEW l \in Gates(w, S[w], H) PROVE l[1] \notin Z /\ l[2] \notin Z
  <2>1. Vtep \notin Z
    BY NamesDiffer DEF Sw, Vtep
  <2>2. Two(S[w]) => Sw(w) \notin Z
    BY NamesDiffer DEF Sw
  <2>3. \A n \in S[w] : \A b \in Bricks(n) : b \notin Z
    BY NamesDiffer DEF Frame
  <2> QED BY <2>1, <2>2, <2>3, GateEnds
<1>6. Wired([l |-> ls, p |-> Linked(st.p, ls)], P, M, I, S, H)
  BY <1>1, <1>2, <1>3, <1>4, <1>5, WiredCut
<1>7. ASSUME NEW l \in st.l \ ls PROVE \E n \in N \ M : l \in I[n]
  <2>1. ~ \E v \in Vni : l \in Gates(v, S[v], H)
    BY <1>1, <1>5
  <2>2. PICK n \in N : l \in I[n]
    BY <2>1 DEF Wired, Only
  <2> QED BY <1>4, <2>2
<1> QED BY <1>6, <1>7

(* A new branch, which nothing is linked to yet.                           *)
Grows(N, I, H, n, J, G) ==
  /\ n \notin N /\ \A m \in N : J[m] = I[m] /\ G[m] = H[m]
  /\ G[n] \in Bricks(n) /\ J[n] \subseteq Bricks(n) \X Bricks(n)
  /\ \A l \in J[n] : l[2] # G[n]

LEMMA WiredNew ==
  ASSUME NEW st, NEW N, NEW M, NEW I, NEW S, NEW H, Frame(N, M, I, S, H),
         Wired(st, N, M, I, S, H), NEW n, NEW J, NEW G, Grows(N, I, H, n, J, G),
         NEW ls, ls = J[n] \cup st.l
  PROVE  /\ Frame(N \cup {n}, M \cup {n}, J, S, G)
         /\ Wired([l |-> ls, p |-> Linked(st.p, ls)], N \cup {n}, M \cup {n}, J, S, G)
<1>1. /\ n \notin N /\ \A m \in N : J[m] = I[m] /\ G[m] = H[m]
      /\ G[n] \in Bricks(n) /\ J[n] \subseteq Bricks(n) \X Bricks(n)
      /\ \A l \in J[n] : l[2] # G[n]
  BY DEF Grows
<1>2. ASSUME NEW v \in Vni
      PROVE  Gates(v, S[v], G) = Gates(v, S[v], H) /\ Gate(v, S[v], G) = Gate(v, S[v], H)
  <2>1. \A m \in S[v] : G[m] = H[m]
    BY <1>1 DEF Frame
  <2>2. /\ {G[m] : m \in S[v]} = {H[m] : m \in S[v]}
        /\ {<<Vtep, G[m]>> : m \in S[v]} = {<<Vtep, H[m]>> : m \in S[v]}
        /\ {<<Sw(v), G[m]>> : m \in S[v]} = {<<Sw(v), H[m]>> : m \in S[v]}
    BY <2>1
  <2> QED BY <2>2 DEF Gates, Gate
<1>3. Frame(N \cup {n}, M \cup {n}, J, S, G)
  BY <1>1 DEF Frame
<1>4. Only(ls, N \cup {n}, J, S, G)
  <2>1. ASSUME NEW l \in st.l
        PROVE  (\E m \in N : l \in J[m]) \/ \E v \in Vni : l \in Gates(v, S[v], G)
    BY <1>1, <1>2 DEF Wired, Only
  <2> QED BY <2>1 DEF Only
<1>5. ASSUME Enough, NEW m \in M \cup {n} PROVE J[m] \subseteq ls
  BY <1>1, <1>5 DEF Wired, Frame
<1>6. ASSUME Enough, NEW v \in Vni
      PROVE  Gated([l |-> ls, p |-> Linked(st.p, ls)], v, S[v], G)
  <2>1. Gated(st, v, S[v], G)
    BY <1>2, <1>6 DEF Wired, Gated
  <2>2. Gates(v, S[v], G) \subseteq ls
    BY <2>1 DEF Gated
  <2> QED BY <2>1, <2>2, GatedStays
<1> QED BY <1>3, <1>4, <1>5, <1>6 DEF Wired

(* Ends with no link yet.                                                  *)
LEMMA FreeEnds ==
  ASSUME NEW N, NEW M, NEW I, NEW S, NEW H, Frame(N, M, I, S, H),
         NEW ls, Only(ls, N, I, S, H)
  PROVE  /\ \A n \in N : (\A v \in Vni : n \notin S[v]) => West(H[n], ls) = {}
         /\ \A v \in Vni : ~ Two(S[v]) => West(Sw(v), ls) = {} /\ East(Sw(v), ls) = {}
<1>1. ASSUME NEW n \in N, \A v \in Vni : n \notin S[v] PROVE West(H[n], ls) = {}
  BY <1>1, HeadLinks DEF West
<1>2. ASSUME NEW v \in Vni, ~ Two(S[v])
      PROVE  West(Sw(v), ls) = {} /\ East(Sw(v), ls) = {}
  <2>1. \A l \in ls : l[1] # Sw(v) /\ l[2] # Sw(v)
    BY <1>2, HeadLinks
  <2> QED BY <2>1 DEF West, East
<1> QED BY <1>1, <1>2

LEMMA LinkDone ==
  ASSUME NEW w, NEW e, NEW ls
  PROVE  /\ BrickLink(w, e, ls) \subseteq ls \cup {<<w, e>>}
         /\ ls \subseteq BrickLink(w, e, ls)
         /\ West(e, ls) = {} /\ w = Vtep /\ Cardinality(East(Vtep, ls)) < VtepMax =>
              BrickLink(w, e, ls) = ls \cup {<<w, e>>}
         /\ \A v : West(e, ls) = {} /\ w = Sw(v) /\ Cardinality(East(w, ls)) < SwitchMax =>
              BrickLink(w, e, ls) = ls \cup {<<w, e>>}
<1>1. BrickLink(w, e, ls) \subseteq ls \cup {<<w, e>>} /\ ls \subseteq BrickLink(w, e, ls)
  BY DEF BrickLink
<1>2. ASSUME West(e, ls) = {}, w = Vtep, Cardinality(East(Vtep, ls)) < VtepMax
      PROVE  BrickLink(w, e, ls) = ls \cup {<<w, e>>}
  <2>1. w[1] = "vtep"
    BY <1>2 DEF Vtep
  <2>2. CanLink(w, e, ls)
    BY <1>2, <2>1 DEF CanLink
  <2> QED BY <2>2 DEF BrickLink
<1>3. ASSUME NEW v, West(e, ls) = {}, w = Sw(v), Cardinality(East(w, ls)) < SwitchMax
      PROVE  BrickLink(w, e, ls) = ls \cup {<<w, e>>}
  <2>1. w[1] = "switch"
    BY <1>3 DEF Sw
  <2>2. CanLink(w, e, ls)
    BY <1>3, <2>1 DEF CanLink
  <2> QED BY <2>2 DEF BrickLink
<1> QED BY <1>1, <1>2, <1>3

(* The other VNIs keep their gates when v gets links and a port.           *)
LEMMA OthersGated ==
  ASSUME NEW st, NEW ls, st.l \subseteq ls, NEW v, NEW b, NEW w, w # v, NEW S, NEW H,
         Gated(st, w, S, H), NEW end, end.l = ls,
         NEW k, k \subseteq ls, st.l \subseteq k,
         end.p = Linked({x \in st.p : x[1] # v} \cup {<<v, b>>}, k)
  PROVE  Gated(end, w, S, H)
<1>1. \A c \in Gate(w, S, H) : <<Vtep, c>> \in Gates(w, S, H) /\ <<w, c>> \in st.p
  BY DEF Gate, Gates, Gated
<1>2. \A c \in Gate(w, S, H) : <<w, c>> \in end.p
  BY <1>1 DEF Gated, Linked
<1> QED BY <1>2 DEF Gated

(* The first NIC of a VNI.                                                 *)
LEMMA LinkSole ==
  ASSUME NEW st, st = [l |-> st.l, p |-> st.p], NEW N, NEW M, NEW I, NEW S, NEW H,
         Frame(N, M, I, S, H),
         Wired(st, N, M, I, S, H), NEW v \in Vni, S[v] = {},
         NEW n \in M, \A w \in Vni : n \notin S[w],
         NEW T, Differ(T, S, v), T[v] = {n}
  PROVE  Wired(After(AddVni(H[n], v), After(Link(Vtep, H[n]), st)), N, M, I, T, H)
<1> DEFINE ls == BrickLink(Vtep, H[n], st.l)
           end == [l |-> ls, p |-> Linked({x \in st.p : x[1] # v} \cup {<<v, H[n]>>}, ls)]
<1>1. After(AddVni(H[n], v), After(Link(Vtep, H[n]), st)) = end
  <2>1. After(Link(Vtep, H[n]), st) = [l |-> ls, p |-> st.p]
    BY AfterLink
  <2>2. After(AddVni(H[n], v), [l |-> ls, p |-> st.p]) = end
    BY AfterAddVni
  <2> HIDE DEF ls, end
  <2> QED BY <2>1, <2>2
<1>2. ls \subseteq st.l \cup {<<Vtep, H[n]>>} /\ st.l \subseteq ls
  BY LinkDone
<1>3. Enough => ls = st.l \cup {<<Vtep, H[n]>>}
  <2>1. West(H[n], st.l) = {}
    BY FreeEnds DEF Wired, Frame
  <2>2. Enough => Cardinality(East(Vtep, st.l)) < VtepMax
    BY VtepRoom DEF Wired
  <2> QED BY <2>1, <2>2, LinkDone
<1>4. Gates(v, T[v], H) = {<<Vtep, H[n]>>} /\ Gate(v, T[v], H) = {H[n]}
  BY DEF Gates, Gate, Two
<1>5. end.l = ls /\ end.p = Linked({x \in st.p : x[1] # v} \cup {<<v, H[n]>>}, ls)
  OBVIOUS
<1> HIDE DEF ls, end
<1>6. Only(end.l, N, I, T, H)
  <2>1. \A l : l \notin Gates(v, S[v], H)
    BY NoGates
  <2> QED BY <1>2, <1>4, <1>5, <2>1, OnlyMoves DEF Wired
<1>7. ASSUME Enough, NEW w \in Vni PROVE Gated(end, w, T[w], H)
  <2>1. CASE w = v
    <3>1. Gates(v, T[v], H) \subseteq end.l
      BY <1>3, <1>4, <1>5, <1>7
    <3>2. <<v, H[n]>> \in end.p
      BY <1>3, <1>5, <1>7 DEF Linked
    <3> QED BY <1>4, <2>1, <3>1, <3>2 DEF Gated
  <2>2. CASE w # v
    <3>1. Gated(st, w, T[w], H)
      BY <1>7, <2>2 DEF Wired, Differ
    <3> QED BY <1>2, <1>5, <2>2, <3>1, OthersGated
  <2> QED BY <2>1, <2>2
<1>8. Enough => \A m \in M : I[m] \subseteq end.l
  BY <1>2, <1>5 DEF Wired
<1> QED BY <1>1, <1>6, <1>7, <1>8 DEF Wired

(* The third NIC of a VNI, or a later one.                                 *)
LEMMA LinkMore ==
  ASSUME NEW st, st = [l |-> st.l, p |-> st.p], NEW N, NEW M, NEW I, NEW S, NEW H,
         Frame(N, M, I, S, H),
         Wired(st, N, M, I, S, H), NEW v \in Vni, Two(S[v]), IsFiniteSet(S[v]),
         Cardinality(S[v]) < MaxPerVni,
         NEW n \in M, \A w \in Vni : n \notin S[w],
         NEW T, Differ(T, S, v), T[v] = S[v] \cup {n}
  PROVE  Wired(After(Link(Sw(v), H[n]), st), N, M, I, T, H)
<1> DEFINE ls == BrickLink(Sw(v), H[n], st.l)
           end == [l |-> ls, p |-> st.p]
<1>1. After(Link(Sw(v), H[n]), st) = end
  BY AfterLink
<1>2. ls \subseteq st.l \cup {<<Sw(v), H[n]>>} /\ st.l \subseteq ls
  BY LinkDone
<1>3. Enough => ls = st.l \cup {<<Sw(v), H[n]>>}
  <2>1. West(H[n], st.l) = {}
    BY FreeEnds DEF Wired, Frame
  <2>2. Enough => Cardinality(East(Sw(v), st.l)) < SwitchMax
    <3>1. /\ Cardinality(East(Sw(v), st.l)) <= Cardinality(S[v])
          /\ Cardinality(East(Sw(v), st.l)) \in Nat /\ Cardinality(S[v]) \in Nat
      BY SwitchRoom DEF Wired
    <3> QED BY <3>1, GraphAssumption DEF Enough
  <2> QED BY <2>1, <2>2, LinkDone
<1>4. /\ Gates(v, T[v], H) = Gates(v, S[v], H) \cup {<<Sw(v), H[n]>>}
      /\ Gate(v, T[v], H) = Gate(v, S[v], H)
  <2>1. Two(T[v])
    BY DEF Two
  <2> QED BY <2>1 DEF Gates, Gate
<1>5. end.l = ls /\ end.p = st.p
  OBVIOUS
<1> HIDE DEF ls, end
<1>6. Only(end.l, N, I, T, H)
  BY <1>2, <1>4, <1>5, OnlyMoves DEF Wired
<1>7. ASSUME Enough, NEW w \in Vni PROVE Gated(end, w, T[w], H)
  <2>1. CASE w = v
    <3>1. Gated(st, v, S[v], H)
      BY <1>7 DEF Wired
    <3> QED BY <1>3, <1>4, <1>5, <1>7, <2>1, <3>1 DEF Gated
  <2>2. CASE w # v
    <3>1. Gated(st, w, T[w], H)
      BY <1>7, <2>2 DEF Wired, Differ
    <3> QED BY <1>2, <1>5, <3>1 DEF Gated
  <2> QED BY <2>1, <2>2
<1>8. Enough => \A m \in M : I[m] \subseteq end.l
  BY <1>2, <1>5 DEF Wired
<1> QED BY <1>1, <1>6, <1>7, <1>8 DEF Wired

(* The second NIC of a VNI brings the switch.                              *)
LEMMA LinkSwitch ==
  ASSUME NEW st, st = [l |-> st.l, p |-> st.p], NEW N, NEW M, NEW I, NEW S, NEW H,
         Frame(N, M, I, S, H),
         Wired(st, N, M, I, S, H), NEW v \in Vni, S[v] = {}, 1 < MaxPerVni,
         NEW o \in M, NEW n \in M, o # n,
         \A w \in Vni : n \notin S[w] /\ o \notin S[w],
         NEW T, Differ(T, S, v), T[v] = {o, n}
  PROVE  Wired(After(Link(Sw(v), H[n]), After(Link(Sw(v), H[o]),
                 After(AddVni(Sw(v), v), After(Link(Vtep, Sw(v)), st)))), N, M, I, T, H)
<1> DEFINE l1 == BrickLink(Vtep, Sw(v), st.l)
           ps == Linked({x \in st.p : x[1] # v} \cup {<<v, Sw(v)>>}, l1)
           l2 == BrickLink(Sw(v), H[o], l1)
           l3 == BrickLink(Sw(v), H[n], l2)
           end == [l |-> l3, p |-> ps]
<1>1. After(Link(Sw(v), H[n]), After(Link(Sw(v), H[o]),
        After(AddVni(Sw(v), v), After(Link(Vtep, Sw(v)), st)))) = end
  <2>1. After(Link(Vtep, Sw(v)), st) = [l |-> l1, p |-> st.p]
    BY AfterLink
  <2>2. After(AddVni(Sw(v), v), [l |-> l1, p |-> st.p]) = [l |-> l1, p |-> ps]
    BY AfterAddVni
  <2>3. After(Link(Sw(v), H[o]), [l |-> l1, p |-> ps]) = [l |-> l2, p |-> ps]
    BY AfterLink
  <2>4. After(Link(Sw(v), H[n]), [l |-> l2, p |-> ps]) = end
    BY AfterLink
  <2> HIDE DEF l1, l2, l3, ps, end
  <2> QED BY <2>1, <2>2, <2>3, <2>4
<1>2. end.l = l3 /\ end.p = ps
  OBVIOUS
<1>3. /\ l1 \subseteq st.l \cup {<<Vtep, Sw(v)>>} /\ st.l \subseteq l1
      /\ l2 \subseteq l1 \cup {<<Sw(v), H[o]>>} /\ l1 \subseteq l2
      /\ l3 \subseteq l2 \cup {<<Sw(v), H[n]>>} /\ l2 \subseteq l3
  BY LinkDone
<1>4. /\ H[n] \in Bricks(n) /\ H[o] \in Bricks(o) /\ H[n] # H[o] /\ H[n] # Sw(v)
      /\ H[o] # Sw(v) /\ Sw(v) # Vtep
  <2>1. H[n] \in Bricks(n) /\ H[o] \in Bricks(o)
    BY DEF Frame
  <2> QED BY <2>1, NamesDiffer
<1>5. Enough => l1 = st.l \cup {<<Vtep, Sw(v)>>}
  <2>1. West(Sw(v), st.l) = {}
    BY FreeEnds DEF Wired, Frame, Two
  <2>2. Enough => Cardinality(East(Vtep, st.l)) < VtepMax
    BY VtepRoom DEF Wired
  <2> QED BY <2>1, <2>2, LinkDone
<1>6. /\ West(H[n], st.l) = {} /\ West(H[o], st.l) = {} /\ East(Sw(v), st.l) = {}
  BY FreeEnds DEF Wired, Frame, Two
<1>7. Enough => l2 = l1 \cup {<<Sw(v), H[o]>>}
  <2>1. ASSUME Enough PROVE West(H[o], l1) = {} /\ East(Sw(v), l1) = {}
    BY <1>4, <1>5, <1>6, <2>1 DEF West, East
  <2>2. Enough => Cardinality(East(Sw(v), l1)) < SwitchMax
    <3>1. Cardinality({}) = 0
      BY FS_EmptySet
    <3> QED BY <2>1, <3>1, GraphAssumption DEF Enough
  <2> QED BY <2>1, <2>2, LinkDone
<1>8. Enough => l3 = l2 \cup {<<Sw(v), H[n]>>}
  <2>1. ASSUME Enough
        PROVE  West(H[n], l2) = {} /\ East(Sw(v), l2) = {<<Sw(v), H[o]>>}
    BY <1>4, <1>5, <1>7, <1>6, <2>1 DEF West, East
  <2>2. Enough => Cardinality(East(Sw(v), l2)) < SwitchMax
    <3>1. Cardinality({<<Sw(v), H[o]>>}) = 1
      BY FS_Singleton
    <3> QED BY <2>1, <3>1, GraphAssumption DEF Enough
  <2> QED BY <2>1, <2>2, LinkDone
<1> HIDE DEF l1, l2, l3
<1>9. /\ Gates(v, T[v], H) = {<<Vtep, Sw(v)>>, <<Sw(v), H[o]>>, <<Sw(v), H[n]>>}
      /\ Gate(v, T[v], H) = {Sw(v)}
  <2>1. Two(T[v])
    BY DEF Two
  <2> QED BY <2>1 DEF Gates, Gate
<1>10. Only(end.l, N, I, T, H)
  <2>1. \A l : l \notin Gates(v, S[v], H)
    BY NoGates
  <2>2. \A l \in end.l : l \in st.l \/ l \in Gates(v, T[v], H)
    BY <1>2, <1>3, <1>9
  <2> QED BY <2>1, <2>2, OnlyMoves DEF Wired
<1>11. ASSUME Enough, NEW w \in Vni PROVE Gated(end, w, T[w], H)
  <2>1. CASE w = v
    <3>1. Gates(v, T[v], H) \subseteq end.l
      BY <1>2, <1>3, <1>5, <1>7, <1>8, <1>9, <1>11
    <3>2. <<v, Sw(v)>> \in end.p
      BY <1>2, <1>5, <1>11 DEF Linked
    <3> QED BY <1>9, <2>1, <3>1, <3>2 DEF Gated
  <2>2. CASE w # v
    <3>1. Gated(st, w, T[w], H)
      BY <1>11, <2>2 DEF Wired, Differ
    <3>2. st.l \subseteq l3 /\ l1 \subseteq l3
      BY <1>3
    <3> HIDE DEF end
    <3> QED BY <1>2, <1>3, <2>2, <3>1, <3>2, OthersGated
  <2> QED BY <2>1, <2>2
<1>12. Enough => \A m \in M : I[m] \subseteq end.l
  BY <1>2, <1>3 DEF Wired
<1> HIDE DEF end
<1> QED BY <1>1, <1>10, <1>11, <1>12 DEF Wired

LEMMA WiredFewer ==
  ASSUME NEW st, NEW N, NEW M, NEW I, NEW S, NEW H, Wired(st, N, M, I, S, H),
         NEW K \in SUBSET M
  PROVE  Wired(st, N, K, I, S, H)
BY DEF Wired

LEMMA FrameFewer ==
  ASSUME NEW N, NEW M, NEW I, NEW S, NEW H, Frame(N, M, I, S, H), NEW K \in SUBSET M,
         NEW T, \A v \in Vni : T[v] \subseteq S[v] /\ T[v] \subseteq K
  PROVE  Frame(N, K, I, T, H)
<1>1. \A v, w \in Vni : v # w => T[v] \cap T[w] = {}
  BY DEF Frame
<1> QED BY <1>1 DEF Frame

(* Calls that are pushed.                                                  *)
LEMMA LeadsOne ==
  ASSUME NEW q \in Seq(Rpc), NEW a \in Rpc, NEW r, NEW st, NEW end, LeadsTo(q, r, st, end)
  PROVE  LeadsTo(q \o <<a>>, r, st, After(a, end)) /\ q \o <<a>> \in Seq(Rpc)
<1>1. q \o <<a>> = Append(q, a) /\ Append(q, a) \in Seq(Rpc)
  OBVIOUS
<1> QED BY <1>1, LeadsAppend

LEMMA LeadsTwo ==
  ASSUME NEW q \in Seq(Rpc), NEW a \in Rpc, NEW b \in Rpc, NEW r, NEW st, NEW end,
         LeadsTo(q, r, st, end)
  PROVE  LeadsTo(q \o <<a, b>>, r, st, After(b, After(a, end)))
<1>1. <<a>> \in Seq(Rpc) /\ <<b>> \in Seq(Rpc) /\ <<a, b>> = <<a>> \o <<b>>
  BY SeqLiterals, JoinLiterals
<1>2. q \o (<<a>> \o <<b>>) = (q \o <<a>>) \o <<b>>
  BY <1>1, SeqAssociative
<1>3. q \o <<a, b>> = (q \o <<a>>) \o <<b>>
  BY <1>1, <1>2, Zenon
<1>4. LeadsTo(q \o <<a>>, r, st, After(a, end)) /\ q \o <<a>> \in Seq(Rpc)
  BY LeadsOne
<1>5. LeadsTo((q \o <<a>>) \o <<b>>, r, st, After(b, After(a, end)))
  BY <1>4, LeadsOne
<1> QED BY <1>3, <1>5

LEMMA LeadsFour ==
  ASSUME NEW q \in Seq(Rpc), NEW a \in Rpc, NEW b \in Rpc, NEW c \in Rpc, NEW d \in Rpc,
         NEW r, NEW st, NEW end, LeadsTo(q, r, st, end)
  PROVE  /\ LeadsTo(q \o <<a, b, c, d>>, r, st, After(d, After(c, After(b, After(a, end)))))
         /\ q \o <<a, b, c, d>> \in Seq(Rpc)
<1>1. q \o <<a, b>> \in Seq(Rpc) /\ <<a, b, c, d>> \in Seq(Rpc)
  BY SeqLiterals, SeqJoin
<1>2. LeadsTo(q \o <<a, b>>, r, st, After(b, After(a, end)))
  BY LeadsTwo
<1>3. LeadsTo((q \o <<a, b>>) \o <<c, d>>, r, st, After(d, After(c, After(b, After(a, end)))))
  BY <1>1, <1>2, LeadsTwo
<1>4. <<a, b, c, d>> = <<a, b>> \o <<c, d>>
  OBVIOUS
<1>5. <<a, b>> \in Seq(Rpc) /\ <<c, d>> \in Seq(Rpc)
  BY SeqLiterals
<1>6. q \o (<<a, b>> \o <<c, d>>) = (q \o <<a, b>>) \o <<c, d>>
  BY <1>5, SeqAssociative
<1>7. q \o <<a, b, c, d>> = (q \o <<a, b>>) \o <<c, d>>
  BY <1>4, <1>6, Zenon
<1> QED BY <1>1, <1>3, <1>7, SeqJoin

LEMMA LeadsFive ==
  ASSUME NEW q \in Seq(Rpc), NEW a \in Rpc, NEW b \in Rpc, NEW c \in Rpc, NEW d \in Rpc,
         NEW e \in Rpc, NEW r, NEW st, NEW end, LeadsTo(q, r, st, end)
  PROVE  LeadsTo(q \o <<a, b, c, d, e>>, r, st,
                 After(e, After(d, After(c, After(b, After(a, end))))))
<1>1. <<a, b, c, d>> \in Seq(Rpc) /\ <<e>> \in Seq(Rpc)
  BY SeqLiterals
<1>2. <<a, b, c, d, e>> = <<a, b, c, d>> \o <<e>>
  OBVIOUS
<1>3. q \o (<<a, b, c, d>> \o <<e>>) = (q \o <<a, b, c, d>>) \o <<e>>
  BY <1>1, SeqAssociative
<1>4. q \o <<a, b, c, d, e>> = (q \o <<a, b, c, d>>) \o <<e>>
  BY <1>2, <1>3, Zenon
<1>5. LeadsTo(q \o <<a, b, c, d>>, r, st, After(d, After(c, After(b, After(a, end)))))
      /\ q \o <<a, b, c, d>> \in Seq(Rpc)
  BY LeadsFour
<1>6. LeadsTo((q \o <<a, b, c, d>>) \o <<e>>, r, st,
              After(e, After(d, After(c, After(b, After(a, end))))))
  BY <1>5, LeadsOne
<1> QED BY <1>4, <1>6

-----------------------------------------------------------------------------
(* The invariant: the calls on their way lead to the wiring of the NICs    *)
(* that stay.                                                              *)

(* The links NicAdd makes inside a branch, and the head it gives it.       *)
InnerOf(n, bypass, trace) ==
  LET s == <<"sniffer", n>>
  IN  IF bypass THEN IF trace THEN {<<s, Vhost(n)>>} ELSE {}
      ELSE {<<Fw(n), As(n)>>} \cup
             (IF ~ ConfigTrace THEN {<<As(n), Vhost(n)>>}
              ELSE IF trace THEN {<<As(n), s>>, <<s, Vhost(n)>>} ELSE {})
HeadOf(n, bypass, trace) ==
  IF ~ bypass THEN Fw(n) ELSE IF trace THEN <<"sniffer", n>> ELSE Vhost(n)

Heads == [n \in NicId |-> branch[n].head]
Inners == [n \in NicId |-> InnerOf(n, branch[n].bypass, branch[n].trace)]
Staying == {n \in Nics : ~ Deleting(n)}
Stays == [v \in Vni |-> {n \in NicsOf(v) : ~ Deleting(n)}]

Goal(end) == end = [l |-> end.l, p |-> end.p]
             /\ Wired(end, Nics, Staying, Inners, Stays, Heads)
GoalInv == \E end : LeadsTo(queue, running, Now, end) /\ Goal(end)

(* A branch keeps the head it was made with, ports are linked, and a NIC   *)
(* that is being added has a place in its VNI.                             *)
MadeInv ==
  /\ \A n \in Nics : branch[n].head = HeadOf(n, branch[n].bypass, branch[n].trace)
  /\ \A p \in ports : <<Vtep, p[2]>> \in links
PlaceInv ==
  /\ \A n \in Nics : branch[n].trace \in TraceModes
  /\ pc = "new" \/ (pc # "idle" /\ req.adding) =>
       /\ req.trace \in TraceModes
       /\ Cardinality(NicsOf(req.vni) \ {req.nic}) < MaxPerVni
WiringInv == MadeInv /\ PlaceInv /\ GoalInv

LEMMA InnerOfOwn ==
  ASSUME NEW n, NEW b, NEW t
  PROVE  /\ HeadOf(n, b, t) \in Bricks(n)
         /\ InnerOf(n, b, t) \subseteq Bricks(n) \X Bricks(n)
         /\ \A l \in InnerOf(n, b, t) : l[2] # HeadOf(n, b, t)
<1>1. {Fw(n), As(n), Vhost(n), <<"sniffer", n>>} \subseteq Bricks(n)
  BY DEF Bricks, Sniffers
<1>2. /\ Fw(n) # As(n) /\ Fw(n) # Vhost(n) /\ <<"sniffer", n>> # Vhost(n)
      /\ <<"sniffer", n>> # Fw(n)
  BY DEF Fw, As, Vhost
<1>3. HeadOf(n, b, t) \in Bricks(n)
  BY <1>1 DEF HeadOf
<1>4. InnerOf(n, b, t) \subseteq Bricks(n) \X Bricks(n)
  BY <1>1 DEF InnerOf
<1>5. \A l \in InnerOf(n, b, t) : l[2] # HeadOf(n, b, t)
  BY <1>2 DEF InnerOf, HeadOf
<1> QED BY <1>3, <1>4, <1>5

LEMMA Framed ==
  ASSUME TypeOK, MadeInv
  PROVE  Frame(Nics, Staying, Inners, Stays, Heads)
<1>1. Staying \subseteq Nics /\ Nics \subseteq NicId
  BY DEF Staying, Nics
<1>2. ASSUME NEW n \in Nics
      PROVE  /\ Heads[n] \in Bricks(n) /\ Inners[n] \subseteq Bricks(n) \X Bricks(n)
             /\ \A l \in Inners[n] : l[2] # Heads[n]
  <2>1. Heads[n] = HeadOf(n, branch[n].bypass, branch[n].trace)
    BY <1>1 DEF Heads, MadeInv
  <2>2. Inners[n] = InnerOf(n, branch[n].bypass, branch[n].trace)
    BY <1>1 DEF Inners
  <2> QED BY <2>1, <2>2, InnerOfOwn
<1>3. \A v \in Vni : Stays[v] = {n \in NicsOf(v) : ~ Deleting(n)}
  BY DEF Stays
<1>4. \A v \in Vni : Stays[v] \subseteq Staying
  BY <1>3 DEF NicsOf, Staying
<1>5. \A v, w \in Vni : v # w => Stays[v] \cap Stays[w] = {}
  BY <1>3 DEF NicsOf
<1> QED BY <1>1, <1>2, <1>4, <1>5 DEF Frame

LEMMA GoalSame ==
  ASSUME branch' = branch, pc' = pc, req' = req, NEW end, Goal(end)
  PROVE  Goal(end)'
BY DEF Goal, Nics, Staying, Inners, Stays, Heads, Deleting, NicsOf, Nics

LEMMA PlaceSame ==
  ASSUME branch' = branch, pc' = pc, req' = req, PlaceInv
  PROVE  PlaceInv'
BY DEF PlaceInv, Nics, NicsOf

LEMMA MadeSame ==
  ASSUME branch' = branch, links' = links, ports' = ports, MadeInv
  PROVE  MadeInv'
BY DEF MadeInv, Nics

LEMMA PhaseWiring ==
  ASSUME WiringInv, UNCHANGED <<branch, links, ports, queue, running, pc, req>>
  PROVE  WiringInv'
<1>1. MadeInv' /\ PlaceInv'
  BY MadeSame, PlaceSame DEF WiringInv
<1>2. PICK end : LeadsTo(queue, running, Now, end) /\ Goal(end)
  BY DEF WiringInv, GoalInv
<1>3. Now' = Now
  BY DEF Now
<1>4. LeadsTo(queue', running', Now', end)
  BY <1>2, <1>3
<1>5. Goal(end)'
  BY <1>2, GoalSame
<1> QED BY <1>1, <1>4, <1>5 DEF WiringInv, GoalInv

LEMMA PopWiring ==
  ASSUME GraphInv, WiringInv, PollerPop
  PROVE  WiringInv'
<1>1. /\ running = Idle /\ queue # <<>> /\ running' = Head(queue) /\ queue' = Tail(queue)
      /\ branch' = branch /\ links' = links /\ ports' = ports /\ pc' = pc /\ req' = req
  BY DEF PollerPop, api
<1>2. MadeInv' /\ PlaceInv'
  BY <1>1, MadeSame, PlaceSame DEF WiringInv
<1>3. PICK end : LeadsTo(queue, running, Now, end) /\ Goal(end)
  BY DEF WiringInv, GoalInv
<1>4. Now' = Now
  BY <1>1 DEF Now
<1>5. queue \in Seq(Rpc)
  BY DEF GraphInv, TypeOK
<1>6. LeadsTo(Tail(queue), Head(queue), Now, end)
  BY <1>1, <1>3, <1>5, LeadsPop
<1>7. LeadsTo(queue', running', Now', end)
  BY <1>1, <1>4, <1>6
<1>8. Goal(end)'
  BY <1>1, <1>3, GoalSame
<1> QED BY <1>2, <1>7, <1>8 DEF WiringInv, GoalInv

LEMMA ExecuteWiring ==
  ASSUME GraphInv, WiringInv, PollerExecute
  PROVE  WiringInv'
<1>1. TypeOK
  BY DEF GraphInv
<1>2. /\ running' = Idle /\ queue' = queue /\ branch' = branch /\ pc' = pc /\ req' = req
  BY <1>1, ExecuteCases, ExecutedFrame
<1>3. \A p \in ports' : <<Vtep, p[2]>> \in links'
  <2>1. \A p \in ports : <<Vtep, p[2]>> \in links
    BY DEF WiringInv, MadeInv
  <2>2. CASE running.action \in {"UNLINK", "UNLINK_EDGE", "BRICK_DESTROY"}
    BY <1>1, <2>2, ExecuteCases DEF Linked
  <2>3. CASE running.action = "LINK"
    BY <1>1, <2>1, <2>3, ExecuteCases DEF BrickLink
  <2>4. CASE running.action = "ADD_VNI"
    BY <1>1, <2>4, ExecuteCases DEF Linked
  <2>5. CASE running.action \in {"UPDATE_POLL", "FW_NEW", "NOTHING", "FW_RELOAD"}
    BY <1>1, <2>1, <2>5, ExecuteCases
  <2> QED BY <1>1, <2>2, <2>3, <2>4, <2>5, ExecuteCases
<1>4. MadeInv'
  BY <1>2, <1>3 DEF WiringInv, MadeInv, Nics
<1>5. PlaceInv'
  BY <1>2, PlaceSame DEF WiringInv
<1>6. PICK end : LeadsTo(queue, running, Now, end) /\ Goal(end)
  BY DEF WiringInv, GoalInv
<1>7. Now' = After(running, Now)
  BY <1>1, ExecuteAfter
<1>8. LeadsTo(queue, Idle, After(running, Now), end)
  BY <1>6, LeadsExecute
<1>9. LeadsTo(queue', running', Now', end)
  BY <1>2, <1>7, <1>8
<1>10. Goal(end)'
  BY <1>2, <1>6, GoalSame
<1> QED BY <1>4, <1>5, <1>9, <1>10 DEF WiringInv, GoalInv

(* When a handler has waited, links and ports are what they were to be.    *)
LEMMA WaitedGoal ==
  ASSUME GraphInv, GoalInv, pc # "idle", WaitEmptyQueue
  PROVE  Goal(Now)
<1>1. queue = <<>> /\ running \in {Nothing, Idle}
  BY AfterWait
<1>2. PICK end : LeadsTo(queue, running, Now, end) /\ Goal(end)
  BY DEF GoalInv
<1>3. end = After(running, Now)
  BY <1>1, <1>2, LeadsEmpty
<1>4. After(running, Now) = Now
  BY <1>1, AfterOther
<1> QED BY <1>2, <1>3, <1>4

(* Requests that only push calls without an effect on links.               *)
LEMMA PushWiring ==
  ASSUME GraphInv, WiringInv, UNCHANGED <<branch, links, ports, running>>,
         pc \notin {"del", "del_switch"}, pc' \notin {"del", "del_switch"}, PlaceInv',
         NEW end, LeadsTo(queue', running, Now, end), Goal(end)
  PROVE  WiringInv'
<1>1. MadeInv'
  BY MadeSame DEF WiringInv
<1>2. Now' = Now
  BY DEF Now
<1>3. /\ Nics' = Nics /\ Heads' = Heads /\ Inners' = Inners
  BY DEF Nics, Heads, Inners
<1>4. Staying' = Staying
  BY <1>3 DEF Staying, Deleting
<1>5. Stays' = Stays
  <2>1. \A v \in Vni : {n \in NicsOf(v)' : ~ Deleting(n)'} = {n \in NicsOf(v) : ~ Deleting(n)}
    BY <1>3 DEF Deleting, NicsOf
  <2> QED BY <2>1 DEF Stays
<1>6. Goal(end)'
  BY <1>3, <1>4, <1>5 DEF Goal
<1>7. LeadsTo(queue', running', Now', end)
  BY <1>2
<1> QED BY <1>1, <1>6, <1>7 DEF WiringInv, GoalInv

LEMMA SgRequestWiring ==
  ASSUME GraphInv, WiringInv, NEW n \in NicId, SgRequest(n)
  PROVE  WiringInv'
<1>1. /\ pc = "idle" /\ pc' = pc /\ req' = req /\ queue' = Append(queue, FwReload(Fw(n)))
      /\ UNCHANGED <<branch, links, ports, running>>
  BY DEF SgRequest, Ready, api, poller
<1>2. PICK end : LeadsTo(queue, running, Now, end) /\ Goal(end)
  BY DEF WiringInv, GoalInv
<1>3. queue \in Seq(Rpc) /\ After(FwReload(Fw(n)), end) = end
  BY AfterOther DEF GraphInv, TypeOK
<1>4. LeadsTo(queue', running, Now, end)
  BY <1>1, <1>2, <1>3, LeadsAppend
<1>5. PlaceInv'
  BY <1>1, PlaceSame DEF WiringInv
<1> QED BY <1>1, <1>2, <1>4, <1>5, PushWiring

LEMMA NicAddStartWiring ==
  ASSUME GraphInv, WiringInv, NEW n \in NicId, AddStep(n)
  PROVE  WiringInv'
<1>1. /\ pc = "idle" /\ pc' = "new" /\ queue' = queue \o <<FwNew(n), Nothing>>
      /\ UNCHANGED <<branch, links, ports, running>> /\ req'.nic = n /\ Fits(n, req')
  BY DEF AddStep, Ready, poller
<1>2. PICK end : LeadsTo(queue, running, Now, end) /\ Goal(end)
  BY DEF WiringInv, GoalInv
<1>3. /\ queue \in Seq(Rpc) /\ FwNew(n) \in Rpc /\ Nothing \in Rpc
      /\ After(Nothing, After(FwNew(n), end)) = end
  <2>1. queue \in Seq(Rpc)
    BY DEF GraphInv, TypeOK
  <2>2. FwNew(n) \in Rpc /\ Nothing \in Rpc
    BY DEF Rpc
  <2>3. After(FwNew(n), end) = end /\ After(Nothing, end) = end
    BY AfterOther
  <2> QED BY <2>1, <2>2, <2>3
<1>4. LeadsTo(queue', running, Now, end)
  BY <1>1, <1>2, <1>3, LeadsTwo
<1>5. PlaceInv'
  BY <1>1 DEF WiringInv, PlaceInv, Nics, NicsOf, Fits
<1> QED BY <1>1, <1>2, <1>4, <1>5, PushWiring

(* Without changes of the trace an update only rewrites the firewall.      *)
LEMMA PlainUpdate ==
  ASSUME TypeOK, MadeInv, NEW n, NEW fw, NEW ok, NEW l,
         ActionNicUpdate(n, None, FALSE, fw, ok, l)
  PROVE  /\ n \in Nics /\ pc = "idle" /\ pc' = pc /\ req' = req
         /\ UNCHANGED <<branch, live, links, ports, running, switch>>
         /\ queue' \in {queue, queue \o <<FwReload(Fw(n))>>}
<1> DEFINE e0 == [n |-> n, g |-> branch[n], calls |-> <<>>, made |-> {},
                  gone |-> {}, poll |-> l]
<1>1. /\ Ready /\ n \in Nics /\ branch' = [branch EXCEPT ![n] = e0.g]
      /\ live' = (live \cup e0.made) \ e0.gone /\ links' = Without(e0.gone, links)
      /\ ports' = Linked(ports, links')
      /\ queue' = (queue \o e0.calls)
           \o (IF fw /\ ~ branch[n].bypass THEN <<FwReload(Fw(n))>> ELSE <<>>)
      /\ UNCHANGED <<switch, poller, api>>
  BY DEF ActionNicUpdate
<1>2. e0.g = branch[n] /\ e0.made = {} /\ e0.gone = {} /\ e0.calls = <<>>
  OBVIOUS
<1> HIDE DEF e0
<1>3. branch' = branch
  BY <1>1, <1>2 DEF TypeOK
<1>4. live' = live /\ links' = links
  BY <1>1, <1>2 DEF Without
<1>5. ports' = ports
  BY <1>1, <1>4 DEF MadeInv, Linked
<1>6. queue \o <<>> = queue
  BY DEF TypeOK
<1>7. queue' \in {queue, queue \o <<FwReload(Fw(n))>>}
  <2>1. queue' = queue \o (IF fw /\ ~ branch[n].bypass THEN <<FwReload(Fw(n))>> ELSE <<>>)
    BY <1>1, <1>2, <1>6
  <2> QED BY <1>6, <2>1
<1> QED BY <1>1, <1>3, <1>4, <1>5, <1>7 DEF Ready, api, poller

LEMMA UpdateWiring ==
  ASSUME NoTraceUpdates, GraphInv, WiringInv, NEW n \in NicId, TraceStep(n)
  PROVE  WiringInv'
<1>1. \E fw, ok, l : ActionNicUpdate(n, None, FALSE, fw, ok, l)
  BY DEF TraceStep, NoTraceUpdates
<1>2. /\ pc = "idle" /\ pc' = pc /\ req' = req /\ UNCHANGED <<branch, links, ports, running>>
      /\ queue' \in {queue, queue \o <<FwReload(Fw(n))>>}
  BY <1>1, PlainUpdate DEF GraphInv, WiringInv
<1>3. PICK end : LeadsTo(queue, running, Now, end) /\ Goal(end)
  BY DEF WiringInv, GoalInv
<1>4. queue \in Seq(Rpc) /\ FwReload(Fw(n)) \in Rpc /\ After(FwReload(Fw(n)), end) = end
  <2>1. Fw(n) \in Brick
    BY DEF Brick, Bricks
  <2>2. FwReload(Fw(n)) \in Rpc
    BY <2>1 DEF Rpc
  <2> QED BY <2>2, AfterOther DEF GraphInv, TypeOK
<1>5. LeadsTo(queue', running, Now, end)
  BY <1>2, <1>3, <1>4, LeadsOne
<1>6. PlaceInv'
  BY <1>2, PlaceSame DEF WiringInv
<1> QED BY <1>2, <1>3, <1>5, <1>6, PushWiring

LEMMA NicAddFailsWiring ==
  ASSUME GraphInv, WiringInv, NicAddFails
  PROVE  WiringInv'
<1>1. /\ pc = "new" /\ pc' = "idle" /\ req' = NoRequest /\ queue' = queue
      /\ UNCHANGED <<branch, links, ports, running>>
  BY DEF NicAddFails, poller
<1>2. PICK end : LeadsTo(queue, running, Now, end) /\ Goal(end)
  BY DEF WiringInv, GoalInv
<1>3. PlaceInv'
  BY <1>1 DEF WiringInv, PlaceInv, Nics
<1>4. LeadsTo(queue', running, Now, end)
  BY <1>1, <1>2
<1> QED BY <1>1, <1>2, <1>3, <1>4, PushWiring

(* Calls pushed by a handler that has waited.                              *)
LEMMA LeadsAgain ==
  ASSUME NEW r \in {Nothing, Idle}, NEW st, NEW a \in Rpc
  PROVE  LeadsTo(<<>>, r, st, st) /\ LeadsTo(<<a, Nothing>>, r, st, After(a, st))
<1>1. After(r, st) = st
  BY AfterOther
<1>2. LeadsTo(<<>>, r, st, st)
  BY <1>1, LeadsEmpty
<1>3. <<>> \in Seq(Rpc) /\ Nothing \in Rpc /\ <<>> \o <<a, Nothing>> = <<a, Nothing>>
  BY DEF Rpc
<1>4. LeadsTo(<<>> \o <<a, Nothing>>, r, st, After(Nothing, After(a, st)))
  BY <1>2, <1>3, LeadsTwo
<1> QED BY <1>2, <1>3, <1>4, AfterOther

LEMMA GatesAgree ==
  ASSUME NEW v, NEW S, NEW G, NEW H, \A m \in S : G[m] = H[m]
  PROVE  Gates(v, S, G) = Gates(v, S, H) /\ Gate(v, S, G) = Gate(v, S, H)
<1>1. /\ {G[m] : m \in S} = {H[m] : m \in S}
      /\ {<<Vtep, G[m]>> : m \in S} = {<<Vtep, H[m]>> : m \in S}
      /\ {<<Sw(v), G[m]>> : m \in S} = {<<Sw(v), H[m]>> : m \in S}
  OBVIOUS
<1> QED BY <1>1 DEF Gates, Gate

LEMMA WiredAgree ==
  ASSUME NEW st, NEW N, NEW M \in SUBSET N, NEW I, NEW S, NEW H, Wired(st, N, M, I, S, H),
         \A v \in Vni : S[v] \subseteq N,
         NEW J, NEW G, \A m \in N : J[m] = I[m] /\ G[m] = H[m],
         NEW T, \A v \in Vni : T[v] = S[v]
  PROVE  Wired(st, N, M, J, T, G)
<1>1. \A v \in Vni : /\ Gates(v, T[v], G) = Gates(v, S[v], H)
                     /\ Gate(v, T[v], G) = Gate(v, S[v], H)
  BY GatesAgree
<1>2. Only(st.l, N, J, T, G)
  BY <1>1 DEF Wired, Only
<1>3. Enough => \A v \in Vni : Gated(st, v, T[v], G)
  BY <1>1 DEF Wired, Gated
<1> QED BY <1>2, <1>3 DEF Wired

(* NicDel drops the switch when nothing is linked to it any more.          *)
LEMMA NicDelSwitchCuts ==
  ASSUME GraphInv, SwitchInv, WiringInv, NicDelSwitch
  PROVE  /\ links' = links /\ ports' = ports
         /\ \A l \in links : Sw(branch[req.nic].vni) \notin {l[1], l[2]}
<1>1. PICK n, v : n = req.nic /\ v = branch[n].vni
  OBVIOUS
<1>2. /\ pc = "del_switch" /\ WaitEmptyQueue /\ links' = Without({Sw(v)}, links)
      /\ ports' = Linked(ports, links')
  BY <1>1 DEF NicDelSwitch
<1>3. n \in Nics /\ v \in Vni
  BY <1>1, <1>2 DEF GraphInv, ReqInv, TypeOK, Nics, Branch
<1>4. Goal(Now)
  BY <1>2, WaitedGoal DEF WiringInv
<1>5. ~ Two(Stays[v])
  <2>1. Stays[v] \subseteq Others(n)
    BY <1>1, <1>2, <1>3 DEF Stays, Others, Deleting
  <2>2. \A a, b \in Others(n) : a = b
    BY <1>1, <1>2 DEF SwitchInv
  <2> QED BY <2>1, <2>2 DEF Two
<1>6. Frame(Nics, Staying, Inners, Stays, Heads) /\ Only(links, Nics, Inners, Stays, Heads)
  BY <1>4, Framed DEF GraphInv, WiringInv, Goal, Wired, Now
<1>7. \A l \in links : Sw(v) \notin {l[1], l[2]}
  BY <1>3, <1>5, <1>6, HeadLinks
<1>8. links' = links
  BY <1>2, <1>7 DEF Without
<1>9. ports' = ports
  BY <1>2, <1>8 DEF WiringInv, MadeInv, Linked
<1> QED BY <1>1, <1>7, <1>8, <1>9

LEMMA NicDelSwitchWiring ==
  ASSUME GraphInv, SwitchInv, WiringInv, NicDelSwitch
  PROVE  WiringInv'
<1>1. PICK n : n = req.nic
  OBVIOUS
<1>2. /\ pc = "del_switch" /\ WaitEmptyQueue /\ pc' = "del" /\ req' = req
      /\ queue' = <<BrickDestroy(Fw(n)), Nothing>> /\ branch' = branch /\ running' = running
  BY <1>1 DEF NicDelSwitch, poller
<1>3. links' = links /\ ports' = ports
  BY NicDelSwitchCuts
<1>4. n \in Nics /\ n \in NicId /\ BrickDestroy(Fw(n)) \in Rpc
  <2>1. n \in Nics /\ n \in NicId
    BY <1>1, <1>2 DEF GraphInv, ReqInv, Nics
  <2>2. Fw(n) \in Brick
    BY <2>1 DEF Brick, Bricks
  <2> QED BY <2>1, <2>2 DEF Rpc
<1>5. Goal(Now) /\ running \in {Nothing, Idle} /\ Now' = Now
  BY <1>2, <1>3, WaitedGoal, AfterWait DEF WiringInv, Now
<1>6. LeadsTo(queue', running', Now', After(BrickDestroy(Fw(n)), Now))
  BY <1>2, <1>4, <1>5, LeadsAgain
<1>7. After(BrickDestroy(Fw(n)), Now) = Cut(Fw(n), Now)
  BY AfterCut
<1>8. Wired(Cut(Fw(n), Now), Nics, Staying, Inners, Stays, Heads)
  <2>1. Frame(Nics, Staying, Inners, Stays, Heads)
    BY Framed DEF GraphInv, WiringInv
  <2>2. n \in Nics \ Staying
    BY <1>1, <1>2, <1>4 DEF Staying, Deleting
  <2>3. \A b \in {Fw(n)} : \E m \in Nics \ Staying : b \in Bricks(m)
    BY <2>2 DEF Bricks
  <2>4. Wired(Now, Nics, Staying, Inners, Stays, Heads) /\ Staying \subseteq Nics
    BY <1>5 DEF Goal, Staying
  <2> QED BY <2>1, <2>3, <2>4, WiredWithout DEF Cut
<1>9. /\ Nics' = Nics /\ Heads' = Heads /\ Inners' = Inners /\ Staying' = Staying
      /\ Stays' = Stays
  <2>1. Nics' = Nics /\ Heads' = Heads /\ Inners' = Inners
    BY <1>2 DEF Nics, Heads, Inners
  <2>2. \A m : Deleting(m)' <=> Deleting(m)
    BY <1>2 DEF Deleting
  <2>3. Staying' = Staying
    BY <2>1, <2>2 DEF Staying
  <2>4. \A v \in Vni : {m \in NicsOf(v)' : ~ Deleting(m)'} = {m \in NicsOf(v) : ~ Deleting(m)}
    BY <1>2, <2>1, <2>2 DEF NicsOf
  <2> QED BY <2>1, <2>3, <2>4 DEF Stays
<1>10. PICK end : end = Cut(Fw(n), Now)
  OBVIOUS
<1>11. Goal(end)'
  <2>1. end = [l |-> end.l, p |-> end.p]
    BY <1>10 DEF Cut
  <2> QED BY <1>8, <1>9, <1>10, <2>1 DEF Goal
<1>12. PlaceInv' /\ MadeInv'
  BY <1>2, <1>3 DEF WiringInv, PlaceInv, MadeInv, Nics, NicsOf
<1> QED BY <1>6, <1>7, <1>10, <1>11, <1>12 DEF WiringInv, GoalInv

(* NicDel destroys the rest of a branch that is linked to no other.        *)
LEMMA NicDelDoneCuts ==
  ASSUME GraphInv, WiringInv, NicDelDone
  PROVE  /\ Wired([l |-> links', p |-> ports'], Nics \ {req.nic}, Staying, Inners, Stays,
                  Heads)
         /\ \A l \in links \ links' : /\ l[1] \in Bricks(req.nic) \ {Fw(req.nic)}
                                      /\ l[2] \in Bricks(req.nic) \ {Fw(req.nic)}
         /\ \A l \in links' : \A b \in live \ live' : b # l[1] /\ b # l[2]
<1>1. PICK n, v, gone :
        /\ n = req.nic /\ v = branch[n].vni
        /\ gone = (Bricks(n) \ {Fw(n)}) \cup (IF NicsOf(v) = {n} THEN {Sw(v)} ELSE {})
  OBVIOUS
<1>2. /\ pc = "del" /\ WaitEmptyQueue /\ links' = Without(gone, links)
      /\ ports' = Linked(ports, links') /\ live' = live \ gone
  BY <1>1 DEF NicDelDone
<1>3. n \in Nics /\ v \in Vni
  BY <1>1, <1>2 DEF GraphInv, ReqInv, TypeOK, Nics, Branch
<1>4. Goal(Now) /\ \A l \in links : l[1] # Fw(n) /\ l[2] # Fw(n)
  BY <1>1, <1>2, WaitedGoal, AfterWait DEF WiringInv
<1>5. Frame(Nics, Staying, Inners, Stays, Heads)
  BY Framed DEF GraphInv, WiringInv
<1>6. \A m \in Nics : m # n => m \in Staying
  BY <1>1 DEF Staying, Deleting
<1>7. n \in Nics \ Staying
  BY <1>1, <1>2, <1>3 DEF Staying, Deleting
<1>8. \A b \in gone : \/ \E m \in Nics \ Staying : b \in Bricks(m)
                      \/ \E w \in Vni : b = Sw(w) /\ ~ Two(Stays[w])
  <2>1. NicsOf(v) = {n} => ~ Two(Stays[v])
    BY <1>3 DEF Stays, Two
  <2> QED BY <1>1, <1>3, <1>7, <2>1
<1>9. \A l \in Inners[n] : l[1] \in Bricks(n) /\ l[2] \in Bricks(n)
  BY <1>3, <1>5, InnerEnds
<1>10. \A l \in Inners[n] : l \notin links'
  BY <1>1, <1>2, <1>4, <1>9 DEF Without
<1>11. Now.l = links /\ Now.p = ports /\ Wired(Now, Nics, Staying, Inners, Stays, Heads)
  BY <1>4 DEF Now, Goal
<1>12. /\ Staying \subseteq Nics \ {n} /\ links' = Without(gone, Now.l)
       /\ \A m \in Nics \ (Nics \ {n}) : \A l \in Inners[m] : l \notin links'
  BY <1>2, <1>7, <1>10, <1>11 DEF Staying
<1>13. PICK ls, P : ls = links' /\ P = Nics \ {n}
  OBVIOUS
<1>14. /\ Wired([l |-> ls, p |-> Linked(Now.p, ls)], P, Staying, Inners, Stays, Heads)
       /\ \A l \in Now.l \ ls : \E m \in Nics \ Staying : l \in Inners[m]
  <2>1. PICK st, N, M, I, S, H : /\ st = Now /\ N = Nics /\ M = Staying /\ I = Inners
                                 /\ S = Stays /\ H = Heads
    OBVIOUS
  <2>2. M \subseteq P /\ ls = Without(gone, st.l)
        /\ \A m \in N \ P : \A l \in I[m] : l \notin ls
    BY <1>12, <1>13, <2>1
  <2>3. Frame(N, M, I, S, H) /\ Wired(st, N, M, I, S, H)
    BY <1>5, <1>11, <2>1
  <2>4. \A b \in gone : \/ \E m \in N \ M : b \in Bricks(m)
                       \/ \E w \in Vni : b = Sw(w) /\ ~ Two(S[w])
    BY <1>8, <2>1
  <2>5. /\ Wired([l |-> ls, p |-> Linked(st.p, ls)], P, M, I, S, H)
        /\ \A l \in st.l \ ls : \E m \in N \ M : l \in I[m]
    BY <2>2, <2>3, <2>4, WiredWithout
  <2> QED BY <2>1, <2>5
<1>15. Wired([l |-> links', p |-> ports'], Nics \ {n}, Staying, Inners, Stays, Heads)
  BY <1>2, <1>11, <1>13, <1>14
<1>16. ASSUME NEW l \in links \ links'
       PROVE  l[1] \in Bricks(n) \ {Fw(n)} /\ l[2] \in Bricks(n) \ {Fw(n)}
  <2>1. l \in Inners[n]
    BY <1>6, <1>11, <1>13, <1>14
  <2> QED BY <1>4, <1>9, <2>1
<1>17. \A l \in links' : \A b \in live \ live' : b # l[1] /\ b # l[2]
  BY <1>2 DEF Without
<1> QED BY <1>1, <1>15, <1>16, <1>17

LEMMA NicDelDoneWiring ==
  ASSUME GraphInv, WiringInv, NicDelDone
  PROVE  WiringInv'
<1>1. PICK n : n = req.nic
  OBVIOUS
<1>2. /\ pc = "del" /\ WaitEmptyQueue /\ branch' = [branch EXCEPT ![n] = None]
      /\ running' = running /\ ports' = Linked(ports, links')
      /\ \/ queue' = <<FwNew(n), Nothing>> /\ pc' = "new" /\ req' = req /\ req.adding
         \/ pc' = "idle" /\ req' = NoRequest /\ queue' = queue
  BY <1>1 DEF NicDelDone, poller
<1>3. n \in Nics /\ n \in NicId
  BY <1>1, <1>2 DEF GraphInv, ReqInv, Nics
<1>4. branch'[n] = None /\ \A m \in NicId : m # n => branch'[m] = branch[m]
  BY <1>2, <1>3 DEF GraphInv, TypeOK
<1>5. Nics' = Nics \ {n}
  BY <1>4 DEF Nics
<1>6. Nics \subseteq NicId /\ pc' \notin {"del", "del_switch"} /\ \A m : ~ Deleting(m)'
  BY <1>2 DEF Nics, Deleting
<1>7. Staying' = Staying
  BY <1>1, <1>2, <1>5, <1>6 DEF Staying, Deleting
<1>8. \A v : NicsOf(v)' = NicsOf(v) \ {n}
  BY <1>4, <1>5, <1>6 DEF NicsOf
<1>9. \A v \in Vni : Stays'[v] = Stays[v]
  <2>1. \A v \in Vni : {m \in NicsOf(v)' : ~ Deleting(m)'} = {m \in NicsOf(v) : ~ Deleting(m)}
    BY <1>1, <1>2, <1>6, <1>8 DEF Deleting
  <2> QED BY <2>1 DEF Stays
<1>10. \A m \in Nics' : Inners'[m] = Inners[m] /\ Heads'[m] = Heads[m]
  BY <1>4, <1>5, <1>6 DEF Inners, Heads
<1>11. PICK N, M, J, T, G : N = Nics' /\ M = Staying /\ J = Inners' /\ T = Stays' /\ G = Heads'
  OBVIOUS
<1>12. Wired(Now', N, M, J, T, G)
  <2>1. Wired(Now', N, M, Inners, Stays, Heads)
    BY <1>1, <1>5, <1>11, NicDelDoneCuts DEF Now
  <2>2. M \in SUBSET N
    BY <1>5, <1>7, <1>11 DEF Staying
  <2>3. \A v \in Vni : Stays[v] \subseteq N
    <3>1. \A v \in Vni : Stays'[v] \subseteq Nics'
      BY DEF Stays, NicsOf
    <3> QED BY <1>9, <1>11, <3>1
  <2>4. PICK st : st = Now'
    OBVIOUS
  <2>5. Wired(st, N, M, Inners, Stays, Heads)
    BY <2>1, <2>4
  <2>6. /\ \A m \in N : J[m] = Inners[m] /\ G[m] = Heads[m]
        /\ \A v \in Vni : T[v] = Stays[v]
    BY <1>9, <1>10, <1>11
  <2>7. Wired(st, N, M, J, T, G)
    BY <2>2, <2>3, <2>5, <2>6, WiredAgree
  <2> QED BY <2>4, <2>7
<1>13. Goal(Now)'
  <2>1. Now' = [l |-> Now.l, p |-> Now.p]'
    BY DEF Now
  <2> QED BY <1>7, <1>11, <1>12, <2>1 DEF Goal
<1>14. LeadsTo(queue', running', Now', Now')
  <2>1. queue = <<>> /\ running \in {Nothing, Idle}
    BY <1>2, AfterWait
  <2>2. FwNew(n) \in Rpc
    BY <1>3 DEF Rpc
  <2>3. PICK st : st = Now'
    OBVIOUS
  <2>4. After(FwNew(n), st) = st
    BY AfterOther
  <2>5. LeadsTo(<<>>, running, st, st) /\ LeadsTo(<<FwNew(n), Nothing>>, running, st, st)
    BY <2>1, <2>2, <2>4, LeadsAgain
  <2> QED BY <1>2, <2>1, <2>3, <2>5
<1>15. MadeInv'
  <2>1. \A m \in Nics' : branch'[m].head = HeadOf(m, branch'[m].bypass, branch'[m].trace)
    BY <1>4, <1>5, <1>6 DEF WiringInv, MadeInv
  <2>2. \A p \in ports' : <<Vtep, p[2]>> \in links'
    BY <1>2 DEF Linked
  <2> QED BY <2>1, <2>2 DEF MadeInv
<1>16. PlaceInv'
  <2>1. \A m \in Nics' : branch'[m].trace \in TraceModes
    BY <1>4, <1>5, <1>6 DEF WiringInv, PlaceInv
  <2>2. CASE pc' = "idle"
    BY <2>1, <2>2 DEF PlaceInv
  <2>3. CASE pc' = "new"
    <3>1. req' = req /\ req.adding
      BY <1>2, <2>3
    <3>2. req.trace \in TraceModes /\ Cardinality(NicsOf(req.vni) \ {req.nic}) < MaxPerVni
      BY <1>2, <3>1 DEF WiringInv, PlaceInv
    <3>3. NicsOf(req.vni)' = NicsOf(req.vni) \ {n}
      BY <1>8, <3>1 DEF NicsOf
    <3>4. NicsOf(req.vni)' \ {req'.nic} = NicsOf(req.vni) \ {req.nic}
      BY <1>1, <3>1, <3>3
    <3> QED BY <2>1, <2>3, <3>1, <3>2, <3>4 DEF PlaceInv
  <2> QED BY <1>2, <2>2, <2>3
<1> QED BY <1>13, <1>14, <1>15, <1>16 DEF WiringInv, GoalInv

(* What NicDel's calls do: of two branches the other one gets the place of *)
(* the switch; else the branch goes from its place.                        *)
LEMMA CutPair ==
  ASSUME NEW st, NEW N, NEW M, NEW I, NEW S, NEW H, Frame(N, M, I, S, H),
         Wired(st, N, M, I, S, H), NEW v \in Vni, NEW m, NEW o, m # o, S[v] = {m, o},
         NEW T, Differ(T, S, v), T[v] = {o}
  PROVE  Wired(After(AddVni(H[o], v), After(Link(Vtep, H[o]), Cut(Sw(v), st))),
               N, M \ {m}, I, T, H)
<1>1. PICK U, cut : /\ U = [w \in Vni |-> IF w = v THEN {} ELSE S[w]]
                    /\ cut = Cut(Sw(v), st)
  OBVIOUS
<1>2. Differ(U, S, v) /\ U[v] = {} /\ Two(S[v]) /\ Differ(T, U, v)
  BY <1>1 DEF Differ, Two
<1>3. Wired(cut, N, M, I, U, H)
  BY <1>1, <1>2, CutSwitch
<1>4. \A w \in Vni : U[w] \subseteq S[w] /\ U[w] \subseteq M
  BY <1>1 DEF Frame
<1>5. Frame(N, M, I, U, H)
  BY <1>4, FrameFewer
<1>6. o \in M /\ \A w \in Vni : o \notin U[w]
  BY <1>1 DEF Frame
<1>7. cut = [l |-> cut.l, p |-> cut.p]
  BY <1>1 DEF Cut
<1>8. Wired(After(AddVni(H[o], v), After(Link(Vtep, H[o]), cut)), N, M, I, T, H)
  BY <1>2, <1>3, <1>5, <1>6, <1>7, LinkSole
<1>9. Wired(After(AddVni(H[o], v), After(Link(Vtep, H[o]), cut)), N, M \ {m}, I, T, H)
  BY <1>8, WiredFewer
<1> QED BY <1>1, <1>9

LEMMA CutOne ==
  ASSUME NEW st, NEW N, NEW M, NEW I, NEW S, NEW H, Frame(N, M, I, S, H),
         Wired(st, N, M, I, S, H), NEW v \in Vni, NEW m \in S[v],
         S[v] = {m} \/ Two(S[v] \ {m}),
         NEW T, Differ(T, S, v), T[v] = S[v] \ {m}
  PROVE  Wired(Cut(Fw(m), Cut(H[m], st)), N, M \ {m}, I, T, H)
<1>1. PICK cut, K : cut = Cut(H[m], st) /\ K = M \ {m}
  OBVIOUS
<1>2. Wired(cut, N, K, I, T, H)
  BY <1>1, CutHead
<1>3. \A w \in Vni : T[w] \subseteq S[w] /\ T[w] \subseteq K
  BY <1>1 DEF Frame, Differ
<1>4. Frame(N, K, I, T, H)
  BY <1>1, <1>3, FrameFewer
<1>5. m \in N \ K /\ Fw(m) \in Bricks(m) /\ K \subseteq N
  BY <1>1 DEF Frame, Bricks
<1>6. PICK Z, ls : Z = {Fw(m)} /\ ls = Without(Z, cut.l)
  OBVIOUS
<1>7. Wired([l |-> ls, p |-> Linked(cut.p, ls)], N, K, I, T, H)
  BY <1>2, <1>4, <1>5, <1>6, WiredWithout
<1>8. Cut(Fw(m), cut) = [l |-> ls, p |-> Linked(cut.p, ls)]
  BY <1>6 DEF Cut
<1> QED BY <1>1, <1>7, <1>8

(* The calls of NicDel, and what they lead to.                             *)
LEMMA DelLeads ==
  ASSUME GraphInv, SwitchInv, MadeInv, pc = "idle", NEW m \in Nics, NEW s \in SUBSET NicId,
         NEW end, LeadsTo(queue, running, Now, end), Goal(end),
         NEW T, Differ(T, Stays, branch[m].vni),
         T[branch[m].vni] = Stays[branch[m].vni] \ {m}
  PROVE  \E fin : /\ LeadsTo(queue \o DelCalls(m, s), running, Now, fin)
                  /\ fin = [l |-> fin.l, p |-> fin.p]
                  /\ Wired(fin, Nics, Staying \ {m}, Inners, T, Heads)
<1>1. \A n \in Nics : branch[n].head \in Brick /\ branch[n].vni \in Vni /\ n \in NicId
                      /\ Heads[n] = branch[n].head
  BY DEF Nics, GraphInv, TypeOK, Branch, Heads
<1>2. PICK v : v = branch[m].vni
  OBVIOUS
<1>3. Vtep \in Brick /\ Sw(v) \in Brick /\ Fw(m) \in Brick
  BY <1>1, <1>2 DEF Brick, Bricks
<1>4. UpdatePoll(s) \in Rpc /\ Nothing \in Rpc /\ queue \in Seq(Rpc) /\ v \in Vni
  BY <1>1, <1>2 DEF Rpc, GraphInv, TypeOK
<1>5. Frame(Nics, Staying, Inners, Stays, Heads)
  BY Framed DEF GraphInv
<1>6. Wired(end, Nics, Staying, Inners, Stays, Heads) /\ end = [l |-> end.l, p |-> end.p]
  BY DEF Goal
<1>7. Stays[v] = NicsOf(v) /\ Others(m) = Stays[v] \ {m} /\ m \in Stays[v]
  <2>1. Stays[v] = NicsOf(v)
    BY <1>4 DEF Stays, Deleting
  <2> QED BY <1>2, <2>1 DEF Others, NicsOf
<1>8. IsFiniteSet(Others(m))
  BY FiniteNics
<1>9. CASE Cardinality(Others(m)) = 1
  <2>1. PICK o \in Nics :
          /\ o # m
          /\ DelCalls(m, s) = <<UpdatePoll(s), Unlink(Sw(v)), Link(Vtep, branch[o].head),
                                AddVni(branch[o].head, v), Nothing>>
          /\ o \in Others(m)
    BY <1>2, <1>9, DelCallsList
  <2>2. Others(m) = {o}
    BY <1>8, <1>9, <2>1, OneMember
  <2>3. Stays[v] = {m, o} /\ T[v] = {o} /\ Differ(T, Stays, v)
    BY <1>2, <1>7, <2>1, <2>2
  <2>4. PICK a, b, c, d, e : /\ a = UpdatePoll(s) /\ b = Unlink(Sw(v))
                             /\ c = Link(Vtep, Heads[o]) /\ d = AddVni(Heads[o], v)
                             /\ e = Nothing
    OBVIOUS
  <2>5. a \in Rpc /\ b \in Rpc /\ c \in Rpc /\ d \in Rpc /\ e \in Rpc
    BY <1>1, <1>3, <1>4, <2>4 DEF Rpc
  <2>6. DelCalls(m, s) = <<a, b, c, d, e>>
    BY <1>1, <2>1, <2>4
  <2>7. LeadsTo(queue \o <<a, b, c, d, e>>, running, Now,
                After(e, After(d, After(c, After(b, After(a, end))))))
    BY <1>4, <2>5, LeadsFive
  <2>8. PICK fin : fin = After(d, After(c, Cut(Sw(v), end)))
    OBVIOUS
  <2>9. After(a, end) = end /\ After(b, end) = Cut(Sw(v), end) /\ After(e, fin) = fin
    BY <2>4, AfterOther, AfterCut
  <2>10. LeadsTo(queue \o DelCalls(m, s), running, Now, fin)
    BY <2>6, <2>7, <2>8, <2>9
  <2>11. Wired(fin, Nics, Staying \ {m}, Inners, T, Heads)
    BY <1>4, <1>5, <1>6, <2>1, <2>3, <2>4, <2>8, CutPair
  <2>12. fin = [l |-> fin.l, p |-> fin.p]
    <3>1. PICK k : k = Cut(Sw(v), end)
      OBVIOUS
    <3>2. k = [l |-> k.l, p |-> k.p]
      BY <3>1 DEF Cut
    <3>3. PICK ls, ps, h : ls = BrickLink(Vtep, Heads[o], k.l) /\ ps = k.p /\ h = Heads[o]
      OBVIOUS
    <3>4. After(Link(Vtep, h), [l |-> k.l, p |-> ps]) = [l |-> ls, p |-> ps]
      BY <3>3, AfterLink
    <3>5. After(c, k) = [l |-> ls, p |-> ps]
      BY <2>4, <3>2, <3>3, <3>4
    <3>6. After(AddVni(h, v), [l |-> ls, p |-> ps])
            = [l |-> ls, p |-> Linked({x \in ps : x[1] # v} \cup {<<v, h>>}, ls)]
      BY AfterAddVni
    <3>7. PICK qs : fin = [l |-> ls, p |-> qs]
      BY <2>4, <2>8, <3>1, <3>3, <3>5, <3>6
    <3> QED BY <3>7
  <2> QED BY <2>10, <2>11, <2>12
<1>10. CASE Cardinality(Others(m)) # 1
  <2>1. DelCalls(m, s) = <<UpdatePoll(s), Unlink(Heads[m]), BrickDestroy(Fw(m)), Nothing>>
    BY <1>1, <1>10, DelCallsList
  <2>2. Stays[v] = {m} \/ Two(Stays[v] \ {m})
    BY <1>7, <1>8, <1>10, TwoMembers DEF Two
  <2>3. PICK a, b, c, d : /\ a = UpdatePoll(s) /\ b = Unlink(Heads[m])
                          /\ c = BrickDestroy(Fw(m)) /\ d = Nothing
    OBVIOUS
  <2>4. a \in Rpc /\ b \in Rpc /\ c \in Rpc /\ d \in Rpc
    BY <1>1, <1>3, <1>4, <2>3 DEF Rpc
  <2>5. LeadsTo(queue \o <<a, b, c, d>>, running, Now,
                After(d, After(c, After(b, After(a, end)))))
    BY <1>4, <2>4, LeadsFour
  <2>6. PICK fin : fin = Cut(Fw(m), Cut(Heads[m], end))
    OBVIOUS
  <2>7. /\ After(a, end) = end /\ After(b, end) = Cut(Heads[m], end)
        /\ After(c, Cut(Heads[m], end)) = fin /\ After(d, fin) = fin
    BY <2>3, <2>6, AfterOther, AfterCut
  <2>8. LeadsTo(queue \o DelCalls(m, s), running, Now, fin)
    BY <2>1, <2>3, <2>5, <2>7
  <2>9. Wired(fin, Nics, Staying \ {m}, Inners, T, Heads)
    BY <1>2, <1>4, <1>5, <1>6, <1>7, <2>2, <2>6, CutOne
  <2>10. fin = [l |-> fin.l, p |-> fin.p]
    BY <2>6 DEF Cut
  <2> QED BY <2>8, <2>9, <2>10
<1> QED BY <1>9, <1>10

LEMMA NicDelWiring ==
  ASSUME GraphInv, SwitchInv, WiringInv, NEW m, DelStep(m)
  PROVE  WiringInv'
<1>1. PICK next : /\ Ready /\ next.nic = m /\ (next.adding => Fits(m, next))
                  /\ NicDel(m, next)
  BY DEF DelStep
<1>2. /\ m \in Nics /\ m \in NicId /\ pc = "idle" /\ links' = links /\ running' = running
      /\ pc' \in {"del", "del_switch"} /\ req'.nic = m /\ req' = next /\ ports' = ports
      /\ branch' = [branch EXCEPT ![m].enable = FALSE] /\ Nics' = Nics
  BY <1>1, NicDelSteps DEF NicDel
<1>3. \A n \in Nics : /\ branch'[n].vni = branch[n].vni /\ branch'[n].head = branch[n].head
                      /\ branch'[n].bypass = branch[n].bypass
                      /\ branch'[n].trace = branch[n].trace /\ n \in NicId
  BY <1>2, DisabledBranch DEF GraphInv, Nics
<1>4. PICK s \in SUBSET NicId : queue' = queue \o DelCalls(m, s)
  BY <1>1, NicDelSteps DEF DelCalls
<1>5. PICK end : LeadsTo(queue, running, Now, end) /\ Goal(end)
  BY DEF WiringInv, GoalInv
<1>6. \A n : ~ Deleting(n) /\ (Deleting(n)' <=> n = m)
  BY <1>2 DEF Deleting
<1>7. Staying' = Staying \ {m}
  BY <1>2, <1>6 DEF Staying
<1>8. \A v : NicsOf(v)' = NicsOf(v)
  BY <1>2, <1>3 DEF NicsOf
<1>9. PICK v : v = branch[m].vni /\ v \in Vni
  BY <1>2 DEF GraphInv, TypeOK, Nics, Branch
<1>10. \A w \in Vni : Stays'[w] = Stays[w] \ {m}
  <2>1. \A w \in Vni : {n \in NicsOf(w)' : ~ Deleting(n)'}
                         = {n \in NicsOf(w) : ~ Deleting(n)} \ {m}
    BY <1>6, <1>8
  <2> QED BY <2>1 DEF Stays
<1>11. PICK T : T = Stays'
  OBVIOUS
<1>12. Differ(T, Stays, v) /\ T[v] = Stays[v] \ {m}
  <2>1. \A w \in Vni : w # v => m \notin Stays[w]
    BY <1>9 DEF Stays, NicsOf
  <2> QED BY <1>9, <1>10, <1>11, <2>1 DEF Differ
<1>13. PICK fin : /\ LeadsTo(queue \o DelCalls(m, s), running, Now, fin)
                  /\ fin = [l |-> fin.l, p |-> fin.p]
                  /\ Wired(fin, Nics, Staying \ {m}, Inners, T, Heads)
  BY <1>2, <1>5, <1>9, <1>12, DelLeads DEF WiringInv
<1>14. \A n \in Nics : Inners'[n] = Inners[n] /\ Heads'[n] = Heads[n]
  BY <1>3 DEF Inners, Heads
<1>15. Goal(fin)'
  <2>1. PICK N, K, J, G : N = Nics /\ K = Staying \ {m} /\ J = Inners' /\ G = Heads'
    OBVIOUS
  <2>2. K \in SUBSET N /\ \A w \in Vni : T[w] \subseteq N
    <3>1. \A w \in Vni : Stays'[w] \subseteq Nics'
      BY DEF Stays, NicsOf
    <3> QED BY <1>2, <1>11, <2>1, <3>1 DEF Staying
  <2>3. Wired(fin, N, K, Inners, T, Heads) /\ \A n \in N : J[n] = Inners[n] /\ G[n] = Heads[n]
    BY <1>13, <1>14, <2>1
  <2>4. Wired(fin, N, K, J, T, G)
    BY <2>2, <2>3, WiredAgree
  <2> QED BY <1>2, <1>7, <1>11, <1>13, <2>1, <2>4 DEF Goal
<1>16. LeadsTo(queue', running', Now', fin)
  <2>1. Now' = Now
    BY <1>2 DEF Now
  <2> QED BY <1>2, <1>4, <1>13, <2>1
<1>17. MadeInv'
  BY <1>2, <1>3 DEF WiringInv, MadeInv
<1>18. PlaceInv'
  <2>1. \A n \in Nics' : branch'[n].trace \in TraceModes
    BY <1>2, <1>3 DEF WiringInv, PlaceInv
  <2>2. next.adding => /\ next.trace \in TraceModes
                       /\ Cardinality(NicsOf(next.vni) \ {m}) < MaxPerVni
    BY <1>1 DEF Fits
  <2>3. NicsOf(req.vni)' \ {req.nic}' = NicsOf(next.vni) \ {m}
    <3>1. NicsOf(req.vni)' = {n \in Nics' : branch'[n].vni = req'.vni}
      BY DEF NicsOf
    <3>2. {n \in Nics' : branch'[n].vni = req'.vni} = NicsOf(next.vni)
      BY <1>2, <1>3 DEF NicsOf
    <3> QED BY <1>2, <3>1, <3>2
  <2>4. pc' # "new" /\ pc' # "idle"
    BY <1>2
  <2> QED BY <1>2, <2>1, <2>2, <2>3, <2>4 DEF PlaceInv
<1> QED BY <1>15, <1>16, <1>17, <1>18 DEF WiringInv, GoalInv

LEMMA AfterShape ==
  ASSUME NEW c, NEW st, st = [l |-> st.l, p |-> st.p]
  PROVE  After(c, st) = [l |-> After(c, st).l, p |-> After(c, st).p]
<1>1. CASE c.action = "LINK"
  BY <1>1 DEF After
<1>2. CASE c.action \in {"UNLINK", "BRICK_DESTROY"}
  <2>1. After(c, st) = Cut(c.args[1], st)
    BY <1>2 DEF After
  <2> QED BY <2>1 DEF Cut
<1>3. CASE c.action = "UNLINK_EDGE"
  BY <1>3 DEF After
<1>4. CASE c.action = "ADD_VNI"
  BY <1>4 DEF After
<1>5. CASE c.action \notin {"LINK", "UNLINK", "BRICK_DESTROY", "UNLINK_EDGE", "ADD_VNI"}
  BY <1>5 DEF After
<1> QED BY <1>1, <1>2, <1>3, <1>4, <1>5

(* What the calls of Attach lead to, when the branch of n is there and has *)
(* no place yet.                                                           *)
LEMMA AttachLeads ==
  ASSUME NEW r \in {Nothing, Idle}, NEW st, st = [l |-> st.l, p |-> st.p],
         NEW N, NEW M, NEW I, NEW S, NEW H, Frame(N, M, I, S, H), Wired(st, N, M, I, S, H),
         \A m \in M : H[m] \in Brick,
         NEW v \in Vni, NEW n \in M, \A w \in Vni : n \notin S[w],
         NEW T, Differ(T, S, v), NEW calls,
         \/ /\ S[v] = {} /\ T[v] = {n}
            /\ calls = <<Link(Vtep, H[n]), AddVni(H[n], v)>>
         \/ /\ S[v] = {} /\ 1 < MaxPerVni
            /\ \E o \in M : /\ o # n /\ (\A w \in Vni : o \notin S[w]) /\ T[v] = {o, n}
                            /\ calls = <<Link(Vtep, Sw(v)), AddVni(Sw(v), v),
                                         Link(Sw(v), H[o]), Link(Sw(v), H[n])>>
         \/ /\ Two(S[v]) /\ IsFiniteSet(S[v]) /\ Cardinality(S[v]) < MaxPerVni
            /\ T[v] = S[v] \cup {n} /\ calls = <<Link(Sw(v), H[n])>>
  PROVE  \E end : /\ LeadsTo(calls, r, st, end) /\ calls \in Seq(Rpc)
                  /\ end = [l |-> end.l, p |-> end.p] /\ Wired(end, N, M, I, T, H)
<1>1. LeadsTo(<<>>, r, st, st) /\ <<>> \in Seq(Rpc)
  BY LeadsEmpty, AfterOther
<1>2. Vtep \in Brick /\ Sw(v) \in Brick /\ H[n] \in Brick
  BY DEF Brick
<1>3. CASE /\ S[v] = {} /\ T[v] = {n}
           /\ calls = <<Link(Vtep, H[n]), AddVni(H[n], v)>>
  <2>1. PICK a, b : a = Link(Vtep, H[n]) /\ b = AddVni(H[n], v)
    OBVIOUS
  <2>2. a \in Rpc /\ b \in Rpc
    BY <1>2, <2>1 DEF Rpc
  <2>3. calls = <<a, b>> /\ <<>> \o <<a, b>> = <<a, b>> /\ <<a, b>> \in Seq(Rpc)
    BY <1>3, <2>1, <2>2, SeqLiterals
  <2>4. LeadsTo(<<>> \o <<a, b>>, r, st, After(b, After(a, st)))
    BY <1>1, <2>2, LeadsTwo
  <2>5. Wired(After(b, After(a, st)), N, M, I, T, H)
    BY <1>3, <2>1, LinkSole
  <2>6. PICK s1, s2 : s1 = After(a, st) /\ s2 = After(b, s1)
    OBVIOUS
  <2>7. s1 = [l |-> s1.l, p |-> s1.p]
    BY <2>6, AfterShape
  <2>8. s2 = [l |-> s2.l, p |-> s2.p]
    BY <2>6, <2>7, AfterShape
  <2> QED BY <2>3, <2>4, <2>5, <2>6, <2>8
<1>4. CASE /\ S[v] = {} /\ 1 < MaxPerVni
           /\ \E o \in M : /\ o # n /\ (\A w \in Vni : o \notin S[w]) /\ T[v] = {o, n}
                           /\ calls = <<Link(Vtep, Sw(v)), AddVni(Sw(v), v),
                                        Link(Sw(v), H[o]), Link(Sw(v), H[n])>>
  <2>1. PICK o \in M : /\ o # n /\ (\A w \in Vni : o \notin S[w]) /\ T[v] = {o, n}
                       /\ calls = <<Link(Vtep, Sw(v)), AddVni(Sw(v), v),
                                    Link(Sw(v), H[o]), Link(Sw(v), H[n])>>
    BY <1>4
  <2>2. PICK a, b, c, d : /\ a = Link(Vtep, Sw(v)) /\ b = AddVni(Sw(v), v)
                          /\ c = Link(Sw(v), H[o]) /\ d = Link(Sw(v), H[n])
    OBVIOUS
  <2>3. a \in Rpc /\ b \in Rpc /\ c \in Rpc /\ d \in Rpc
    BY <1>2, <2>1, <2>2 DEF Rpc
  <2>4. calls = <<a, b, c, d>> /\ <<a, b, c, d>> \in Seq(Rpc)
    BY <2>1, <2>2, <2>3, SeqLiterals
  <2>5. PICK q : q = <<a, b, c, d>>
    OBVIOUS
  <2>6. <<>> \o q = q
    BY <2>4, <2>5
  <2>7. LeadsTo(<<>> \o <<a, b, c, d>>, r, st, After(d, After(c, After(b, After(a, st)))))
    BY <1>1, <2>3, LeadsFour
  <2>8. Wired(After(d, After(c, After(b, After(a, st)))), N, M, I, T, H)
    BY <1>4, <2>1, <2>2, LinkSwitch
  <2>9. PICK s1, s2, s3, s4 : /\ s1 = After(a, st) /\ s2 = After(b, s1) /\ s3 = After(c, s2)
                              /\ s4 = After(d, s3)
    OBVIOUS
  <2>10. s1 = [l |-> s1.l, p |-> s1.p]
    BY <2>9, AfterShape
  <2>11. s2 = [l |-> s2.l, p |-> s2.p]
    BY <2>9, <2>10, AfterShape
  <2>12. s3 = [l |-> s3.l, p |-> s3.p]
    BY <2>9, <2>11, AfterShape
  <2>13. s4 = [l |-> s4.l, p |-> s4.p]
    BY <2>9, <2>12, AfterShape
  <2>14. LeadsTo(calls, r, st, s4) /\ calls \in Seq(Rpc)
    BY <2>4, <2>5, <2>6, <2>7, <2>9
  <2> QED BY <2>8, <2>9, <2>13, <2>14
<1>5. CASE /\ Two(S[v]) /\ IsFiniteSet(S[v]) /\ Cardinality(S[v]) < MaxPerVni
           /\ T[v] = S[v] \cup {n} /\ calls = <<Link(Sw(v), H[n])>>
  <2>1. PICK a : a = Link(Sw(v), H[n])
    OBVIOUS
  <2>2. a \in Rpc
    BY <1>2, <2>1 DEF Rpc
  <2>3. calls = <<a>> /\ <<>> \o <<a>> = <<a>>
    BY <1>5, <2>1, <2>2
  <2>4. LeadsTo(<<>> \o <<a>>, r, st, After(a, st)) /\ <<>> \o <<a>> \in Seq(Rpc)
    BY <1>1, <2>2, LeadsOne
  <2>5. Wired(After(a, st), N, M, I, T, H)
    BY <1>5, <2>1, LinkMore
  <2>6. After(a, st) = [l |-> After(a, st).l, p |-> After(a, st).p]
    BY AfterShape
  <2> QED BY <2>3, <2>4, <2>5, <2>6
<1> QED BY <1>3, <1>4, <1>5

(* The branch is made; for the second one of a VNI the first one is        *)
(* unlinked from the vtep before.                                          *)
LEMMA MadeNew ==
  ASSUME NEW st, NEW N, NEW I, NEW S, NEW H, Frame(N, N, I, S, H), Wired(st, N, N, I, S, H),
         NEW n, NEW J, NEW G, Grows(N, I, H, n, J, G), NEW ls, ls = J[n] \cup st.l
  PROVE  /\ Frame(N \cup {n}, N \cup {n}, J, S, G)
         /\ Wired([l |-> ls, p |-> Linked(st.p, ls)], N \cup {n}, N \cup {n}, J, S, G)
<1>1. PICK M : M = N
  OBVIOUS
<1>2. Frame(N, M, I, S, H) /\ Wired(st, N, M, I, S, H)
  BY <1>1
<1>3. /\ Frame(N \cup {n}, M \cup {n}, J, S, G)
      /\ Wired([l |-> ls, p |-> Linked(st.p, ls)], N \cup {n}, M \cup {n}, J, S, G)
  BY <1>2, WiredNew
<1> QED BY <1>1, <1>3

LEMMA SoleCut ==
  ASSUME NEW st, NEW N, NEW I, NEW S, NEW H, Frame(N, N, I, S, H), Wired(st, N, N, I, S, H),
         NEW v \in Vni, NEW o, S[v] = {o}, NEW U, Differ(U, S, v), U[v] = {},
         NEW ml, ml = st.l \ {<<Vtep, H[o]>>}
  PROVE  Frame(N, N, I, U, H) /\ Wired([l |-> ml, p |-> Linked(st.p, ml)], N, N, I, U, H)
<1>1. Wired([l |-> ml, p |-> Linked(st.p, ml)], N, N, I, U, H)
  BY CutSole
<1>2. \A w \in Vni : U[w] \subseteq S[w] /\ U[w] \subseteq N
  BY DEF Frame, Differ
<1>3. Frame(N, N, I, U, H)
  BY <1>2, FrameFewer
<1> QED BY <1>1, <1>3

LEMMA MadeSecond ==
  ASSUME NEW st, NEW N, NEW I, NEW U, NEW H, NEW ml, Frame(N, N, I, U, H),
         Wired([l |-> ml, p |-> Linked(st.p, ml)], N, N, I, U, H),
         NEW n, NEW J, NEW G, Grows(N, I, H, n, J, G), NEW ls, ls = J[n] \cup ml
  PROVE  /\ Frame(N \cup {n}, N \cup {n}, J, U, G)
         /\ Wired([l |-> ls, p |-> Linked(st.p, ls)], N \cup {n}, N \cup {n}, J, U, G)
<1>1. PICK mid : mid = [l |-> ml, p |-> Linked(st.p, ml)]
  OBVIOUS
<1>2. ls = J[n] \cup mid.l /\ mid.p = Linked(st.p, ml) /\ Wired(mid, N, N, I, U, H)
  BY <1>1
<1>3. /\ Frame(N \cup {n}, N \cup {n}, J, U, G)
      /\ Wired([l |-> ls, p |-> Linked(mid.p, ls)], N \cup {n}, N \cup {n}, J, U, G)
  BY <1>2, MadeNew
<1>4. \A b : <<Vtep, b>> \notin J[n]
  BY BrickKinds DEF Grows
<1>5. Linked(mid.p, ls) = Linked(st.p, ls)
  BY <1>2, <1>4 DEF Linked
<1> QED BY <1>3, <1>5

(* What NicAddDone makes is what a branch is made of.                      *)
LEMMA NewInner ==
  ASSUME GraphInv, NicAddDone
  PROVE  /\ InnerLinks(req.nic, NewSniffer) = InnerOf(req.nic, req.bypass, req.trace)
         /\ NewHead = HeadOf(req.nic, req.bypass, req.trace)
         /\ Heads'[req.nic] = NewHead
         /\ Inners'[req.nic] = InnerOf(req.nic, req.bypass, req.trace)
         /\ Grows(Nics, Inners, Heads, req.nic, Inners', Heads')
<1>1. /\ req.nic \in NicId /\ req.nic \notin Nics /\ branch'[req.nic].head = NewHead
      /\ branch'[req.nic].bypass = req.bypass /\ branch'[req.nic].trace = req.trace
      /\ req.bypass \in BOOLEAN /\ req.trace \in BOOLEAN
      /\ \A m \in NicId : m # req.nic => branch'[m] = branch[m]
  BY NewBranchFacts
<1>2. InnerLinks(req.nic, NewSniffer) = InnerOf(req.nic, req.bypass, req.trace)
  BY <1>1, GraphAssumption DEF InnerLinks, InnerOf, NewSniffer
<1>3. NewHead = HeadOf(req.nic, req.bypass, req.trace)
  BY DEF NewHead, HeadOf, NewSniffer
<1>4. /\ Heads'[req.nic] = NewHead
      /\ Inners'[req.nic] = InnerOf(req.nic, req.bypass, req.trace)
  BY <1>1 DEF Heads, Inners
<1>5. \A m \in Nics : Inners'[m] = Inners[m] /\ Heads'[m] = Heads[m]
  BY <1>1 DEF Nics, Inners, Heads
<1>6. /\ Heads'[req.nic] \in Bricks(req.nic)
      /\ Inners'[req.nic] \subseteq Bricks(req.nic) \X Bricks(req.nic)
      /\ \A l \in Inners'[req.nic] : l[2] # Heads'[req.nic]
  BY <1>3, <1>4, InnerOfOwn
<1>7. Grows(Nics, Inners, Heads, req.nic, Inners', Heads')
  BY <1>1, <1>5, <1>6 DEF Grows
<1> QED BY <1>2, <1>3, <1>4, <1>7

(* Where the NICs are before and after.                                    *)
LEMMA NewStays ==
  ASSUME GraphInv, NicAddDone
  PROVE  /\ Staying = Nics /\ Staying' = Nics \cup {req.nic}
         /\ \A w \in Vni : Stays[w] = NicsOf(w) /\ req.nic \notin NicsOf(w)
         /\ \A w \in Vni : Stays'[w] = IF w = req.vni THEN NicsOf(w) \cup {req.nic}
                                       ELSE NicsOf(w)
<1>1. pc = "new" /\ pc' = "idle"
  BY NicAddEffects
<1>2. \A n : ~ Deleting(n) /\ ~ Deleting(n)'
  BY <1>1 DEF Deleting
<1>3. /\ req.nic \in NicId /\ req.nic \notin Nics /\ branch'[req.nic].vni = req.vni
      /\ \A m \in NicId : m # req.nic => branch'[m] = branch[m]
      /\ Nics' = Nics \cup {req.nic} /\ Nics \subseteq NicId
  BY NewBranchFacts DEF Nics
<1>4. Staying = Nics /\ Staying' = Nics \cup {req.nic}
  BY <1>2, <1>3 DEF Staying
<1>5. \A w \in Vni : Stays[w] = NicsOf(w) /\ req.nic \notin NicsOf(w)
  BY <1>2, <1>3 DEF Stays, NicsOf
<1>6. PICK n, v : n = req.nic /\ v = req.vni
  OBVIOUS
<1>7. ASSUME NEW w \in Vni
      PROVE  Stays'[w] = IF w = v THEN NicsOf(w) \cup {n} ELSE NicsOf(w)
  <2>1. Stays'[w] = {m \in Nics' : branch'[m].vni = w}
    BY <1>2 DEF Stays, NicsOf
  <2>2. {m \in Nics' : branch'[m].vni = w} =
          IF w = v THEN NicsOf(w) \cup {n} ELSE NicsOf(w)
    BY <1>3, <1>6 DEF NicsOf
  <2> QED BY <2>1, <2>2
<1> QED BY <1>4, <1>5, <1>6, <1>7

(* The links and ports NicAddDone leaves, before its calls are executed.   *)
LEMMA NewWired ==
  ASSUME GraphInv, SwitchInv, WiringInv, NicAddDone, NEW U,
         \A w \in Vni : U[w] = IF w = req.vni /\ Second(w) THEN {} ELSE NicsOf(w)
  PROVE  /\ Frame(Nics \cup {req.nic}, Nics \cup {req.nic}, Inners', U, Heads')
         /\ Wired(Now', Nics \cup {req.nic}, Nics \cup {req.nic}, Inners', U, Heads')
<1>1. pc = "new" /\ WaitEmptyQueue
  BY NicAddEffects
<1>2. Goal(Now)
  BY <1>1, WaitedGoal DEF WiringInv
<1>3. PICK n, v, N, I, S, H, J, G, st, ls, ps :
        /\ n = req.nic /\ v = req.vni /\ N = Nics /\ I = Inners /\ S = Stays /\ H = Heads
        /\ J = Inners' /\ G = Heads' /\ st = Now /\ ls = links' /\ ps = ports'
  OBVIOUS
<1>4. Frame(N, N, I, S, H)
  BY <1>3, NewStays, Framed DEF GraphInv, WiringInv
<1>5. Wired(st, N, N, I, S, H) /\ st.l = links /\ st.p = ports
  BY <1>2, <1>3, NewStays DEF Goal, Now
<1>6. Grows(N, I, H, n, J, G) /\ InnerLinks(n, NewSniffer) = J[n]
  BY <1>3, NewInner
<1>7. /\ ls = J[n] \cup (IF Second(v) THEN st.l \ {<<Vtep, FirstHead(v)>>} ELSE st.l)
      /\ ps = Linked(st.p, ls) /\ v \in Vni
  BY <1>3, <1>5, <1>6, NicAddEffects, NewBranchFacts
<1>8. Now' = [l |-> ls, p |-> Linked(st.p, ls)]
  BY <1>3, <1>7 DEF Now
<1>9. \A w \in Vni : S[w] = NicsOf(w)
  BY <1>3, NewStays
<1>10. CASE Second(v)
  <2>1. PICK o \in NicsOf(v) : FirstHead(v) = branch[o].head
    BY <1>10, FirstNic DEF Second
  <2>2. S[v] = {o}
    BY <1>7, <1>9, <1>10, <2>1, FiniteNics, OneMember DEF Second
  <2>3. H[o] = FirstHead(v)
    BY <1>3, <2>1 DEF Heads, NicsOf, Nics
  <2>4. Differ(U, S, v) /\ U[v] = {}
    BY <1>3, <1>7, <1>9, <1>10 DEF Differ
  <2>5. PICK ml : ml = st.l \ {<<Vtep, H[o]>>}
    OBVIOUS
  <2>6. Frame(N, N, I, U, H) /\ Wired([l |-> ml, p |-> Linked(st.p, ml)], N, N, I, U, H)
    BY <1>4, <1>5, <1>7, <2>2, <2>4, <2>5, SoleCut
  <2>7. ls = J[n] \cup ml
    BY <1>7, <1>10, <2>3, <2>5
  <2>8. /\ Frame(N \cup {n}, N \cup {n}, J, U, G)
        /\ Wired([l |-> ls, p |-> Linked(st.p, ls)], N \cup {n}, N \cup {n}, J, U, G)
    BY <1>6, <2>6, <2>7, MadeSecond
  <2> QED BY <1>3, <1>8, <2>8
<1>11. CASE ~ Second(v)
  <2>1. \A w \in Vni : U[w] = S[w]
    BY <1>3, <1>9, <1>11
  <2>2. \A w \in Vni : U[w] \subseteq S[w] /\ U[w] \subseteq N /\ S[w] \subseteq N
    BY <1>4, <2>1 DEF Frame
  <2>3. Frame(N, N, I, U, H) /\ N \in SUBSET N
    BY <1>4, <2>2, FrameFewer
  <2>4. Wired(st, N, N, I, U, H)
    BY <1>5, <2>1, <2>2, <2>3, WiredAgree
  <2>5. ls = J[n] \cup st.l
    BY <1>7, <1>11
  <2>6. /\ Frame(N \cup {n}, N \cup {n}, J, U, G)
        /\ Wired([l |-> ls, p |-> Linked(st.p, ls)], N \cup {n}, N \cup {n}, J, U, G)
    BY <1>6, <2>3, <2>4, <2>5, MadeNew
  <2> QED BY <1>3, <1>8, <2>6
<1> QED BY <1>10, <1>11

LEMMA NewLeads ==
  ASSUME GraphInv, SwitchInv, WiringInv, NicAddDone
  PROVE  \E end : /\ LeadsTo(Attach(req.vni, NewHead), running, Now', end)
                  /\ Attach(req.vni, NewHead) \in Seq(Rpc)
                  /\ end = [l |-> end.l, p |-> end.p]
                  /\ Wired(end, Nics \cup {req.nic}, Nics \cup {req.nic}, Inners', Stays',
                           Heads')
<1>1. PICK n, v, N, J, T, G, st, calls :
        /\ n = req.nic /\ v = req.vni /\ N = Nics \cup {n} /\ J = Inners' /\ T = Stays'
        /\ G = Heads' /\ st = Now' /\ calls = Attach(v, NewHead)
  OBVIOUS
<1>2. PICK U : U = [w \in Vni |-> IF w = v /\ Second(w) THEN {} ELSE NicsOf(w)]
  OBVIOUS
<1>3. \A w \in Vni : U[w] = IF w = v /\ Second(w) THEN {} ELSE NicsOf(w)
  BY <1>2
<1>4. Frame(N, N, J, U, G) /\ Wired(st, N, N, J, U, G)
  BY <1>1, <1>3, NewWired
<1>5. /\ n \in N /\ n \notin Nics /\ v \in Vni /\ G[n] = NewHead /\ pc = "new"
      /\ Nics' = N /\ WaitEmptyQueue
  BY <1>1, NewBranchFacts, NewInner, NicAddEffects
<1>6. st = [l |-> st.l, p |-> st.p]
  <2>1. Now' = [l |-> links', p |-> ports']
    BY DEF Now
  <2> QED BY <1>1, <2>1
<1>7. \A m \in N : G[m] \in Brick
  <2>1. \A m \in N : m \in NicId /\ branch'[m] \in Branch
    BY <1>5, NewBranchFacts, NullAssumption DEF Nics
  <2>2. \A m \in N : G[m] = branch'[m].head
    BY <1>1, <2>1 DEF Heads
  <2> QED BY <2>1, <2>2 DEF Branch
<1>8. running \in {Nothing, Idle}
  BY <1>5, AfterWait
<1>9. /\ \A w \in Vni : n \notin U[w] /\ n \notin NicsOf(w)
      /\ \A w \in Vni : T[w] = IF w = v THEN NicsOf(w) \cup {n} ELSE NicsOf(w)
  BY <1>1, <1>3, NewStays
<1>10. Differ(T, U, v)
  BY <1>3, <1>9 DEF Differ
<1>11. IsFiniteSet(NicsOf(v)) /\ Cardinality(NicsOf(v)) < MaxPerVni
  <2>1. Cardinality(NicsOf(req.vni) \ {req.nic}) < MaxPerVni
    BY <1>5 DEF WiringInv, PlaceInv
  <2>2. NicsOf(v) \ {n} = NicsOf(v)
    BY <1>5, <1>9
  <2> QED BY <1>1, <2>1, <2>2, FiniteNics
<1>12. \/ /\ U[v] = {} /\ T[v] = {n}
          /\ calls = <<Link(Vtep, G[n]), AddVni(G[n], v)>>
       \/ /\ U[v] = {} /\ 1 < MaxPerVni
          /\ \E o \in N : /\ o # n /\ (\A w \in Vni : o \notin U[w]) /\ T[v] = {o, n}
                          /\ calls = <<Link(Vtep, Sw(v)), AddVni(Sw(v), v),
                                       Link(Sw(v), G[o]), Link(Sw(v), G[n])>>
       \/ /\ Two(U[v]) /\ IsFiniteSet(U[v]) /\ Cardinality(U[v]) < MaxPerVni
          /\ T[v] = U[v] \cup {n} /\ calls = <<Link(Sw(v), G[n])>>
  <2>1. CASE NicsOf(v) = {} /\ ~ Second(v)
    <3>1. calls = <<Link(Vtep, G[n]), AddVni(G[n], v)>>
      BY <1>1, <1>5, <2>1, AttachCases
    <3>2. U[v] = {} /\ T[v] = {n}
      BY <1>3, <1>5, <1>9, <2>1
    <3> QED BY <3>1, <3>2
  <2>2. CASE Second(v)
    <3>1. PICK o \in NicsOf(v) : FirstHead(v) = branch[o].head
      BY <2>2, FirstNic DEF Second
    <3>2. NicsOf(v) = {o}
      BY <1>11, <2>2, <3>1, OneMember DEF Second
    <3>3. o \in Nics /\ o # n /\ o \in N /\ G[o] = FirstHead(v)
      <4>1. o \in Nics /\ o \in NicId
        BY <3>1 DEF NicsOf, Nics
      <4>2. o # n /\ o \in N
        BY <1>1, <1>5, <4>1
      <4>3. branch'[o] = branch[o]
        BY <1>1, <4>1, <4>2, NewBranchFacts
      <4> QED BY <1>1, <3>1, <4>1, <4>2, <4>3 DEF Heads
    <3>4. calls = <<Link(Vtep, Sw(v)), AddVni(Sw(v), v), Link(Sw(v), G[o]),
                    Link(Sw(v), G[n])>>
      BY <1>1, <1>5, <2>2, <3>3, AttachCases DEF Second
    <3>5. U[v] = {} /\ T[v] = {o, n} /\ 1 < MaxPerVni
      BY <1>3, <1>5, <1>9, <1>11, <2>2, <3>2 DEF Second
    <3>6. \A w \in Vni : o \notin U[w]
      <4>1. \A w \in Vni : w # v => U[w] = NicsOf(w)
        BY <1>3
      <4>2. \A w \in Vni : w # v => o \notin NicsOf(w)
        BY <3>1 DEF NicsOf
      <4> QED BY <3>5, <4>1, <4>2
    <3> QED BY <3>3, <3>4, <3>5, <3>6
  <2>3. CASE NicsOf(v) # {} /\ ~ Second(v)
    <3>1. calls = <<Link(Sw(v), G[n])>>
      BY <1>1, <1>5, <2>3, AttachCases DEF Second
    <3>2. U[v] = NicsOf(v) /\ T[v] = U[v] \cup {n}
      BY <1>3, <1>5, <1>9, <2>3
    <3>3. Two(U[v])
      BY <1>11, <2>3, <3>2, TwoMembers DEF Two, Second
    <3> QED BY <1>11, <3>1, <3>2, <3>3
  <2> QED BY <2>1, <2>2, <2>3
<1>13. PICK end : /\ LeadsTo(calls, running, st, end) /\ calls \in Seq(Rpc)
                  /\ end = [l |-> end.l, p |-> end.p] /\ Wired(end, N, N, J, T, G)
  <2>1. PICK r, M : r = running /\ M = N
    OBVIOUS
  <2>2. Frame(N, M, J, U, G) /\ Wired(st, N, M, J, U, G) /\ n \in M /\ v \in Vni
        /\ r \in {Nothing, Idle} /\ \A m \in M : G[m] \in Brick
    BY <1>4, <1>5, <1>7, <1>8, <2>1
  <2>3. \E end : /\ LeadsTo(calls, r, st, end) /\ calls \in Seq(Rpc)
                 /\ end = [l |-> end.l, p |-> end.p] /\ Wired(end, N, M, J, T, G)
    BY <1>6, <1>9, <1>10, <1>12, <2>1, <2>2, AttachLeads
  <2> QED BY <2>1, <2>3
<1> QED BY <1>1, <1>13

LEMMA NicAddDoneWiring ==
  ASSUME GraphInv, SwitchInv, WiringInv, NicAddDone
  PROVE  WiringInv'
<1>1. PICK n, v, A, r : n = req.nic /\ v = req.vni /\ A = Attach(v, NewHead) /\ r = running
  OBVIOUS
<1>2. PICK st, N, J, T, G : /\ st = Now' /\ N = Nics \cup {n} /\ J = Inners' /\ T = Stays'
                            /\ G = Heads'
  OBVIOUS
<1>3. PICK end : /\ LeadsTo(A, r, st, end) /\ A \in Seq(Rpc)
                 /\ end = [l |-> end.l, p |-> end.p] /\ Wired(end, N, N, J, T, G)
  BY <1>1, <1>2, NewLeads
<1>4. PICK l \in PollLists(branch') :
        queue' = (A \o <<UpdatePoll(l)>>)
                   \o IF req.bypass THEN <<>> ELSE <<FwReload(Fw(n))>>
  BY <1>1, NicAddEffects
<1>5. /\ pc' = "idle" /\ req' = NoRequest /\ running' = running /\ n \in NicId
      /\ ports' = Linked(ports, links') /\ Nics' = N /\ n \notin Nics /\ pc = "new"
  BY <1>1, <1>2, NicAddEffects, NewBranchFacts
<1>6. UpdatePoll(l) \in Rpc /\ FwReload(Fw(n)) \in Rpc
  <2>1. l \in SUBSET NicId /\ Fw(n) \in Brick
    BY <1>5, PollListsEnabled DEF Brick, Bricks
  <2> QED BY <2>1 DEF Rpc
<1>7. LeadsTo(queue', running', Now', end)
  <2>1. After(UpdatePoll(l), end) = end /\ After(FwReload(Fw(n)), end) = end
    BY AfterOther
  <2>2. PICK q : q = A \o <<UpdatePoll(l)>>
    OBVIOUS
  <2>3. LeadsTo(q, r, st, end) /\ q \in Seq(Rpc)
    BY <1>3, <1>6, <2>1, <2>2, LeadsOne
  <2>4. LeadsTo(q \o <<FwReload(Fw(n))>>, r, st, end)
    BY <1>6, <2>1, <2>3, LeadsOne
  <2>5. q \o <<>> = q
    BY <2>3
  <2>6. queue' = q \/ queue' = q \o <<FwReload(Fw(n))>>
    BY <1>4, <2>2, <2>5
  <2> QED BY <1>1, <1>2, <1>5, <2>3, <2>4, <2>6
<1>8. Goal(end)'
  <2>1. Staying' = N
    BY <1>1, <1>2, NewStays
  <2> QED BY <1>2, <1>3, <1>5, <2>1 DEF Goal
<1>9. MadeInv'
  <2>1. \A p \in ports' : <<Vtep, p[2]>> \in links'
    BY <1>5 DEF Linked
  <2>2. branch'[n].head = HeadOf(n, branch'[n].bypass, branch'[n].trace)
    BY <1>1, NewBranchFacts, NewInner
  <2>3. \A m \in Nics : branch'[m] = branch[m]
    BY <1>1, <1>5, NewBranchFacts DEF Nics
  <2>4. \A m \in Nics : branch'[m].head = HeadOf(m, branch'[m].bypass, branch'[m].trace)
    BY <2>3 DEF WiringInv, MadeInv
  <2>5. \A m \in Nics' : branch'[m].head = HeadOf(m, branch'[m].bypass, branch'[m].trace)
    BY <1>2, <1>5, <2>2, <2>4
  <2> QED BY <2>1, <2>5 DEF MadeInv
<1>10. PlaceInv'
  <2>1. branch'[n].trace = req.trace /\ req.trace \in TraceModes
    BY <1>1, <1>5, NewBranchFacts DEF WiringInv, PlaceInv
  <2>2. \A m \in Nics : branch'[m] = branch[m]
    BY <1>1, <1>5, NewBranchFacts DEF Nics
  <2>3. \A m \in Nics' : branch'[m].trace \in TraceModes
    BY <1>2, <1>5, <2>1, <2>2 DEF WiringInv, PlaceInv
  <2> QED BY <1>5, <2>3 DEF PlaceInv
<1> QED BY <1>7, <1>8, <1>9, <1>10 DEF WiringInv, GoalInv

-----------------------------------------------------------------------------
LEMMA WiringInit ==
  ASSUME Init
  PROVE  WiringInv
<1>1. Nics = {}
  BY DEF Init, Nics
<1>2. MadeInv /\ PlaceInv
  BY <1>1 DEF Init, MadeInv, PlaceInv
<1>3. LeadsTo(queue, running, Now, Now)
  BY LeadsEmpty, AfterOther DEF Init
<1>4. \A v \in Vni : Stays[v] = {}
  BY <1>1 DEF Stays, NicsOf
<1>5. \A v \in Vni : Gated(Now, v, Stays[v], Heads)
  <2>1. \A v : Gates(v, {}, Heads) = {} /\ Gate(v, {}, Heads) = {}
    BY DEF Gates, Gate, Two
  <2> QED BY <1>4, <2>1 DEF Gated
<1>6. Only(Now.l, Nics, Inners, Stays, Heads)
  BY DEF Init, Now, Only
<1>7. \A n \in Staying : Inners[n] \subseteq Now.l
  BY <1>1 DEF Staying
<1>8. Now = [l |-> Now.l, p |-> Now.p]
  BY DEF Now
<1>9. Goal(Now)
  BY <1>5, <1>6, <1>7, <1>8 DEF Goal, Wired
<1> QED BY <1>2, <1>3, <1>9 DEF WiringInv, GoalInv

LEMMA WiringStep ==
  ASSUME NoTraceUpdates, GraphInv, SwitchInv, WiringInv, [Next]_vars
  PROVE  WiringInv'
<1>1. CASE ApiRequest
  <2>1. SameTraceFiles
    BY DEF NoTraceUpdates, SameTraceFiles
  <2>2. PICK n \in NicId : RequestStep(n)
    BY <1>1, <2>1, RequestCases
  <2> QED BY <2>2, NicDelWiring, NicAddStartWiring, SgRequestWiring, UpdateWiring
             DEF RequestStep
<1>2. CASE ApiStep
  BY <1>2, NicDelSwitchWiring, NicDelDoneWiring, NicAddDoneWiring, NicAddFailsWiring
     DEF ApiStep
<1>3. CASE PollerUpdateBegin \/ PollerUpdateEnd
  BY <1>3, PhaseWiring DEF PollerUpdateBegin, PollerUpdateEnd, api
<1>4. CASE PollerPop
  BY <1>4, PopWiring
<1>5. CASE PollerExecute
  BY <1>5, ExecuteWiring
<1>6. CASE UNCHANGED vars
  BY <1>6, PhaseWiring DEF vars
<1> QED BY <1>1, <1>2, <1>3, <1>4, <1>5, <1>6 DEF Next, PollerStep, PollerExecute

(* While no client changes a trace, the calls in Graph::queue_ lead, from  *)
(* the links and ports there are, to the wiring of the NICs that are not   *)
(* being deleted: no other link is left and, when the vtep and the         *)
(* switches have sides enough, none is missing.                            *)
THEOREM WiringInvariant ==
  ASSUME NoTraceUpdates PROVE Spec => [](GraphInv /\ BrickInv /\ WiringInv)
<1>1. SameTraceFiles
  BY DEF NoTraceUpdates, SameTraceFiles
<1>2. Init => WiringInv
  BY WiringInit
<1>3. GraphInv /\ BrickInv /\ WiringInv /\ [Next]_vars => WiringInv'
  BY WiringStep DEF BrickInv
<1>4. Spec => [](GraphInv /\ BrickInv)
  BY <1>1, BrickInvariant
<1> QED BY <1>2, <1>3, <1>4, PTL DEF Spec

LEMMA DestroyStep ==
  ASSUME NoTraceUpdates, GraphInv, BrickInv, WiringInv, [Next]_vars, running' = running,
         NEW l \in links
  PROVE  (l[1] \in live') <=> (l[2] \in live')
<1>1. l[1] \in live /\ l[2] \in live
  BY DEF BrickInv, CallsInv
<1>2. CASE live \subseteq live'
  BY <1>1, <1>2
<1>3. CASE ApiRequest
  <2>1. SameTraceFiles
    BY DEF NoTraceUpdates, SameTraceFiles
  <2>2. PICK n \in NicId : RequestStep(n)
    BY <1>3, <2>1, RequestCases
  <2>3. CASE DelStep(n)
    BY <1>2, <2>3 DEF DelStep, NicDel
  <2>4. CASE AddStep(n)
    BY <1>2, <2>4 DEF AddStep
  <2>5. CASE SgRequest(n)
    BY <1>2, <2>5 DEF SgRequest
  <2>6. CASE TraceStep(n)
    <3>1. \E fw, ok, s : ActionNicUpdate(n, None, FALSE, fw, ok, s)
      BY <2>6 DEF TraceStep, NoTraceUpdates
    <3>2. live' = live
      BY <3>1, PlainUpdate DEF GraphInv, WiringInv
    <3> QED BY <1>2, <3>2
  <2> QED BY <2>2, <2>3, <2>4, <2>5, <2>6 DEF RequestStep
<1>4. CASE NicDelSwitch
  <2>1. live' = live \ {Sw(branch[req.nic].vni)}
    BY <1>4 DEF NicDelSwitch
  <2>2. Sw(branch[req.nic].vni) \notin {l[1], l[2]}
    BY <1>4, NicDelSwitchCuts DEF BrickInv
  <2> QED BY <1>1, <2>1, <2>2
<1>5. CASE NicDelDone
  <2>1. CASE l \in links'
    BY <1>1, <1>5, <2>1, NicDelDoneCuts
  <2>2. CASE l \notin links'
    <3>1. /\ l[1] \in Bricks(req.nic) \ {Fw(req.nic)}
          /\ l[2] \in Bricks(req.nic) \ {Fw(req.nic)}
      BY <1>5, <2>2, NicDelDoneCuts
    <3>2. \A b \in Bricks(req.nic) \ {Fw(req.nic)} : b \notin live'
      BY <1>5 DEF NicDelDone
    <3> QED BY <3>1, <3>2
  <2> QED BY <2>1, <2>2
<1>6. CASE NicAddDone
  <2>1. live \subseteq live'
    BY <1>6, NicAddEffects
  <2> QED BY <1>2, <2>1
<1>7. CASE NicAddFails
  <2>1. PICK n : n = req.nic
    OBVIOUS
  <2>2. n \in NicId \ Nics /\ live \ {Fw(n)} \subseteq live'
    BY <1>7, <2>1 DEF NicAddFails, GraphInv, ReqInv
  <2>3. l[1] # Fw(n) /\ l[2] # Fw(n)
    BY <2>2, NoLinksYet DEF Bricks
  <2> QED BY <1>1, <2>2, <2>3
<1>8. CASE PollerUpdateBegin \/ PollerUpdateEnd \/ PollerPop \/ UNCHANGED vars
  BY <1>2, <1>8 DEF PollerUpdateBegin, PollerUpdateEnd, PollerPop, vars
<1>9. CASE PollerExecute
  <2>1. running' = Idle /\ running.action # "NONE"
    BY <1>9, ExecuteCases, ExecutedFrame DEF GraphInv
  <2>2. Idle.action = "NONE"
    BY CallFields
  <2> QED BY <2>1, <2>2
<1> QED
  BY <1>3, <1>4, <1>5, <1>6, <1>7, <1>8, <1>9
     DEF Next, ApiStep, PollerStep, PollerExecute

(* While no client changes a trace, a brick that the API thread destroys   *)
(* (when a GraphNic or a GraphVni drops its last reference) is linked to   *)
(* no brick that stays: NicDel had the poller cut the branch before.       *)
THEOREM GraphDestroyedIsolated ==
  ASSUME NoTraceUpdates PROVE Spec => DestroyedBricksIsolated
<1>1. Spec => [](GraphInv /\ BrickInv /\ WiringInv)
  BY WiringInvariant
<1>2. ASSUME GraphInv, BrickInv, WiringInv, [Next]_vars
      PROVE  [running' = running =>
                \A l \in links : (l[1] \in live') <=> (l[2] \in live')]_vars
  BY <1>2, DestroyStep
<1> QED BY <1>1, <1>2, PTL DEF Spec, DestroyedBricksIsolated

(* The way through a branch.                                               *)
LEMMA BranchLinked ==
  ASSUME NEW n, NEW b, NEW t, InnerOf(n, b, t) \subseteq links,
         ConfigTrace /\ ~ b => t
  PROVE  LinkedOnTo(HeadOf(n, b, t), n)
<1>1. \A x, y : <<x, y>> \in links => <<x, y>>[1] = x /\ <<x, y>>[2] = y
  OBVIOUS
<1>2. CASE b /\ t
  <2>1. <<(<<"sniffer", n>>), Vhost(n)>> \in links /\ HeadOf(n, b, t) = <<"sniffer", n>>
    BY <1>2 DEF InnerOf, HeadOf
  <2> QED BY <2>1 DEF LinkedOnTo
<1>3. CASE b /\ ~ t
  <2>1. HeadOf(n, b, t) = Vhost(n)
    BY <1>3 DEF HeadOf
  <2> QED BY <2>1 DEF LinkedOnTo
<1>4. CASE ~ b /\ ~ ConfigTrace
  <2>1. /\ <<Fw(n), As(n)>> \in links /\ <<As(n), Vhost(n)>> \in links
        /\ HeadOf(n, b, t) = Fw(n)
    BY <1>4 DEF InnerOf, HeadOf
  <2> QED BY <2>1 DEF LinkedOnTo
<1>5. CASE ~ b /\ ConfigTrace
  <2>1. PICK s : s = <<"sniffer", n>>
    OBVIOUS
  <2>2. /\ <<Fw(n), As(n)>> \in links /\ <<As(n), s>> \in links /\ <<s, Vhost(n)>> \in links
        /\ HeadOf(n, b, t) = Fw(n)
    BY <1>5, <2>1 DEF InnerOf, HeadOf
  <2> QED BY <2>2 DEF LinkedOnTo
<1> QED BY <1>2, <1>3, <1>4, <1>5

(* While no client changes a trace and every NIC has the trace the command *)
(* line asks for, every NIC is connected once nothing is in progress: the  *)
(* vtep sends the packets of its VNI to the branch, through the switch     *)
(* exactly when the VNI has several NICs, and the branch is linked up to   *)
(* its vhost.  The vtep takes VtepMax VNIs and a switch SwitchMax NICs.    *)
THEOREM GraphNicsConnected ==
  ASSUME NoTraceUpdates, Enough, ConfigTrace => TraceModes \subseteq {TRUE}
  PROVE  Spec => []NicsConnected
<1>1. ASSUME GraphInv, WiringInv PROVE NicsConnected
  <2> SUFFICES ASSUME Quiescent, NEW n \in Nics, NEW v, v = branch[n].vni,
                      NEW first, first = FirstBrick(n)
               PROVE  /\ LinkedOnTo(first, n)
                      /\ IF NicsOf(v) = {n}
                         THEN <<Vtep, first>> \in links /\ <<v, first>> \in ports
                         ELSE /\ <<Vtep, Sw(v)>> \in links /\ <<v, Sw(v)>> \in ports
                              /\ <<Sw(v), first>> \in links
    BY DEF NicsConnected
  <2>1. pc = "idle" /\ queue = <<>> /\ running = Idle
    BY DEF Quiescent
  <2>2. PICK end : LeadsTo(queue, running, Now, end) /\ Goal(end)
    BY <1>1 DEF WiringInv, GoalInv
  <2>3. end = Now
    BY <2>1, <2>2, LeadsEmpty, AfterOther
  <2>4. n \in NicId /\ branch[n] \in Branch /\ v \in Vni /\ n \in Staying
    BY <1>1, <2>1 DEF Nics, GraphInv, TypeOK, Branch, Staying, Deleting
  <2>5. Stays[v] = NicsOf(v) /\ n \in Stays[v]
    BY <2>1, <2>4 DEF Stays, Deleting, NicsOf
  <2>6. Inners[n] \subseteq links /\ Gated(Now, v, Stays[v], Heads)
    BY <2>2, <2>3, <2>4 DEF Goal, Wired, Now
  <2>7. /\ branch[n].head = HeadOf(n, branch[n].bypass, branch[n].trace)
        /\ branch[n].trace \in TraceModes
        /\ branch[n].bypass \in BOOLEAN /\ branch[n].trace \in BOOLEAN
    BY <1>1, <2>4 DEF WiringInv, MadeInv, PlaceInv, Branch
  <2>8. first = Heads[n] /\ first = HeadOf(n, branch[n].bypass, branch[n].trace)
    BY <2>4, <2>7 DEF FirstBrick, Heads, HeadOf
  <2>9. LinkedOnTo(first, n)
    <3>1. InnerOf(n, branch[n].bypass, branch[n].trace) \subseteq links
      BY <2>4, <2>6 DEF Inners
    <3>2. ConfigTrace /\ ~ branch[n].bypass => branch[n].trace
      BY <2>7
    <3> QED BY <2>8, <3>1, <3>2, BranchLinked
  <2>10. CASE NicsOf(v) = {n}
    <3>1. ~ Two(Stays[v])
      BY <2>5, <2>10 DEF Two
    <3>2. <<Vtep, Heads[n]>> \in Gates(v, Stays[v], Heads) /\ Heads[n] \in Gate(v, Stays[v], Heads)
      BY <2>5, <3>1 DEF Gates, Gate
    <3> QED BY <2>6, <2>8, <2>9, <2>10, <3>2 DEF Gated, Now
  <2>11. CASE NicsOf(v) # {n}
    <3>1. Two(Stays[v])
      BY <2>5, <2>11 DEF Two
    <3>2. /\ <<Vtep, Sw(v)>> \in Gates(v, Stays[v], Heads)
          /\ <<Sw(v), Heads[n]>> \in Gates(v, Stays[v], Heads)
          /\ Sw(v) \in Gate(v, Stays[v], Heads)
      BY <2>5, <3>1 DEF Gates, Gate
    <3> QED BY <2>6, <2>8, <2>9, <2>11, <3>2 DEF Gated, Now
  <2> QED BY <2>10, <2>11
<1>2. Spec => [](GraphInv /\ BrickInv /\ WiringInv)
  BY WiringInvariant
<1> QED BY <1>1, <1>2, PTL
=============================================================================
