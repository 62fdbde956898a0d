----------------------- MODULE FirewallControlProofs -----------------------
(***************************************************************************)
(* Proofs about Firewall, for any sets of NICs, groups, rules, addresses:  *)
(* the parts of its inductive invariant that do not look at the rules, i.e. *)
(* the types, the handler in progress, the calls in the queue and which    *)
(* firewalls exist.                                                        *)
(***************************************************************************)
EXTENDS Firewall, SequenceTheorems, TLAPS

USE DEF WaitEmptyQueue

-----------------------------------------------------------------------------
(* Types.                                                                  *)

(* Calls made with Call and Nothing are calls of the queue.                *)
LEMMA CallType ==
  /\ Nothing \in Rpc
  /\ \A n \in NicId :
       /\ Call("FW_NEW", n) \in Rpc
       /\ Call("FW_RELOAD", n) \in Rpc
       /\ Call("BRICK_DESTROY", n) \in Rpc
BY ConstantsAssumption DEF Call, Nothing, Rpc

(* AddRequest of a NIC and its parameters is a Request.                    *)
LEMMA RequestType ==
  /\ NoRequest \in Request
  /\ \A r \in Rule \cup {NoRule} :
       [NoRequest EXCEPT !.rule = r] \in Request
  /\ \A n \in NicId, c \in NicConf :
       AddRequest(n, c) \in Request
BY DEF Request, NoRequest, AddRequest, EmptyConf, NicConf

(* What FwBuildRule, FwBuildSg and FwUpdate build are sets of atoms.       *)
LEMMA BuildType ==
  ASSUME TypeOK
  PROVE  /\ \A r \in Rule : FwBuildRule(r) \subseteq Atom
         /\ \A n \in NicId : InRules(n) \subseteq Atom
<1>1. \A r \in Rule : FwBuildRule(r) \subseteq Atom
  BY ConstantsAssumption DEF TypeOK, FwBuildRule, Sources, Atom
<1>2. \A n \in NicId : InRules(n) \subseteq Atom
  BY <1>1 DEF TypeOK, InRules, FwBuildSg, NicConf
<1> QED BY <1>1, <1>2

(* A handler of groups only visits pairs of a group and a NIC.             *)
LEMMA VisitType ==
  ASSUME TypeOK, NEW s \in SgId, NEW gs \in SUBSET SgId, NEW rs
  PROVE  /\ SgUpdate(s) \subseteq (SgId \cup {NoSg}) \X NicId
         /\ SgUpdateRuleMembers(s, gs, rs) \subseteq (SgId \cup {NoSg}) \X NicId
BY DEF TypeOK, SgUpdate, SgUpdateRuleMembers

(* FwNew keeps the types of what it changes.                               *)
LEMMA FwNewType ==
  ASSUME TypeOK, NEW n \in NicId, NEW c \in NicConf, FwNew(n, c)
  PROVE  queue' \in Seq(Rpc) /\ pc' \in Pcs /\ cur' = n /\ req' \in Request
<1>1. queue' \in Seq(Rpc)
  BY CallType DEF FwNew, Push, TypeOK
<1>2. req' \in Request
  BY RequestType DEF FwNew
<1> QED BY <1>1, <1>2 DEF FwNew, Pcs

(* The types hold at the start.                                            *)
LEMMA TypeInit == Init => TypeOK
BY ConstantsAssumption
DEF Init, TypeOK, EmptyConf, NoArp, NicConf, Idle, Pcs, Request, NoRequest

(* Requests on groups keep the types.                                      *)
LEMMA TypeSg == TypeOK /\ SgRequest => TypeOK'
<1> SUFFICES ASSUME TypeOK, NEW s \in SgId,
                    \/ \E rs \in SUBSET Rule, ms \in SUBSET Ip :
                         ActionSgAdd(s, rs, ms)
                    \/ ActionSgDel(s)
                    \/ \E r \in Rule : ActionSgRuleAdd(s, r) \/ ActionSgRuleDel(s, r)
                    \/ \E ip \in Ip : ActionSgMemberAdd(s, ip) \/ ActionSgMemberDel(s, ip)
             PROVE  TypeOK'
  BY DEF SgRequest
<1>1. ASSUME NEW visits \in SUBSET ((SgId \cup {NoSg}) \X NicId),
             NEW r \in Rule \cup {NoRule}, Visit(visits, r),
             groups' \subseteq SgId, rules' \in [SgId -> SUBSET Rule],
             members' \in [SgId -> SUBSET Ip], UNCHANGED <<nics, conf>>
      PROVE  TypeOK'
  BY <1>1, RequestType DEF TypeOK, Visit, bricks, Pcs
<1>2. ASSUME NEW rs \in SUBSET Rule, NEW ms \in SUBSET Ip, ActionSgAdd(s, rs, ms)
      PROVE  TypeOK'
  BY <1>1, <1>2, VisitType DEF ActionSgAdd, TypeOK
<1>3. CASE ActionSgDel(s)
  BY <1>1, <1>3, VisitType DEF ActionSgDel, TypeOK
<1>4. ASSUME NEW r \in Rule, ActionSgRuleAdd(s, r) PROVE TypeOK'
  BY <1>1, <1>4, VisitType DEF ActionSgRuleAdd, TypeOK
<1>5. ASSUME NEW r \in Rule, ActionSgRuleDel(s, r) PROVE TypeOK'
  BY <1>1, <1>5, VisitType DEF ActionSgRuleDel, TypeOK
<1>6. ASSUME NEW ip \in Ip, ActionSgMemberAdd(s, ip) PROVE TypeOK'
  BY <1>1, <1>6, VisitType DEF ActionSgMemberAdd, TypeOK
<1>7. ASSUME NEW ip \in Ip, ActionSgMemberDel(s, ip) PROVE TypeOK'
  BY <1>1, <1>7, VisitType DEF ActionSgMemberDel, TypeOK
<1> QED BY <1>2, <1>3, <1>4, <1>5, <1>6, <1>7

(* Requests on NICs keep the types.                                        *)
LEMMA TypeNic == TypeOK /\ HandlerInv /\ NicRequest => TypeOK'
<1> SUFFICES ASSUME TypeOK, HandlerInv, NEW n \in NicId,
                    \/ ActionNicDel(n)
                    \/ \E c \in RequestConf :
                         ActionNicAdd(n, c) \/ ActionNicUpdate(n, c)
             PROVE  TypeOK'
  BY DEF NicRequest
<1>0. RequestConf \subseteq NicConf
  BY ConstantsAssumption DEF RequestConf, NicConf
<1>1. ASSUME NEW next \in Request, NicDel(n, next) PROVE TypeOK'
  <2>1. queue' \in Seq(Rpc)
    BY <1>1, CallType DEF NicDel, Push, TypeOK
  <2> QED BY <1>1, <2>1 DEF NicDel, TypeOK, model, bricks, Pcs
<1>2. CASE ActionNicDel(n)
  BY <1>1, <1>2, RequestType DEF ActionNicDel
<1>3. ASSUME NEW c \in NicConf, ActionNicAdd(n, c) PROVE TypeOK'
  <2>1. CASE NicDel(n, AddRequest(n, c))
    BY <1>1, <2>1, RequestType
  <2>2. CASE FwNew(n, c) /\ UNCHANGED <<model, branches, live, bricks, arp,
                                        running, todo, failed>>
    BY <2>2, FwNewType DEF TypeOK, model, bricks
  <2> QED BY <1>3, <2>1, <2>2 DEF ActionNicAdd
<1>4. ASSUME NEW c \in NicConf, ActionNicUpdate(n, c) PROVE TypeOK'
  <2>1. arp' \in [NicId -> [on : BOOLEAN, ips : SUBSET Ip]]
    BY <1>4 DEF ActionNicUpdate, TypeOK, NicConf
  <2>2. conf' \in [NicId -> NicConf]
    BY <1>4 DEF ActionNicUpdate, TypeOK
  <2>3. pc' \in Pcs /\ todo' \subseteq (SgId \cup {NoSg}) \X NicId
    BY <1>4 DEF ActionNicUpdate, TypeOK, Pcs
  <2> QED BY <1>4, <2>1, <2>2, <2>3 DEF ActionNicUpdate, TypeOK, bricks
<1> QED BY <1>0, <1>2, <1>3, <1>4

(* The steps of the API thread keep the types.                             *)
LEMMA TypeApi == TypeOK /\ HandlerInv /\ ApiStep => TypeOK'
<1> SUFFICES ASSUME TypeOK, HandlerInv, ApiStep PROVE TypeOK'
  OBVIOUS
<1>0. pc \notin {"idle", "visit"} => cur \in NicId
  BY DEF TypeOK, HandlerInv
<1>1. CASE NicDelDone
  <2>1. conf' \in [NicId -> NicConf] /\ arp' \in [NicId -> [on : BOOLEAN, ips : SUBSET Ip]]
    BY <1>1 DEF NicDelDone, TypeOK, EmptyConf, NicConf, NoArp
  <2>2. req.conf \in NicConf
    BY DEF TypeOK, Request
  <2>3. /\ queue' \in Seq(Rpc) /\ pc' \in Pcs
        /\ cur' \in NicId \cup {NoNic} /\ req' \in Request
    BY <1>0, <1>1, <2>2, FwNewType DEF NicDelDone, TypeOK, Pcs
  <2> QED BY <1>1, <2>1, <2>3 DEF NicDelDone, TypeOK, bricks
<1>2. CASE NicNewDone
  <2>1. req.conf \in NicConf
    BY DEF TypeOK, Request
  <2>2. conf' \in [NicId -> NicConf]
    BY <1>2, <2>1 DEF NicNewDone, TypeOK
  <2>3. arp' \in [NicId -> [on : BOOLEAN, ips : SUBSET Ip]]
    BY <1>2, <2>1 DEF NicNewDone, TypeOK, NicConf
  <2>4. todo' \subseteq (SgId \cup {NoSg}) \X NicId
    BY <1>0, <1>2 DEF NicNewDone
  <2> QED BY <1>0, <1>2, <2>2, <2>3, <2>4 DEF NicNewDone, TypeOK, bricks, Pcs
<1>3. CASE NicNewFails
  BY <1>3, RequestType DEF NicNewFails, TypeOK, model, bricks, Pcs
<1>4. ASSUME NEW v \in todo, VisitSkip(v) PROVE TypeOK'
  BY <1>4 DEF VisitSkip, TypeOK, model, bricks
<1>5. ASSUME NEW v \in todo, FwUpdateFlush(v) PROVE TypeOK'
  <2>1. v[2] \in NicId
    BY DEF TypeOK
  <2> QED BY <1>5, <2>1 DEF FwUpdateFlush, TypeOK, model, Pcs
<1>6. ASSUME NEW v \in todo, FwAddRuleFlush(v) PROVE TypeOK'
  <2>1. v[2] \in NicId
    BY DEF TypeOK
  <2> QED BY <1>6, <2>1 DEF FwAddRuleFlush, TypeOK, model, Pcs
<1>7. CASE FwUpdateIn
  BY <1>0, <1>7, BuildType DEF FwUpdateIn, TypeOK, model, Pcs
<1>8. CASE FwUpdateOut
  <2>1. OutRules(cur) \subseteq Atom \cup Ip \cup {Dhcp}
    BY <1>0, <1>8 DEF OutRules, FwUpdateOut, TypeOK, NicConf
  <2> QED BY <1>8, <2>1 DEF FwUpdateOut, TypeOK, model, Pcs
<1>9. CASE FwAddRuleAdd
  <2>1. req.rule \in Rule
    BY <1>9 DEF FwAddRuleAdd, HandlerInv, TypeOK, Request
  <2>2. FwBuildRule(req.rule) \subseteq Atom
    BY <2>1, BuildType
  <2> QED BY <1>9, <2>2 DEF FwAddRuleAdd, TypeOK, model, Pcs
<1>10. CASE FwRuleRefused
  BY <1>0, <1>10 DEF FwRuleRefused, TypeOK, model, bricks, Pcs
<1>11. CASE FwReload
  BY <1>0, <1>11, CallType DEF FwReload, Push, TypeOK, model, bricks, Pcs
<1>12. CASE VisitDone
  BY <1>12, RequestType DEF VisitDone, TypeOK, bricks, Pcs, Request
<1> QED BY <1>1, <1>2, <1>3, <1>4, <1>5, <1>6, <1>7, <1>8, <1>9, <1>10,
           <1>11, <1>12 DEF ApiStep

(* The steps of the poller keep the types.                                 *)
LEMMA TypePoller == TypeOK /\ PollerStep => TypeOK'
<1> SUFFICES ASSUME TypeOK, PollerStep PROVE TypeOK'
  OBVIOUS
<1>0. running.action \in {"FW_NEW", "FW_RELOAD", "BRICK_DESTROY"} =>
        running.nic \in NicId
  BY DEF TypeOK, Rpc, Idle
<1>1. CASE PollerPop
  BY <1>1 DEF PollerPop, TypeOK, model, bricks
<1>2. ASSUME NEW n \in NicId, DropRules(n)
      PROVE  /\ stagedIn' \in [NicId -> SUBSET Atom]
             /\ stagedOut' \in [NicId -> SUBSET (Atom \cup Ip \cup {Dhcp})]
             /\ loadedIn' \in [NicId -> SUBSET Atom]
             /\ loadedOut' \in [NicId -> SUBSET (Atom \cup Ip \cup {Dhcp})]
             /\ defaultOut' \subseteq NicId
  BY <1>2 DEF DropRules, TypeOK
<1>3. CASE PollerFwNew
  BY <1>0, <1>2, <1>3 DEF PollerFwNew, TypeOK, model
<1>4. CASE PollerFwReload
  BY <1>0, <1>4 DEF PollerFwReload, TypeOK, model
<1>5. CASE PollerFwReloadFails
  BY <1>0, <1>5 DEF PollerFwReloadFails, TypeOK, model, bricks
<1>6. CASE PollerBrickDestroy
  BY <1>0, <1>2, <1>6 DEF PollerBrickDestroy, TypeOK, model
<1>7. CASE PollerNothing
  BY <1>7 DEF PollerNothing, TypeOK, model, bricks
<1> QED BY <1>1, <1>3, <1>4, <1>5, <1>6, <1>7 DEF PollerStep

-----------------------------------------------------------------------------
(* The handler in progress, the NICs it owns and the absent groups.        *)

ControlInv == HandlerInv /\ OwnedInv /\ AbsentGroupsEmpty

(* The fields of NoRequest and of an AddRequest.                           *)
LEMMA RequestFields ==
  /\ NoRequest.adding = NoNic /\ NoRequest.rule = NoRule
  /\ \A r : /\ [NoRequest EXCEPT !.rule = r].rule = r
            /\ [NoRequest EXCEPT !.rule = r].adding = NoNic
  /\ \A n, c : AddRequest(n, c).adding = n /\ AddRequest(n, c).rule = NoRule
BY DEF NoRequest, AddRequest

(* The control invariant holds at the start.                               *)
LEMMA ControlInit == Init => ControlInv
BY RequestFields
DEF Init, ControlInv, HandlerInv, OwnedInv, AbsentGroupsEmpty, InFirewall

(* Requests on groups keep the control invariant.                          *)
LEMMA ControlSg == TypeOK /\ ControlInv /\ SgRequest => ControlInv'
<1> SUFFICES ASSUME TypeOK, ControlInv, NEW s \in SgId,
                    \/ \E rs \in SUBSET Rule, ms \in SUBSET Ip :
                         ActionSgAdd(s, rs, ms)
                    \/ ActionSgDel(s)
                    \/ \E r \in Rule : ActionSgRuleAdd(s, r) \/ ActionSgRuleDel(s, r)
                    \/ \E ip \in Ip : ActionSgMemberAdd(s, ip) \/ ActionSgMemberDel(s, ip)
             PROVE  ControlInv'
  BY DEF SgRequest
<1>1. ASSUME NEW visits, NEW r, Visit(visits, r), Ready, UNCHANGED <<nics, conf>>
      PROVE  HandlerInv' /\ OwnedInv'
  BY <1>1, RequestFields
  DEF Visit, Ready, ControlInv, HandlerInv, OwnedInv, InFirewall, bricks
<1>2. ASSUME NEW rs \in SUBSET Rule, NEW ms \in SUBSET Ip, ActionSgAdd(s, rs, ms)
      PROVE  ControlInv'
  BY <1>1, <1>2 DEF ActionSgAdd, ControlInv, AbsentGroupsEmpty, TypeOK
<1>3. CASE ActionSgDel(s)
  BY <1>1, <1>3 DEF ActionSgDel, ControlInv, AbsentGroupsEmpty, TypeOK
<1>4. ASSUME NEW r \in Rule, ActionSgRuleAdd(s, r) PROVE ControlInv'
  BY <1>1, <1>4 DEF ActionSgRuleAdd, ControlInv, AbsentGroupsEmpty, TypeOK
<1>5. ASSUME NEW r \in Rule, ActionSgRuleDel(s, r) PROVE ControlInv'
  BY <1>1, <1>5 DEF ActionSgRuleDel, ControlInv, AbsentGroupsEmpty, TypeOK
<1>6. ASSUME NEW ip \in Ip, ActionSgMemberAdd(s, ip) PROVE ControlInv'
  BY <1>1, <1>6 DEF ActionSgMemberAdd, ControlInv, AbsentGroupsEmpty, TypeOK
<1>7. ASSUME NEW ip \in Ip, ActionSgMemberDel(s, ip) PROVE ControlInv'
  BY <1>1, <1>7 DEF ActionSgMemberDel, ControlInv, AbsentGroupsEmpty, TypeOK
<1> QED BY <1>2, <1>3, <1>4, <1>5, <1>6, <1>7

(* Requests on NICs keep the control invariant.                            *)
LEMMA ControlNic == TypeOK /\ ControlInv /\ NicRequest => ControlInv'
<1> SUFFICES ASSUME TypeOK, ControlInv, NEW n \in NicId,
                    \/ ActionNicDel(n)
                    \/ \E c \in RequestConf :
                         ActionNicAdd(n, c) \/ ActionNicUpdate(n, c)
             PROVE  ControlInv'
  BY DEF NicRequest
<1> USE DEF ControlInv, HandlerInv, OwnedInv, AbsentGroupsEmpty, InFirewall
<1>0. n # NoNic
  BY ConstantsAssumption
<1>1. ASSUME NEW next, next.rule = NoRule, Ready, NicDel(n, next)
      PROVE  ControlInv'
  BY <1>0, <1>1 DEF NicDel, Ready, model
<1>2. CASE ActionNicDel(n)
  BY <1>1, <1>2, RequestFields DEF ActionNicDel
<1>3. ASSUME NEW c, ActionNicAdd(n, c) PROVE ControlInv'
  <2>1. CASE NicDel(n, AddRequest(n, c))
    BY <1>1, <1>3, <2>1, RequestFields DEF ActionNicAdd
  <2>2. CASE /\ n \notin nics /\ FwNew(n, c)
             /\ UNCHANGED <<model, branches, live, bricks, arp, running, todo,
                            failed>>
    BY <1>0, <1>3, <2>2, RequestFields DEF ActionNicAdd, FwNew, Ready, model
  <2> QED BY <1>3, <2>1, <2>2 DEF ActionNicAdd
<1>4. ASSUME NEW c, ActionNicUpdate(n, c) PROVE ControlInv'
  BY <1>4, RequestFields DEF ActionNicUpdate, Ready
<1> QED BY <1>2, <1>3, <1>4

(* The steps of the API thread keep the control invariant.                 *)
LEMMA ControlApi == TypeOK /\ ControlInv /\ ApiStep => ControlInv'
<1> SUFFICES ASSUME TypeOK, ControlInv, ApiStep PROVE ControlInv'
  OBVIOUS
<1> USE DEF ControlInv, HandlerInv, OwnedInv, AbsentGroupsEmpty, InFirewall
<1>1. CASE NicDelDone
  <2>1. CASE req.adding = NoNic
    <3>1. req.rule = NoRule
      BY <1>1 DEF NicDelDone
    <3> QED BY <1>1, <2>1, <3>1 DEF NicDelDone
  <2>2. CASE req.adding # NoNic
    BY <1>1, <2>2, RequestFields DEF NicDelDone, FwNew
  <2> QED BY <2>1, <2>2
<1>2. CASE NicNewDone
  BY <1>2 DEF NicNewDone
<1>3. CASE NicNewFails
  BY <1>3, RequestFields DEF NicNewFails, model
<1>4. ASSUME NEW v \in todo, VisitSkip(v) PROVE ControlInv'
  BY <1>4 DEF VisitSkip, model
<1>5. ASSUME NEW v \in todo, FwUpdateFlush(v) \/ FwAddRuleFlush(v)
      PROVE  ControlInv'
  <2>1. v[2] \in NicId /\ v[2] # NoNic
    BY ConstantsAssumption DEF TypeOK
  <2> QED BY <1>5, <2>1 DEF FwUpdateFlush, FwAddRuleFlush, Skipped, model
<1>6. CASE FwUpdateIn
  BY <1>6 DEF FwUpdateIn, model
<1>7. CASE FwUpdateOut
  BY <1>7 DEF FwUpdateOut, model
<1>8. CASE FwAddRuleAdd
  BY <1>8 DEF FwAddRuleAdd, model
<1>9. CASE FwRuleRefused
  BY <1>9 DEF FwRuleRefused, model
<1>10. CASE FwReload
  BY <1>10 DEF FwReload, model
<1>11. CASE VisitDone
  BY <1>11, RequestFields DEF VisitDone
<1> QED BY <1>1, <1>2, <1>3, <1>4, <1>5, <1>6, <1>7, <1>8, <1>9, <1>10, <1>11
        DEF ApiStep

(* The steps of the poller do not touch the control invariant.             *)
LEMMA ControlPoller == ControlInv /\ PollerStep => ControlInv'
BY DEF ControlInv, HandlerInv, OwnedInv, AbsentGroupsEmpty, InFirewall,
       PollerStep, PollerPop, PollerFwNew, PollerFwReload, PollerFwReloadFails,
       PollerBrickDestroy, PollerNothing, model

-----------------------------------------------------------------------------
(* The queue.                                                              *)

(* The queue with one call more.                                           *)
LEMMA AppendOne ==
  ASSUME NEW S, NEW q \in Seq(S), NEW x \in S
  PROVE  /\ \A i \in DOMAIN (q \o <<x>>) :
              (q \o <<x>>)[i] = x \/ (i \in DOMAIN q /\ (q \o <<x>>)[i] = q[i])
         /\ \A i \in DOMAIN q : i \in DOMAIN (q \o <<x>>) /\ (q \o <<x>>)[i] = q[i]
         /\ \E i \in DOMAIN (q \o <<x>>) : (q \o <<x>>)[i] = x
<1>1. \A i \in DOMAIN (q \o <<x>>) :
        (q \o <<x>>)[i] = x \/ (i \in DOMAIN q /\ (q \o <<x>>)[i] = q[i])
  OBVIOUS
<1>2. \A i \in DOMAIN q : i \in DOMAIN (q \o <<x>>) /\ (q \o <<x>>)[i] = q[i]
  OBVIOUS
<1>3. Len(q) + 1 \in DOMAIN (q \o <<x>>) /\ (q \o <<x>>)[Len(q) + 1] = x
  OBVIOUS
<1> QED BY <1>1, <1>2, <1>3

(* The queue with two calls more.                                          *)
LEMMA AppendTwo ==
  ASSUME NEW S, NEW q \in Seq(S), NEW x \in S, NEW y \in S
  PROVE  /\ \A i \in DOMAIN (q \o <<x, y>>) :
              \/ (q \o <<x, y>>)[i] \in {x, y}
              \/ i \in DOMAIN q /\ (q \o <<x, y>>)[i] = q[i]
         /\ \A i \in DOMAIN q :
              i \in DOMAIN (q \o <<x, y>>) /\ (q \o <<x, y>>)[i] = q[i]
         /\ q \o <<x, y>> # <<>>
         /\ (q \o <<x, y>>)[Len(q \o <<x, y>>)] = y
<1>1. \A i \in DOMAIN (q \o <<x, y>>) :
        \/ (q \o <<x, y>>)[i] \in {x, y}
        \/ i \in DOMAIN q /\ (q \o <<x, y>>)[i] = q[i]
  OBVIOUS
<1>2. \A i \in DOMAIN q :
        i \in DOMAIN (q \o <<x, y>>) /\ (q \o <<x, y>>)[i] = q[i]
  OBVIOUS
<1>3. q \o <<x, y>> # <<>> /\ (q \o <<x, y>>)[Len(q \o <<x, y>>)] = y
  OBVIOUS
<1> QED BY <1>1, <1>2, <1>3

(* The queue after a call was popped.                                      *)
LEMMA PopFacts ==
  ASSUME NEW S, NEW q \in Seq(S), q # <<>>
  PROVE  /\ \E i \in DOMAIN q : Head(q) = q[i]
         /\ \A i \in DOMAIN Tail(q) : \E j \in DOMAIN q : Tail(q)[i] = q[j]
         /\ \A j \in DOMAIN q :
              q[j] = Head(q) \/ \E i \in DOMAIN Tail(q) : Tail(q)[i] = q[j]
         /\ IF Tail(q) = <<>> THEN Head(q) = q[Len(q)]
                              ELSE Tail(q)[Len(Tail(q))] = q[Len(q)]
<1>1. 1 \in DOMAIN q /\ Head(q) = q[1]
  OBVIOUS
<1>2. \A i \in DOMAIN Tail(q) : i + 1 \in DOMAIN q /\ Tail(q)[i] = q[i + 1]
  OBVIOUS
<1>3. \A j \in DOMAIN q :
        j = 1 \/ (j - 1 \in DOMAIN Tail(q) /\ Tail(q)[j - 1] = q[j])
  OBVIOUS
<1>4. IF Tail(q) = <<>> THEN Head(q) = q[Len(q)]
                        ELSE Tail(q)[Len(Tail(q))] = q[Len(q)]
  <2>1. Tail(q) \in Seq(S) /\ Len(Tail(q)) = Len(q) - 1
    OBVIOUS
  <2>2. CASE Tail(q) = <<>>
    <3>0. Len(Tail(q)) = 0
      BY <2>1, <2>2, EmptySeq
    <3>1. Len(q) = 1
      <4>1. Len(q) \in Nat /\ Len(q) - 1 = 0
        BY <2>1, <3>0, LenProperties
      <4> QED BY <4>1
    <3> QED BY <1>1, <2>2, <3>1
  <2>3. CASE Tail(q) # <<>>
    <3>1. Len(Tail(q)) \in DOMAIN Tail(q)
      BY <2>1, <2>3
    <3>2. Tail(q)[Len(Tail(q))] = q[Len(Tail(q)) + 1]
      BY <1>2, <3>1
    <3>3. Len(Tail(q)) + 1 = Len(q)
      BY <2>1
    <3> QED BY <2>3, <3>2, <3>3
  <2> QED BY <2>2, <2>3
<1> QED BY <1>1, <1>2, <1>3, <1>4

(* The barrier invariant holds at the start.                               *)
LEMMA BarrierInit == Init => BarrierInv
BY DEF Init, BarrierInv, Idle

(* Outside NicAdd and NicDel the queue only holds reloads.                 *)
LEMMA BarrierFrame ==
  ASSUME BarrierInv, queue' = queue, running' = running,
         pc \notin {"nic_del", "nic_new"}, pc' \notin {"nic_del", "nic_new"}
  PROVE  BarrierInv'
BY DEF BarrierInv

(* Requests on NICs keep the barrier invariant.                            *)
LEMMA BarrierNic == TypeOK /\ BarrierInv /\ NicRequest => BarrierInv'
<1> SUFFICES ASSUME TypeOK, BarrierInv, NEW n \in NicId,
                    \/ ActionNicDel(n)
                    \/ \E c \in RequestConf :
                         ActionNicAdd(n, c) \/ ActionNicUpdate(n, c)
             PROVE  BarrierInv'
  BY DEF NicRequest
<1>1. ASSUME NEW next, pc = "idle", NicDel(n, next) PROVE BarrierInv'
  BY <1>1, CallType, AppendTwo
  DEF NicDel, Push, TypeOK, BarrierInv, Call, Nothing
<1>2. ASSUME NEW c, pc = "idle", FwNew(n, c), running' = running
      PROVE  BarrierInv'
  BY <1>2, CallType, AppendTwo
  DEF FwNew, Push, TypeOK, BarrierInv, Call, Nothing
<1>3. CASE ActionNicDel(n)
  BY <1>1, <1>3 DEF ActionNicDel, Ready
<1>4. ASSUME NEW c, ActionNicAdd(n, c) PROVE BarrierInv'
  BY <1>1, <1>2, <1>4 DEF ActionNicAdd, Ready
<1>5. ASSUME NEW c, ActionNicUpdate(n, c) PROVE BarrierInv'
  BY <1>5, BarrierFrame DEF ActionNicUpdate, Ready
<1> QED BY <1>3, <1>4, <1>5

(* The steps of the API thread keep the barrier invariant.                 *)
LEMMA BarrierApi ==
  TypeOK /\ HandlerInv /\ BarrierInv /\ ApiStep => BarrierInv'
<1> SUFFICES ASSUME TypeOK, HandlerInv, BarrierInv, ApiStep PROVE BarrierInv'
  OBVIOUS
<1>1. CASE NicDelDone
  <2>1. running \in {Idle, Nothing} /\ running' = running
    BY <1>1 DEF NicDelDone, BarrierInv
  <2>2. CASE req.adding = NoNic
    BY <1>1, <2>1, <2>2 DEF NicDelDone, BarrierInv, Idle, Nothing
  <2>3. CASE req.adding # NoNic
    <3>1. cur \in NicId
      BY <1>1 DEF NicDelDone, TypeOK, HandlerInv
    <3>2. /\ queue' = <<>> \o <<Call("FW_NEW", cur), Nothing>>
          /\ pc' = "nic_new" /\ cur' = cur
      BY <1>1, <2>3 DEF NicDelDone, FwNew, Push
    <3>3. /\ \A i \in DOMAIN queue' : queue'[i] \in {Call("FW_NEW", cur), Nothing}
          /\ queue' # <<>> /\ queue'[Len(queue')] = Nothing
      BY <3>1, <3>2, CallType, AppendTwo
    <3> QED BY <2>1, <3>2, <3>3 DEF BarrierInv, Call, Idle, Nothing
  <2> QED BY <2>2, <2>3
<1>2. CASE NicNewDone \/ NicNewFails
  <2>1. running \in {Idle, Nothing} /\ running' = running
    BY <1>2 DEF NicNewDone, NicNewFails, BarrierInv
  <2> QED BY <1>2, <2>1 DEF NicNewDone, NicNewFails, BarrierInv, Idle, Nothing
<1>3. CASE FwReload
  <2>1. cur \in NicId
    BY <1>3 DEF FwReload, TypeOK, HandlerInv
  <2> QED BY <1>3, <2>1, CallType, AppendOne
          DEF FwReload, Push, TypeOK, BarrierInv, Call
<1>4. ASSUME NEW v \in todo, VisitSkip(v) \/ FwUpdateFlush(v) \/ FwAddRuleFlush(v)
      PROVE  BarrierInv'
  BY <1>4, BarrierFrame DEF VisitSkip, FwUpdateFlush, FwAddRuleFlush
<1>5. CASE FwUpdateIn \/ FwUpdateOut \/ FwAddRuleAdd \/ FwRuleRefused \/ VisitDone
  BY <1>5, BarrierFrame
  DEF FwUpdateIn, FwUpdateOut, FwAddRuleAdd, FwRuleRefused, VisitDone
<1> QED BY <1>1, <1>2, <1>3, <1>4, <1>5 DEF ApiStep

(* The steps of the poller keep the barrier invariant.                     *)
LEMMA BarrierPoller == TypeOK /\ BarrierInv /\ PollerStep => BarrierInv'
<1> SUFFICES ASSUME TypeOK, BarrierInv, PollerStep PROVE BarrierInv'
  OBVIOUS
<1>1. CASE PollerPop
  <2>1. /\ \E i \in DOMAIN queue : running' = queue[i]
        /\ \A i \in DOMAIN queue' : \E j \in DOMAIN queue : queue'[i] = queue[j]
        /\ IF queue' = <<>> THEN running' = queue[Len(queue)]
                            ELSE queue'[Len(queue')] = queue[Len(queue)]
    BY <1>1, PopFacts DEF PollerPop, TypeOK
  <2> QED BY <1>1, <2>1 DEF PollerPop, BarrierInv
<1>2. CASE running' = Idle /\ UNCHANGED <<queue, pc, cur>>
  BY <1>2 DEF BarrierInv, Idle
<1> QED BY <1>1, <1>2
        DEF PollerStep, PollerFwNew, PollerFwReload, PollerFwReloadFails,
            PollerBrickDestroy, PollerNothing

-----------------------------------------------------------------------------
(* Which firewalls exist.                                                  *)

(* The places of two calls appended to the queue.                          *)
LEMMA AppendTwoPlaces ==
  ASSUME NEW S, NEW q \in Seq(S), NEW x \in S, NEW y \in S
  PROVE  /\ Len(q \o <<x, y>>) = Len(q) + 2
         /\ \A i \in DOMAIN (q \o <<x, y>>) :
              \/ i \in DOMAIN q /\ (q \o <<x, y>>)[i] = q[i]
              \/ i = Len(q) + 1 /\ (q \o <<x, y>>)[i] = x
              \/ i = Len(q) + 2 /\ (q \o <<x, y>>)[i] = y
         /\ Len(q) + 1 \in DOMAIN (q \o <<x, y>>)
         /\ (q \o <<x, y>>)[Len(q) + 1] = x
OBVIOUS

(* The places of the calls left in the queue after a pop.                  *)
LEMMA PopPlaces ==
  ASSUME NEW S, NEW q \in Seq(S), q # <<>>
  PROVE  /\ Len(Tail(q)) = Len(q) - 1 /\ Len(q) \in Nat
         /\ 1 \in DOMAIN q /\ Head(q) = q[1]
         /\ \A i \in DOMAIN Tail(q) : i + 1 \in DOMAIN q /\ Tail(q)[i] = q[i + 1]
         /\ \A j \in DOMAIN q :
              j = 1 \/ (j - 1 \in DOMAIN Tail(q) /\ Tail(q)[j - 1] = q[j])
OBVIOUS

(* There is no firewall at the start.                                      *)
LEMMA LiveInit == Init => LiveInv
BY DEF Init, LiveInv, ReloadPending, Idle, Call

(* Steps that leave the queue and the firewalls alone.                     *)
LEMMA LiveFrame ==
  ASSUME LiveInv, UNCHANGED <<queue, running, live, branches>>,
         pc \notin {"nic_del", "nic_new"}, pc' \notin {"nic_del", "nic_new"}
  PROVE  LiveInv'
BY DEF LiveInv, ReloadPending

(* Requests on NICs keep track of the firewalls: NicDel pushes the only    *)
(* BRICK_DESTROY right before its NOTHING.                                 *)
LEMMA LiveNic ==
  TypeOK /\ ControlInv /\ BarrierInv /\ LiveInv /\ NicRequest => LiveInv'
<1> SUFFICES ASSUME TypeOK, ControlInv, BarrierInv, LiveInv, NEW n \in NicId,
                    \/ ActionNicDel(n)
                    \/ \E c \in RequestConf :
                         ActionNicAdd(n, c) \/ ActionNicUpdate(n, c)
             PROVE  LiveInv'
  BY DEF NicRequest
<1>0. pc = "idle" /\ branches = nics /\ live = branches
  BY DEF ActionNicDel, ActionNicAdd, ActionNicUpdate, Ready, LiveInv,
         ControlInv, OwnedInv
<1>1. /\ running.action # "BRICK_DESTROY"
      /\ \A i \in DOMAIN queue : queue[i].action # "BRICK_DESTROY"
  BY <1>0 DEF BarrierInv
<1>2. ASSUME NEW x \in Rpc, x.action # "FW_RELOAD",
             queue' = queue \o <<x, Nothing>>, running' = running, live' = live
      PROVE  /\ \A m \in NicId : ReloadPending(m)' => m \in live'
             /\ \A i \in DOMAIN queue' :
                  queue'[i].action = "BRICK_DESTROY" =>
                    i = Len(queue') - 1 /\ queue'[i] = x
             /\ \E i \in DOMAIN queue' : queue'[i] = x
  <2>0. queue \in Seq(Rpc) /\ Nothing \in Rpc
    BY CallType DEF TypeOK
  <2>1. /\ Len(queue') = Len(queue) + 2 /\ Len(queue) \in Nat
        /\ \A i \in DOMAIN queue' :
             \/ i \in DOMAIN queue /\ queue'[i] = queue[i]
             \/ i = Len(queue) + 1 /\ queue'[i] = x
             \/ i = Len(queue) + 2 /\ queue'[i] = Nothing
        /\ Len(queue) + 1 \in DOMAIN queue' /\ queue'[Len(queue) + 1] = x
    BY <1>2, <2>0, AppendTwoPlaces, LenProperties
  <2>2. \A m \in NicId : ReloadPending(m)' => ReloadPending(m)
    BY <1>2, <2>1 DEF ReloadPending, Call, Nothing
  <2>3. \A i \in DOMAIN queue' :
          queue'[i].action = "BRICK_DESTROY" =>
            i = Len(queue') - 1 /\ queue'[i] = x
    BY <1>1, <2>1 DEF Nothing
  <2> QED BY <1>2, <2>1, <2>2, <2>3 DEF LiveInv
<1>3. ASSUME NEW next, NicDel(n, next) PROVE LiveInv'
  <2>1. /\ pc' = "nic_del" /\ cur' = n /\ n \in branches
        /\ UNCHANGED <<branches, live, running>>
        /\ queue' = queue \o <<Call("BRICK_DESTROY", n), Nothing>>
    BY <1>3 DEF NicDel, Push
  <2>2. /\ Call("BRICK_DESTROY", n) \in Rpc
        /\ Call("BRICK_DESTROY", n).action = "BRICK_DESTROY"
    BY CallType DEF Call
  <2>3. /\ \A m \in NicId : ReloadPending(m)' => m \in live'
        /\ \A i \in DOMAIN queue' :
             queue'[i].action = "BRICK_DESTROY" => i = Len(queue') - 1
        /\ \E i \in DOMAIN queue' : queue'[i] = Call("BRICK_DESTROY", n)
    BY <1>2, <2>1, <2>2
  <2>4. DestroyPending'
    BY <2>2, <2>3 DEF DestroyPending
  <2> QED BY <1>0, <1>1, <2>1, <2>3, <2>4 DEF LiveInv
<1>4. CASE ActionNicDel(n)
  BY <1>3, <1>4 DEF ActionNicDel
<1>5. ASSUME NEW c, ActionNicAdd(n, c) PROVE LiveInv'
  <2>1. CASE NicDel(n, AddRequest(n, c))
    BY <1>3, <2>1
  <2>2. CASE /\ n \notin nics /\ FwNew(n, c)
             /\ UNCHANGED <<model, branches, live, bricks, arp, running, todo,
                            failed>>
    <3>1. /\ pc' = "nic_new" /\ cur' = n /\ n \notin branches
          /\ UNCHANGED <<branches, live, running>>
          /\ queue' = queue \o <<Call("FW_NEW", n), Nothing>>
      BY <1>0, <2>2 DEF FwNew, Push
    <3>2. Call("FW_NEW", n) \in Rpc /\ Call("FW_NEW", n).action = "FW_NEW"
      BY CallType DEF Call
    <3>3. /\ \A m \in NicId : ReloadPending(m)' => m \in live'
          /\ \A i \in DOMAIN queue' : queue'[i].action # "BRICK_DESTROY"
      BY <1>2, <3>1, <3>2
    <3> QED BY <1>0, <1>1, <3>1, <3>3 DEF LiveInv
  <2> QED BY <1>5, <2>1, <2>2 DEF ActionNicAdd
<1>6. ASSUME NEW c, ActionNicUpdate(n, c) PROVE LiveInv'
  BY <1>6, <1>0, LiveFrame DEF ActionNicUpdate
<1> QED BY <1>4, <1>5, <1>6

(* The steps of the API thread keep track of the firewalls.                *)
LEMMA LiveApi ==
  TypeOK /\ ControlInv /\ BarrierInv /\ LiveInv /\ ApiStep => LiveInv'
<1> SUFFICES ASSUME TypeOK, ControlInv, BarrierInv, LiveInv, ApiStep
             PROVE  LiveInv'
  OBVIOUS
<1>0. ASSUME pc \in {"nic_del", "nic_new"}, queue = <<>>
      PROVE  /\ ~ DestroyPending /\ running \in {Idle, Nothing}
             /\ \A n \in NicId : ~ ReloadPending(n)
  <2>1. running \in {Idle, Nothing} /\ DOMAIN queue = {}
    BY <1>0 DEF BarrierInv
  <2> QED BY <2>1 DEF DestroyPending, ReloadPending, Idle, Nothing, Call
<1>1. CASE NicDelDone
  <2>1. /\ pc = "nic_del" /\ queue = <<>> /\ branches' = branches \ {cur}
        /\ running' = running /\ live' = live /\ cur \in NicId
    BY <1>1 DEF NicDelDone, ControlInv, HandlerInv, TypeOK
  <2>2. live = branches \ {cur}
    BY <1>0, <2>1 DEF LiveInv
  <2>3. CASE req.adding = NoNic
    BY <1>0, <1>1, <2>1, <2>2, <2>3
    DEF NicDelDone, LiveInv, ReloadPending, Idle, Nothing
  <2>4. CASE req.adding # NoNic
    <3>1. /\ queue' = <<Call("FW_NEW", cur), Nothing>>
          /\ pc' = "nic_new" /\ cur' = cur
      BY <1>1, <2>1, <2>4 DEF NicDelDone, FwNew, Push
    <3>2. \A i \in DOMAIN queue' :
            queue'[i].action \notin {"BRICK_DESTROY", "FW_RELOAD"}
      BY <3>1 DEF Call, Nothing
    <3>3. \A n \in NicId : ~ ReloadPending(n)'
      BY <1>0, <2>1, <3>2 DEF ReloadPending, Call, Idle, Nothing
    <3>4. running'.action # "BRICK_DESTROY"
      BY <1>0, <2>1 DEF Idle, Nothing
    <3> QED BY <2>1, <2>2, <3>1, <3>2, <3>3, <3>4 DEF LiveInv
  <2> QED BY <2>3, <2>4
<1>2. CASE NicNewDone \/ NicNewFails
  <2>1. /\ pc = "nic_new" /\ queue = <<>> /\ pc' \in {"visit", "idle"}
        /\ queue' = queue /\ running' = running
    BY <1>2 DEF NicNewDone, NicNewFails
  <2>2. live' = branches'
    BY <1>2, <2>1 DEF NicNewDone, NicNewFails, LiveInv
  <2>3. \A n \in NicId : ~ ReloadPending(n)'
    BY <1>0, <2>1 DEF ReloadPending
  <2>4. running'.action # "BRICK_DESTROY"
    BY <1>0, <2>1 DEF Idle, Nothing
  <2> QED BY <2>1, <2>2, <2>3, <2>4 DEF LiveInv
<1>3. CASE FwReload
  <2>1. /\ pc = "fw_reload" /\ pc' = "visit" /\ cur \in NicId /\ cur \in branches
        /\ UNCHANGED <<branches, live, running>>
        /\ queue' = queue \o <<Call("FW_RELOAD", cur)>>
    BY <1>3 DEF FwReload, Push, ControlInv, HandlerInv, InFirewall, TypeOK
  <2>2. \A i \in DOMAIN queue' :
          \/ queue'[i] = Call("FW_RELOAD", cur)
          \/ i \in DOMAIN queue /\ queue'[i] = queue[i]
    BY <2>1, CallType, AppendOne DEF TypeOK
  <2>3. \A i \in DOMAIN queue' : queue'[i].action # "BRICK_DESTROY"
    BY <2>1, <2>2 DEF BarrierInv, Call
  <2>4. running.action # "BRICK_DESTROY" /\ live = branches
    BY <2>1 DEF BarrierInv, LiveInv
  <2>5. \A n \in NicId : ReloadPending(n)' => n = cur \/ ReloadPending(n)
    BY <2>1, <2>2 DEF ReloadPending, Call
  <2> QED BY <2>1, <2>3, <2>4, <2>5 DEF LiveInv
<1>4. ASSUME NEW v \in todo, VisitSkip(v) \/ FwUpdateFlush(v) \/ FwAddRuleFlush(v)
      PROVE  LiveInv'
  BY <1>4, LiveFrame DEF VisitSkip, FwUpdateFlush, FwAddRuleFlush
<1>5. CASE FwUpdateIn \/ FwUpdateOut \/ FwAddRuleAdd \/ FwRuleRefused \/ VisitDone
  BY <1>5, LiveFrame
  DEF FwUpdateIn, FwUpdateOut, FwAddRuleAdd, FwRuleRefused, VisitDone
<1> QED BY <1>1, <1>2, <1>3, <1>4, <1>5 DEF ApiStep

(* The poller makes and destroys the firewall NicAdd or NicDel waits for;  *)
(* when it destroys one, no reload is left in the queue.                   *)
LEMMA LivePoller ==
  TypeOK /\ ControlInv /\ BarrierInv /\ LiveInv /\ PollerStep => LiveInv'
<1> SUFFICES ASSUME TypeOK, ControlInv, BarrierInv, LiveInv, PollerStep
             PROVE  LiveInv'
  OBVIOUS
<1>0. UNCHANGED <<branches, pc, cur>>
  BY DEF PollerStep, PollerPop, PollerFwNew, PollerFwReload, PollerFwReloadFails,
         PollerBrickDestroy, PollerNothing
<1>1. CASE PollerPop
  <2>1. /\ Len(queue') = Len(queue) - 1 /\ Len(queue) \in Nat
        /\ 1 \in DOMAIN queue /\ running' = queue[1]
        /\ \A i \in DOMAIN queue' : i + 1 \in DOMAIN queue /\ queue'[i] = queue[i + 1]
        /\ \A j \in DOMAIN queue :
             j = 1 \/ (j - 1 \in DOMAIN queue' /\ queue'[j - 1] = queue[j])
        /\ running = Idle /\ live' = live
    BY <1>1, PopPlaces DEF PollerPop, TypeOK
  <2>2. DestroyPending' <=> DestroyPending
    BY <2>1 DEF DestroyPending, Idle
  <2>3. \A n \in NicId : ReloadPending(n)' => ReloadPending(n)
    BY <2>1 DEF ReloadPending
  <2>4. /\ \A i \in DOMAIN queue' :
             queue'[i].action = "BRICK_DESTROY" => i = Len(queue') - 1
        /\ running'.action = "BRICK_DESTROY" => Len(queue') = 1
    <3>1. queue' \in Seq(Rpc)
      BY <1>1 DEF PollerPop, TypeOK
    <3>2. \A i \in DOMAIN queue' : i \in Nat
      BY <3>1
    <3>3. ASSUME NEW i \in DOMAIN queue', queue'[i].action = "BRICK_DESTROY"
          PROVE  i = Len(queue') - 1
      <4>1. i + 1 = Len(queue) - 1
        BY <2>1, <3>3 DEF LiveInv
      <4> QED BY <2>1, <3>2, <4>1
    <3>4. running'.action = "BRICK_DESTROY" => Len(queue') = 1
      <4>1. running'.action = "BRICK_DESTROY" => 1 = Len(queue) - 1
        BY <2>1 DEF LiveInv
      <4> QED BY <2>1, <4>1
    <3> QED BY <3>3, <3>4
  <2> QED BY <1>0, <2>1, <2>2, <2>3, <2>4 DEF LiveInv
<1>2. ASSUME running' = Idle, queue' = queue PROVE
        /\ \A n \in NicId : ReloadPending(n)' => ReloadPending(n)
        /\ running'.action # "BRICK_DESTROY"
        /\ running.action # "BRICK_DESTROY" => (DestroyPending' <=> DestroyPending)
  BY <1>2 DEF ReloadPending, DestroyPending, Idle, Call
<1>3. CASE PollerFwReload \/ PollerFwReloadFails \/ PollerNothing
  <2>1. /\ running' = Idle /\ queue' = queue /\ live' = live
        /\ running.action # "BRICK_DESTROY"
    BY <1>3 DEF PollerFwReload, PollerFwReloadFails, PollerNothing
  <2> QED BY <1>0, <1>2, <2>1 DEF LiveInv
<1>4. CASE PollerFwNew
  <2>1. /\ running' = Idle /\ queue' = queue /\ live' \in {live, live \cup {cur}}
        /\ pc = "nic_new"
    BY <1>4 DEF PollerFwNew, BarrierInv
  <2> QED BY <1>0, <1>2, <2>1 DEF LiveInv
<1>5. CASE PollerBrickDestroy
  <2>1. /\ running' = Idle /\ queue' = queue /\ live' = live \ {cur}
        /\ pc = "nic_del" /\ Len(queue) = 1
    BY <1>5 DEF PollerBrickDestroy, BarrierInv, LiveInv
  <2>2. DOMAIN queue = {1} /\ queue[1] = Nothing
    <3>1. queue \in Seq(Rpc) /\ queue # <<>>
      <4>1. queue \in Seq(Rpc)
        BY DEF TypeOK
      <4> QED BY <2>1, <4>1, EmptySeq
    <3>2. queue[Len(queue)] = Nothing
      BY <2>1, <3>1 DEF BarrierInv
    <3>3. DOMAIN queue = 1..1
      BY <2>1, <3>1, LenProperties
    <3> QED BY <2>1, <3>2, <3>3
  <2>3. ~ DestroyPending' /\ \A n \in NicId : ~ ReloadPending(n)'
    BY <2>1, <2>2 DEF DestroyPending, ReloadPending, Idle, Nothing, Call
  <2>4. live = branches /\ cur \in branches
    BY <1>5, <2>1 DEF LiveInv, DestroyPending, PollerBrickDestroy
  <2>5. \A i \in DOMAIN queue' : queue'[i].action # "BRICK_DESTROY"
    BY <2>1, <2>2 DEF Nothing
  <2> QED BY <1>0, <1>2, <2>1, <2>3, <2>4, <2>5 DEF LiveInv
<1> QED BY <1>1, <1>3, <1>4, <1>5 DEF PollerStep
=============================================================================
