----------------------- MODULE FirewallRefinesProofs -----------------------
(***************************************************************************)
(* Proof that Firewall implements Enforcement, for any sets of NICs,       *)
(* groups, rules and addresses: the inductive invariant of the refinement, *)
(* then one step of Enforcement, or none, for every step of Firewall.      *)
(***************************************************************************)
EXTENDS FirewallRefines, FirewallProofs

USE DEF WaitEmptyQueue

-----------------------------------------------------------------------------
(* The policy.                                                             *)

(* The policy of one NIC.                                                  *)
LEMMA PolicyOf ==
  ASSUME NEW n \in NicId
  PROVE  /\ Policy[n] = IF n \in branches /\ ~ conf[n].bypass
                        THEN Ingress(InRules(n)) ELSE {}
         /\ Policy'[n] = IF n \in branches' /\ ~ conf'[n].bypass
                         THEN Ingress(InRules(n)') ELSE {}
BY DEF Policy, Ingress

(* A policy admits atoms.                                                  *)
LEMMA PolicyType == TypeOK => Policy \in [NicId -> SUBSET Atom]
BY BuildType DEF Policy, Ingress

(* And so does the policy after a step.                                    *)
LEMMA PolicyTypeNext == (TypeOK => Policy \in [NicId -> SUBSET Atom])'
BY PolicyType, PTL

(* The policy of a NIC only depends on its parameters and the groups.      *)
LEMMA PolicyKept ==
  ASSUME UNCHANGED <<groups, rules, members>>, NEW n \in NicId,
         conf'[n] = conf[n], n \in branches' <=> n \in branches
  PROVE  Policy'[n] = Policy[n]
<1>1. InRules(n)' = InRules(n)
  BY RulesSame
<1> QED BY <1>1, PolicyOf

(* The policy does not change when the model does not.                     *)
LEMMA PolicySame ==
  ASSUME UNCHANGED <<groups, rules, members, conf, branches>>
  PROVE  Policy' = Policy
<1>1. \A n \in NicId : Policy'[n] = Policy[n]
  BY PolicyKept
<1>2. Policy = [n \in NicId |-> Policy[n]] /\ Policy' = [n \in NicId |-> Policy'[n]]
  BY DEF Policy
<1> QED BY <1>1, <1>2

(* Staged rules that are right amount to the policy.                       *)
LEMMA StagedIsPolicy ==
  ASSUME TypeOK, NEW n \in branches, ~ conf[n].bypass, StagedRight(n)
  PROVE  Ingress(stagedIn[n]) = Policy[n]
BY PolicyOf DEF TypeOK, StagedRight

(* The steps of a handler and of the poller, one by one, as to the model,  *)
(* vnis_ and the history.                                                  *)
RulesStep ==
  \/ \E v \in todo : VisitSkip(v) \/ FwUpdateFlush(v) \/ FwAddRuleFlush(v)
  \/ FwUpdateIn \/ FwUpdateOut \/ FwAddRuleAdd

(* None of them changes the model, vnis_, what is loaded or the queue.     *)
LEMMA RulesStepFrame ==
  ASSUME RulesStep
  PROVE  /\ UNCHANGED <<model, branches, live, loadedIn, queue, running, failed>>
         /\ pc # "idle" /\ pc' # "idle"
BY DEF RulesStep, VisitSkip, FwUpdateFlush, FwAddRuleFlush, FwUpdateIn,
       FwUpdateOut, FwAddRuleAdd, bricks

-----------------------------------------------------------------------------
(* The invariant.                                                          *)

(* It holds at the start.                                                  *)
LEMMA RefinesInit == InitH => HushedInv /\ ConcernsInv /\ HistoryInv
<1> SUFFICES ASSUME InitH PROVE HushedInv /\ ConcernsInv /\ HistoryInv
  OBVIOUS
<1>1. HushedInv /\ ConcernsInv
  BY DEF InitH, Init, HushedInv, ConcernsInv, ReloadPending, Idle, Call
<1>2. HistoryInv
  BY DEF InitH, Init, HistoryInv, Policy
<1> QED BY <1>1, <1>2

(* NICs without rules to enforce have none.                                *)
LEMMA HushedStep ==
  SyncInv /\ HushedInv /\ Next => HushedInv'
<1> SUFFICES ASSUME SyncInv, HushedInv, Next, NEW n \in NicId,
                    n \notin live' \/ n \notin branches' \/ conf'[n].bypass
             PROVE  stagedIn'[n] = {} /\ loadedIn'[n] = {}
  BY DEF HushedInv
<1>0. TypeOK /\ HandlerInv /\ BarrierInv /\ LiveInv
  BY DEF SyncInv
<1> DEFINE Hushed == n \notin live \/ n \notin branches \/ conf[n].bypass
<1>1. Hushed => stagedIn[n] = {} /\ loadedIn[n] = {}
  BY DEF HushedInv
<1>2. CASE Hushed /\ UNCHANGED <<stagedIn, loadedIn>>
  BY <1>1, <1>2
<1>3. CASE SgRequest
  <2>1. UNCHANGED <<live, branches, conf, stagedIn, loadedIn>>
    BY <1>3 DEF SgRequest, ActionSgAdd, ActionSgDel, ActionSgRuleAdd,
                ActionSgRuleDel, ActionSgMemberAdd, ActionSgMemberDel, Visit, bricks
  <2> QED BY <1>2, <2>1
<1>4. CASE NicRequest
  <2>1. UNCHANGED <<live, branches, stagedIn, loadedIn>>
    BY <1>4 DEF NicRequest, ActionNicDel, ActionNicAdd, ActionNicUpdate, NicDel, bricks
  <2>2. conf'[n].bypass = conf[n].bypass
    BY <1>0, <1>4
    DEF NicRequest, ActionNicDel, ActionNicAdd, ActionNicUpdate, NicDel, model, TypeOK
  <2> QED BY <1>2, <2>1, <2>2
<1>5. CASE NicDelDone
  <2>1. pc = "nic_del" /\ queue = <<>> /\ live' = live /\ running \in {Idle, Nothing}
    BY <1>0, <1>5 DEF NicDelDone, BarrierInv
  <2>2. ~ DestroyPending
    BY <2>1 DEF DestroyPending, Idle, Nothing
  <2>3. cur \notin live
    BY <1>0, <2>1, <2>2 DEF LiveInv
  <2>4. UNCHANGED <<stagedIn, loadedIn>> /\ branches' = branches \ {cur}
    BY <1>5 DEF NicDelDone, bricks
  <2>5. n # cur => conf'[n] = conf[n]
    BY <1>0, <1>5 DEF NicDelDone, TypeOK
  <2> QED BY <1>2, <2>1, <2>3, <2>4, <2>5
<1>6. CASE NicNewDone
  <2>1. cur \notin branches /\ UNCHANGED <<live, stagedIn, loadedIn>>
        /\ branches' = branches \cup {cur} /\ (n # cur => conf'[n] = conf[n])
    BY <1>0, <1>6 DEF NicNewDone, LiveInv, bricks, TypeOK
  <2> QED BY <1>2, <2>1
<1>7. CASE NicNewFails
  <2>1. cur \notin branches /\ UNCHANGED <<branches, conf, stagedIn, loadedIn>>
        /\ live' = live \ {cur}
    BY <1>0, <1>7 DEF NicNewFails, LiveInv, bricks, model
  <2> QED BY <1>2, <2>1
<1>8. CASE RulesStep
  <2>1. UNCHANGED <<live, branches, conf, loadedIn>>
    BY <1>8, RulesStepFrame DEF model
  <2>2. Hushed
    BY <2>1
  <2>3. \/ stagedIn'[n] \in {stagedIn[n], {}}
        \/ n = cur /\ pc \in {"fw_in", "add_rule"}
    BY <1>0, <1>8 DEF RulesStep, VisitSkip, FwUpdateFlush, FwAddRuleFlush,
                      FwUpdateIn, FwUpdateOut, FwAddRuleAdd, bricks, TypeOK
  <2>4. ~ (n = cur /\ pc \in {"fw_in", "add_rule"})
    BY <1>0, <2>2 DEF HandlerInv, InFirewall, LiveInv
  <2> QED BY <1>1, <2>1, <2>2, <2>3, <2>4
<1>9. CASE FwRuleRefused \/ FwReload \/ VisitDone
  BY <1>2, <1>9 DEF FwRuleRefused, FwReload, VisitDone, bricks, model
<1>10. CASE PollerPop \/ PollerFwReloadFails \/ PollerNothing
  BY <1>2, <1>10 DEF PollerPop, PollerFwReloadFails, PollerNothing, bricks, model
<1>11. CASE PollerFwReload
  <2>1. UNCHANGED <<live, branches, conf, stagedIn>>
        /\ loadedIn'[n] \in {loadedIn[n], stagedIn[n]}
    BY <1>0, <1>11 DEF PollerFwReload, model, TypeOK
  <2> QED BY <1>1, <2>1
<1>12. CASE PollerFwNew \/ PollerBrickDestroy
  <2>1. /\ UNCHANGED <<branches, conf>>
        /\ IF n = running.nic THEN stagedIn'[n] = {} /\ loadedIn'[n] = {}
           ELSE /\ n \in live' <=> n \in live
                /\ stagedIn'[n] = stagedIn[n] /\ loadedIn'[n] = loadedIn[n]
    BY <1>0, <1>12 DEF PollerFwNew, PollerBrickDestroy, DropRules, model, TypeOK
  <2> QED BY <1>1, <2>1
<1> QED BY <1>3, <1>4, <1>5, <1>6, <1>7, <1>8, <1>9, <1>10, <1>11, <1>12
        DEF Next, ApiStep, PollerStep, RulesStep

(* Which reloads are pending after the queue grew, or the poller worked.   *)
LEMMA PendingPush ==
  ASSUME TypeOK, running' = running, NEW n \in NicId,
         \/ queue' = queue
         \/ \E x, y \in Rpc : /\ x.action # "FW_RELOAD" /\ y.action # "FW_RELOAD"
                              /\ queue' = queue \o <<x, y>>
  PROVE  ReloadPending(n)' <=> ReloadPending(n)
<1>0. queue \in Seq(Rpc)
  BY DEF TypeOK
<1>1. CASE queue' = queue
  BY <1>1 DEF ReloadPending
<1>2. ASSUME NEW x \in Rpc, NEW y \in Rpc, queue' = queue \o <<x, y>>,
             x.action # "FW_RELOAD", y.action # "FW_RELOAD"
      PROVE  ReloadPending(n)' <=> ReloadPending(n)
  <2>1. /\ \A i \in DOMAIN queue' :
             queue'[i] \in {x, y} \/ (i \in DOMAIN queue /\ queue'[i] = queue[i])
        /\ \A i \in DOMAIN queue : i \in DOMAIN queue' /\ queue'[i] = queue[i]
    BY <1>0, <1>2, AppendTwo
  <2>2. Call("FW_RELOAD", n) \notin {x, y}
    BY <1>2 DEF Call
  <2> QED BY <2>1, <2>2 DEF ReloadPending
<1> QED BY <1>1, <1>2

(* The reload the API thread pushes.                                       *)
LEMMA PendingReload ==
  ASSUME TypeOK, HandlerInv, FwReload, NEW n \in NicId
  PROVE  ReloadPending(n)' <=> ReloadPending(n) \/ n = cur
<1>0. /\ queue \in Seq(Rpc) /\ Call("FW_RELOAD", cur) \in Rpc
      /\ queue' = queue \o <<Call("FW_RELOAD", cur)>>
  BY CallType DEF FwReload, Push, HandlerInv, TypeOK
<1>1. /\ \A i \in DOMAIN queue' :
           \/ queue'[i] = Call("FW_RELOAD", cur)
           \/ i \in DOMAIN queue /\ queue'[i] = queue[i]
      /\ \A i \in DOMAIN queue : i \in DOMAIN queue' /\ queue'[i] = queue[i]
      /\ \E i \in DOMAIN queue' : queue'[i] = Call("FW_RELOAD", cur)
  <2>1. ASSUME NEW q \in Seq(Rpc), NEW x \in Rpc
        PROVE  /\ \A i \in DOMAIN (q \o <<x>>) :
                    \/ (q \o <<x>>)[i] = x
                    \/ i \in DOMAIN q /\ (q \o <<x>>)[i] = q[i]
               /\ \A i \in DOMAIN q :
                    i \in DOMAIN (q \o <<x>>) /\ (q \o <<x>>)[i] = q[i]
               /\ \E i \in DOMAIN (q \o <<x>>) : (q \o <<x>>)[i] = x
    BY AppendOne
  <2> QED BY <1>0, <2>1
<1>2. Call("FW_RELOAD", n) = Call("FW_RELOAD", cur) <=> n = cur
  BY DEF Call
<1> QED BY <1>1, <1>2 DEF ReloadPending, FwReload

(* The poller pops a call: what is pending stays so.                       *)
LEMMA PendingPop ==
  ASSUME TypeOK, PollerPop, NEW n \in NicId
  PROVE  ReloadPending(n)' <=> ReloadPending(n)
<1>1. /\ \E i \in DOMAIN queue : running' = queue[i]
      /\ \A i \in DOMAIN queue' : \E j \in DOMAIN queue : queue'[i] = queue[j]
      /\ \A j \in DOMAIN queue :
           queue[j] = running' \/ \E i \in DOMAIN queue' : queue'[i] = queue[j]
      /\ running = Idle
  BY PopFacts DEF PollerPop, TypeOK
<1> QED BY <1>1 DEF ReloadPending, Idle, Call

(* The poller has executed a call.                                         *)
LEMMA PendingDone ==
  ASSUME TypeOK, running' = Idle, queue' = queue, NEW n \in NicId
  PROVE  /\ ReloadPending(n)' => ReloadPending(n)
         /\ running # Call("FW_RELOAD", n) =>
              (ReloadPending(n)' <=> ReloadPending(n))
BY DEF ReloadPending, Idle, Call

(* NicDel and FwNew push no reload.                                        *)
LEMMA PendingNic ==
  ASSUME TypeOK, NicRequest, NEW n \in NicId
  PROVE  ReloadPending(n)' <=> ReloadPending(n)
<1>0. /\ Nothing \in Rpc /\ Nothing.action # "FW_RELOAD"
      /\ \A m \in NicId : \A a \in {"BRICK_DESTROY", "FW_NEW"} :
           Call(a, m) \in Rpc /\ Call(a, m).action # "FW_RELOAD"
  BY CallType DEF Nothing, Call
<1>1. /\ running' = running
      /\ \/ queue' = queue
         \/ \E m \in NicId : \E a \in {"BRICK_DESTROY", "FW_NEW"} :
              queue' = queue \o <<Call(a, m), Nothing>>
  BY DEF NicRequest, ActionNicDel, ActionNicAdd, ActionNicUpdate, NicDel, FwNew, Push
<1> QED BY <1>0, <1>1, PendingPush

(* While WaitEmptyQueue returns no reload is pending, nor becomes so.      *)
LEMMA PendingWait ==
  ASSUME TypeOK, HandlerInv, BarrierInv, NicDelDone \/ NicNewDone \/ NicNewFails,
         NEW n \in NicId
  PROVE  ~ ReloadPending(n) /\ ~ ReloadPending(n)'
<1>1. /\ queue = <<>> /\ running \in {Idle, Nothing} /\ running' = running
      /\ cur \in NicId
  BY DEF NicDelDone, NicNewDone, NicNewFails, BarrierInv, HandlerInv, TypeOK
<1>2. ~ ReloadPending(n)
  BY <1>1 DEF ReloadPending, Idle, Nothing, Call
<1>3. /\ Nothing \in Rpc /\ Nothing.action # "FW_RELOAD"
      /\ Call("FW_NEW", cur) \in Rpc /\ Call("FW_NEW", cur).action # "FW_RELOAD"
  BY <1>1, CallType DEF Nothing, Call
<1>4. \/ queue' = queue
      \/ queue' = queue \o <<Call("FW_NEW", cur), Nothing>>
  BY DEF NicDelDone, NicNewDone, NicNewFails, FwNew, Push
<1> QED BY <1>1, <1>2, <1>3, <1>4, PendingPush

(* Reloads and refusals concern NICs of vnis_.                             *)
LEMMA ConcernsStep == SyncInv /\ ConcernsInv /\ Next => ConcernsInv'
<1> SUFFICES ASSUME SyncInv, ConcernsInv, Next PROVE ConcernsInv'
  OBVIOUS
<1>0. TypeOK /\ HandlerInv /\ BarrierInv /\ LiveInv
  BY DEF SyncInv
<1>1. ASSUME branches' = branches, failed' \subseteq failed,
             \A n \in NicId : ReloadPending(n)' => ReloadPending(n)
      PROVE  ConcernsInv'
  BY <1>1 DEF ConcernsInv
<1>2. CASE SgRequest
  <2>1. UNCHANGED <<branches, failed, queue, running>>
    BY <1>2 DEF SgRequest, ActionSgAdd, ActionSgDel, ActionSgRuleAdd,
                ActionSgRuleDel, ActionSgMemberAdd, ActionSgMemberDel, Visit
  <2> QED BY <1>0, <1>1, <2>1, PendingPush
<1>3. CASE NicRequest
  <2>1. UNCHANGED <<branches, failed>>
    BY <1>3 DEF NicRequest, ActionNicDel, ActionNicAdd, ActionNicUpdate, NicDel
  <2> QED BY <1>0, <1>1, <1>3, <2>1, PendingNic
<1>4. CASE NicDelDone \/ NicNewDone \/ NicNewFails
  <2>1. failed' \subseteq branches'
    BY <1>4 DEF NicDelDone, NicNewDone, NicNewFails, ConcernsInv
  <2> QED BY <1>0, <1>4, <2>1, PendingWait DEF ConcernsInv
<1>5. CASE RulesStep
  BY <1>0, <1>1, <1>5, RulesStepFrame, PendingPush
<1>6. CASE FwRuleRefused
  <2>1. /\ UNCHANGED <<branches, queue, running>> /\ cur \in branches
        /\ failed' = failed \cup {cur}
    BY <1>0, <1>6 DEF FwRuleRefused, HandlerInv, InFirewall
  <2> QED BY <1>0, <2>1, PendingPush DEF ConcernsInv
<1>7. CASE FwReload
  <2>1. branches' = branches /\ cur \in branches /\ failed' \subseteq failed
    BY <1>0, <1>7 DEF FwReload, HandlerInv, InFirewall
  <2> QED BY <1>0, <1>7, <2>1, PendingReload DEF ConcernsInv
<1>8. CASE VisitDone
  BY <1>0, <1>1, <1>8, PendingPush DEF VisitDone
<1>9. CASE PollerPop
  BY <1>0, <1>1, <1>9, PendingPop DEF PollerPop
<1>10. CASE PollerFwNew \/ PollerFwReload \/ PollerBrickDestroy \/ PollerNothing
  BY <1>0, <1>1, <1>10, PendingDone
  DEF PollerFwNew, PollerFwReload, PollerBrickDestroy, PollerNothing
<1>11. CASE PollerFwReloadFails
  <2>1. running = Call("FW_RELOAD", running.nic) /\ running.nic \in NicId
    BY <1>0, <1>11 DEF PollerFwReloadFails, TypeOK, Rpc, Idle, Call
  <2>2. running.nic \in branches
    BY <2>1 DEF ConcernsInv, ReloadPending
  <2>3. /\ UNCHANGED <<branches, queue>> /\ running' = Idle
        /\ failed' = failed \cup {running.nic}
    BY <1>11 DEF PollerFwReloadFails
  <2> QED BY <1>0, <2>2, <2>3, PendingDone DEF ConcernsInv
<1> QED BY <1>2, <1>3, <1>4, <1>5, <1>6, <1>7, <1>8, <1>9, <1>10, <1>11
        DEF Next, ApiStep, PollerStep, RulesStep

(* Between two requests what is staged is the policy.                      *)
LEMMA IdleStaged ==
  ASSUME SyncInv, pc = "idle", NEW n \in branches \ failed, ~ conf[n].bypass
  PROVE  Ingress(stagedIn[n]) = Policy[n]
<1>1. TypeOK /\ todo = {} /\ cur = NoNic /\ n # cur
  BY ConstantsAssumption DEF SyncInv, HandlerInv, TypeOK
<1>2. StagedRight(n)
  BY <1>1 DEF SyncInv, StagedInv, StagedOk, Visiting
<1> QED BY <1>1, <1>2, StagedIsPolicy

(* The history is right between two requests, and what is staged during a  *)
(* request is nothing, the rules before or the rules after.                *)
LEMMA HistoryStep ==
  SyncInv /\ SyncInv' /\ HushedInv /\ HistoryInv /\ NextH => HistoryInv'
<1> SUFFICES ASSUME SyncInv, SyncInv', HushedInv, HistoryInv, NextH
             PROVE  HistoryInv'
  OBVIOUS
<1>0. TypeOK /\ HandlerInv /\ BarrierInv /\ LiveInv /\ StagedInv /\ TypeOK' /\ StagedInv'
  BY DEF SyncInv
<1>1. Policy' \in [NicId -> SUBSET Atom]
  BY <1>0, PolicyTypeNext
<1>2. /\ before' \in [NicId -> SUBSET Atom]
      /\ pc' = "idle" => before' = Policy'
      /\ pc' # "idle" => before' = before
  BY <1>1 DEF NextH, HistoryInv
<1> DEFINE Fits(n) == Ingress(stagedIn'[n]) \in {{}, before'[n], Policy'[n]}
<1> SUFFICES ASSUME pc' # "idle", NEW n \in branches' \ failed', ~ conf'[n].bypass
             PROVE  Fits(n)
  BY <1>2 DEF HistoryInv
<1>3. n \in NicId /\ before' = before
  BY <1>0, <1>2 DEF TypeOK
<1>4. ASSUME pc # "idle", n \in branches \ failed, conf'[n] = conf[n],
             UNCHANGED <<groups, rules, members>>, stagedIn'[n] = stagedIn[n]
      PROVE  Fits(n)
  <2>1. Policy'[n] = Policy[n]
    BY <1>3, <1>4, PolicyKept
  <2> QED BY <1>3, <1>4, <2>1 DEF HistoryInv
<1>5. ASSUME pc = "idle", n \in branches \ failed, ~ conf[n].bypass,
             stagedIn'[n] = stagedIn[n]
      PROVE  Fits(n)
  <2>1. Ingress(stagedIn[n]) = Policy[n]
    BY <1>5, IdleStaged
  <2> QED BY <1>3, <1>5, <2>1 DEF HistoryInv
<1>6. ASSUME StagedRight(n)' PROVE Fits(n)
  BY <1>3, <1>6, PolicyOf DEF StagedRight
<1>7. stagedIn'[n] = {} => Fits(n)
  BY DEF Ingress
<1>8. CASE SgRequest
  BY <1>5, <1>8
  DEF SgRequest, ActionSgAdd, ActionSgDel, ActionSgRuleAdd, ActionSgRuleDel,
      ActionSgMemberAdd, ActionSgMemberDel, Visit, Ready, bricks
<1>9. CASE NicRequest
  <2>1. pc = "idle" /\ UNCHANGED <<branches, failed, stagedIn>>
    BY <1>9 DEF NicRequest, ActionNicDel, ActionNicAdd, ActionNicUpdate, NicDel,
                Ready, bricks
  <2>2. conf'[n].bypass = conf[n].bypass
    BY <1>0, <1>3, <1>9
    DEF NicRequest, ActionNicDel, ActionNicAdd, ActionNicUpdate, NicDel, model, TypeOK
  <2> QED BY <1>5, <2>1, <2>2
<1>10. CASE NicDelDone
  <2>1. /\ pc # "idle" /\ n \in branches \ failed /\ n # cur
        /\ UNCHANGED <<groups, rules, members, stagedIn>>
    BY <1>10 DEF NicDelDone, bricks
  <2>2. conf'[n] = conf[n]
    BY <1>0, <1>3, <1>10, <2>1 DEF NicDelDone, TypeOK
  <2> QED BY <1>4, <2>1, <2>2
<1>11. CASE NicNewDone
  <2>1. /\ pc # "idle" /\ UNCHANGED <<groups, rules, members, stagedIn, failed>>
        /\ branches' = branches \cup {cur} /\ cur \notin branches
    BY <1>0, <1>11 DEF NicNewDone, bricks, LiveInv
  <2>2. n # cur => conf'[n] = conf[n]
    BY <1>0, <1>3, <1>11 DEF NicNewDone, TypeOK
  <2>3. CASE n = cur
    BY <1>3, <1>7, <2>1, <2>3 DEF HushedInv
  <2> QED BY <1>4, <2>1, <2>2, <2>3
<1>12. CASE RulesStep
  <2>1. /\ pc # "idle" /\ n \in branches \ failed /\ conf' = conf
        /\ UNCHANGED <<groups, rules, members>>
    BY <1>12, RulesStepFrame DEF model
  <2>2. CASE stagedIn'[n] = stagedIn[n]
    BY <1>4, <2>1, <2>2
  <2>3. ASSUME NEW v \in todo, FwUpdateFlush(v) PROVE Fits(n)
    <3>1. stagedIn'[n] \in {stagedIn[n], {}}
      BY <1>0, <1>3, <2>3 DEF FwUpdateFlush, TypeOK
    <3> QED BY <1>7, <2>2, <3>1
  <2>4. CASE FwUpdateIn /\ n = cur
    BY <1>0, <1>6, <2>4 DEF FwUpdateIn, StagedInv, StagedOk
  <2>5. CASE FwAddRuleAdd /\ n = cur
    BY <1>0, <1>6, <2>5 DEF FwAddRuleAdd, StagedInv, StagedOk
  <2>6. CASE (FwUpdateIn \/ FwAddRuleAdd) /\ n # cur
    <3>1. stagedIn'[n] = stagedIn[n]
      BY <1>0, <1>3, <2>6 DEF FwUpdateIn, FwAddRuleAdd, TypeOK
    <3> QED BY <2>2, <3>1
  <2> QED BY <1>12, <2>2, <2>3, <2>4, <2>5, <2>6
          DEF RulesStep, VisitSkip, FwAddRuleFlush, FwUpdateOut, bricks
<1>13. CASE FwRuleRefused
  BY <1>4, <1>13 DEF FwRuleRefused, model, bricks
<1>14. CASE FwReload
  <2>1. /\ pc = "fw_reload" /\ n \in branches /\ conf' = conf
        /\ UNCHANGED <<groups, rules, members, stagedIn>>
    BY <1>14 DEF FwReload, model, bricks
  <2>2. CASE n \in failed
    <3>1. n = cur /\ req.rule = NoRule
      BY <1>14, <2>2 DEF FwReload
    <3>2. StagedRight(n)
      BY <1>0, <2>1, <3>1 DEF StagedInv, StagedOk
    <3>3. StagedRight(n)'
      BY <2>1, <3>2, RulesSame DEF StagedRight
    <3> QED BY <1>6, <3>3
  <2>3. CASE n \notin failed
    BY <1>4, <2>1, <2>3
  <2> QED BY <2>2, <2>3
<1>15. CASE NicNewFails \/ VisitDone
  BY <1>15 DEF NicNewFails, VisitDone
<1>16. CASE PollerStep
  <2>1. /\ pc # "idle" /\ n \in branches \ failed /\ conf' = conf
        /\ UNCHANGED <<groups, rules, members>>
    BY <1>16 DEF PollerStep, PollerPop, PollerFwNew, PollerFwReload, model,
                 PollerFwReloadFails, PollerBrickDestroy, PollerNothing
  <2>2. stagedIn'[n] \in {stagedIn[n], {}}
    BY <1>0, <1>3, <1>16
    DEF PollerStep, PollerPop, PollerFwNew, PollerFwReload, PollerFwReloadFails,
        PollerBrickDestroy, PollerNothing, DropRules, bricks, TypeOK
  <2> QED BY <1>4, <1>7, <2>1, <2>2
<1> QED BY <1>8, <1>9, <1>10, <1>11, <1>12, <1>13, <1>14, <1>15, <1>16
        DEF NextH, Next, ApiStep, RulesStep

(* The inductive invariant of the refinement.                              *)
LEMMA RefinesStep == RefinesInv /\ [NextH]_varsH => RefinesInv'
<1> SUFFICES ASSUME RefinesInv, [NextH]_varsH PROVE RefinesInv'
  OBVIOUS
<1>1. CASE NextH
  <2>1. SyncInv'
    BY <1>1, SyncStep DEF RefinesInv, NextH
  <2> QED BY <1>1, <2>1, HushedStep, ConcernsStep, HistoryStep DEF RefinesInv, NextH
<1>2. CASE UNCHANGED varsH
  <2>1. UNCHANGED vars /\ before' = before
    BY <1>2 DEF varsH
  <2>2. SyncInv'
    BY <2>1, SyncStep DEF RefinesInv
  <2>3. HushedInv' /\ ConcernsInv'
    BY <2>1 DEF RefinesInv, HushedInv, ConcernsInv, ReloadPending, vars, model, bricks
  <2>4. Policy' = Policy
    BY <2>1, PolicySame DEF vars, model
  <2>5. HistoryInv'
    BY <2>1, <2>4 DEF RefinesInv, HistoryInv, vars, model, bricks, Ingress
  <2> QED BY <2>2, <2>3, <2>5 DEF RefinesInv
<1> QED BY <1>1, <1>2

(* Every state of the program with its history satisfies it.               *)
LEMMA RefinesAlways == SafeSpecH => []RefinesInv
<1>1. InitH => RefinesInv
  <2>1. Init => SyncInv
    BY TypeInit, ControlInit, BarrierInit, LiveInit, SyncInit, EgressInit
    DEF SyncInv, ControlInv
  <2> QED BY <2>1, RefinesInit DEF RefinesInv, InitH
<1> QED BY <1>1, RefinesStep, PTL DEF SafeSpecH

-----------------------------------------------------------------------------
(* The steps.                                                              *)

(* What Enforcement sees of the firewalls and of the queue.                *)
Enforced == [n \in NicId |-> Ingress(loadedIn[n])]
Due == {n \in NicId : ReloadPending(n)}

(* Firewalls whose loaded rules stay enforce the same sources.             *)
LEMMA EnforcedSame ==
  ASSUME loadedIn' = loadedIn
  PROVE  Enforced' = Enforced
BY DEF Enforced, Ingress

(* The same reloads are pending.                                           *)
LEMMA DueSame ==
  ASSUME \A n \in NicId : ReloadPending(n)' <=> ReloadPending(n)
  PROVE  Due' = Due
BY DEF Due

(* A NIC whose visit is over, or that the request does not concern, has    *)
(* its policy loaded, is about to, or was refused its rules.               *)
LEMMA KeptNic ==
  ASSUME RefinesInv, todo = {}, NEW n \in NicId, n # cur
  PROVE  Enforced[n] = Policy[n] \/ n \in Due \/ n \in failed
<1>0. Enforced[n] = Ingress(loadedIn[n]) /\ ~ Visiting(n) /\ TypeOK
  BY DEF Enforced, Visiting, RefinesInv, SyncInv
<1>1. CASE n \in branches /\ ~ conf[n].bypass /\ n \notin failed
  <2>1. loadedIn[n] = stagedIn[n] \/ n \in Due
    BY <1>0, <1>1 DEF RefinesInv, SyncInv, LoadedInv, Loaded, Due
  <2>2. Ingress(stagedIn[n]) = Policy[n]
    BY <1>0, <1>1, StagedIsPolicy DEF RefinesInv, SyncInv, StagedInv, StagedOk
  <2> QED BY <1>0, <2>1, <2>2
<1>2. CASE n \notin branches \/ conf[n].bypass
  <2>1. loadedIn[n] = {} /\ Policy[n] = {}
    BY <1>2, PolicyOf DEF RefinesInv, HushedInv
  <2> QED BY <1>0, <2>1 DEF Ingress
<1> QED BY <1>1, <1>2

(* A step that changes nothing Enforcement sees.                           *)
LEMMA Unseen ==
  ASSUME (pc' # "idle") <=> (pc # "idle"), Policy' = Policy, before' = before,
         Enforced' = Enforced, Due' = Due, failed' = failed
  PROVE  UNCHANGED E!vars
BY DEF E!vars, Enforced, Due

(* A request is Begin, or unseen when it only switches the antispoof.      *)
LEMMA SimulateRequest ==
  ASSUME RefinesInv, RefinesInv', NextH, SgRequest \/ NicRequest
  PROVE  E!Begin \/ UNCHANGED E!vars
<1>0. TypeOK /\ TypeOK' /\ pc = "idle"
  BY DEF RefinesInv, SyncInv, SgRequest, ActionSgAdd, ActionSgDel, ActionSgRuleAdd,
         ActionSgRuleDel, ActionSgMemberAdd, ActionSgMemberDel, NicRequest,
         ActionNicDel, ActionNicAdd, ActionNicUpdate, Ready
<1>1. UNCHANGED <<loadedIn, failed>>
  BY DEF SgRequest, ActionSgAdd, ActionSgDel, ActionSgRuleAdd, ActionSgRuleDel,
         ActionSgMemberAdd, ActionSgMemberDel, Visit, NicRequest, ActionNicDel,
         ActionNicAdd, ActionNicUpdate, NicDel, bricks
<1>2. \A n \in NicId : ReloadPending(n)' <=> ReloadPending(n)
  <2>1. CASE SgRequest
    BY <1>0, <2>1, PendingPush
    DEF SgRequest, ActionSgAdd, ActionSgDel, ActionSgRuleAdd, ActionSgRuleDel,
        ActionSgMemberAdd, ActionSgMemberDel, Visit
  <2>2. CASE NicRequest
    BY <1>0, <2>2, PendingNic
  <2> QED BY <2>1, <2>2
<1>3. Enforced' = Enforced /\ Due' = Due
  BY <1>1, <1>2, EnforcedSame, DueSame
<1>4. CASE pc' # "idle"
  <2>1. before' = before
    BY <1>4 DEF NextH
  <2>2. Policy' \in [NicId -> SUBSET Atom]
    BY <1>0, PolicyTypeNext
  <2> QED BY <1>0, <1>1, <1>3, <1>4, <2>1, <2>2 DEF E!Begin, Enforced, Due
<1>5. CASE pc' = "idle"
  <2>1. PICK n \in NicId, c \in RequestConf : ActionNicUpdate(n, c)
    BY <1>5 DEF SgRequest, ActionSgAdd, ActionSgDel, ActionSgRuleAdd,
                ActionSgRuleDel, ActionSgMemberAdd, ActionSgMemberDel, Visit,
                NicRequest, ActionNicDel, ActionNicAdd, NicDel, FwNew
  <2>2. /\ UNCHANGED <<groups, rules, members, branches>>
        /\ \A m \in NicId : conf'[m].sgs = conf[m].sgs
        /\ \A m \in NicId : conf'[m].bypass = conf[m].bypass
    BY <1>0, <1>5, <2>1 DEF ActionNicUpdate, TypeOK
  <2>3. \A m \in NicId : InRules(m)' = InRules(m)
    BY <2>2, RulesSame
  <2>4. Policy' = Policy
    BY <2>2, <2>3 DEF Policy, Ingress
  <2>5. before' = before
    BY <1>0, <1>5, <2>4 DEF RefinesInv, HistoryInv, NextH
  <2> QED BY <1>0, <1>1, <1>3, <1>5, <2>4, <2>5, Unseen
<1> QED BY <1>4, <1>5

(* WaitEmptyQueue returns in NicDel: the NIC is detached, which answers    *)
(* the request or makes room for the NIC ActionNicAdd goes on to create.   *)
LEMMA SimulateNicDelDone ==
  ASSUME RefinesInv, RefinesInv', NextH, NicDelDone
  PROVE  \E n \in NicId : E!Detach(n) \/ E!Attach(n)
<1>0. TypeOK /\ TypeOK' /\ HandlerInv /\ BarrierInv /\ LiveInv
  BY DEF RefinesInv, SyncInv
<1>1. /\ pc = "nic_del" /\ queue = <<>> /\ cur \in NicId /\ todo = {}
      /\ UNCHANGED <<groups, rules, members, loadedIn>>
      /\ failed' = failed \ {cur} /\ branches' = branches \ {cur}
      /\ conf' = [conf EXCEPT ![cur] = EmptyConf]
  BY <1>0 DEF NicDelDone, HandlerInv, TypeOK, bricks
<1>2. Enforced[cur] = {}
  <2>1. running \in {Idle, Nothing}
    BY <1>0, <1>1 DEF BarrierInv
  <2>2. ~ DestroyPending
    BY <1>1, <2>1 DEF DestroyPending, Idle, Nothing
  <2>3. cur \notin live
    BY <1>0, <1>1, <2>2 DEF LiveInv
  <2>4. loadedIn[cur] = {}
    BY <1>1, <2>3 DEF RefinesInv, HushedInv
  <2> QED BY <1>1, <2>4 DEF Enforced, Ingress
<1>3. Enforced' = Enforced /\ Due' = Due
  BY <1>0, <1>1, EnforcedSame, DueSame, PendingWait
<1>4. \A m \in NicId \ {cur} : Policy'[m] = Policy[m]
  BY <1>0, <1>1, PolicyKept DEF TypeOK
<1>5. Policy'[cur] = {}
  BY <1>1, PolicyOf
<1>6. Policy' \in [NicId -> SUBSET Atom] /\ Policy \in [NicId -> SUBSET Atom]
  BY <1>0, PolicyType, PolicyTypeNext
<1>7. CASE pc' = "idle"
  <2>1. \A m \in NicId \ {cur} :
          Enforced[m] = Policy[m] \/ m \in Due \/ m \in failed
    BY <1>1, KeptNic
  <2>2. Policy' = [Policy EXCEPT ![cur] = {}]
    BY <1>1, <1>4, <1>5, <1>6
  <2>3. before' = Policy'
    BY <1>7 DEF NextH
  <2> HIDE DEF Policy
  <2>4. E!Detach(cur)
    BY <1>1, <1>2, <1>3, <1>7, <2>1, <2>2, <2>3 DEF E!Detach, E!Kept, Enforced, Due
  <2> QED BY <1>1, <2>4
<1>8. CASE pc' # "idle"
  <2>1. before' = before
    BY <1>8 DEF NextH
  <2>2. E!Attach(cur)
    BY <1>1, <1>2, <1>3, <1>4, <1>6, <1>8, <2>1 DEF E!Attach, Enforced, Due
  <2> QED BY <1>1, <2>2
<1> QED BY <1>7, <1>8

(* WaitEmptyQueue returns in NicAdd: the NIC is attached, or the request   *)
(* is answered with a failure.                                             *)
LEMMA SimulateNicNew ==
  ASSUME RefinesInv, RefinesInv', NextH, NicNewDone \/ NicNewFails
  PROVE  E!Answer \/ \E n \in NicId : E!Attach(n)
<1>0. TypeOK /\ TypeOK' /\ HandlerInv /\ BarrierInv /\ LiveInv
  BY DEF RefinesInv, SyncInv
<1>1. /\ pc = "nic_new" /\ cur \in NicId /\ cur \notin branches /\ todo = {}
      /\ UNCHANGED <<groups, rules, members, loadedIn, failed>>
      /\ cur \notin failed
  BY <1>0 DEF NicNewDone, NicNewFails, HandlerInv, LiveInv, TypeOK, bricks, model,
              RefinesInv, ConcernsInv
<1>2. Enforced[cur] = {} /\ Policy[cur] = {}
  <2>1. loadedIn[cur] = {}
    BY <1>1 DEF RefinesInv, HushedInv
  <2> QED BY <1>1, <2>1, PolicyOf DEF Enforced, Ingress
<1>3. Enforced' = Enforced /\ Due' = Due
  BY <1>0, <1>1, EnforcedSame, DueSame, PendingWait
<1>4. CASE NicNewDone
  <2>1. \A m \in NicId \ {cur} : Policy'[m] = Policy[m]
    BY <1>0, <1>1, <1>4, PolicyKept DEF NicNewDone, TypeOK
  <2>2. Policy' \in [NicId -> SUBSET Atom]
    BY <1>0, PolicyTypeNext
  <2>3. pc' # "idle" /\ before' = before
    BY <1>4 DEF NicNewDone, NextH
  <2>4. E!Attach(cur)
    BY <1>1, <1>2, <1>3, <2>1, <2>2, <2>3 DEF E!Attach, Enforced, Due
  <2> QED BY <1>1, <2>4
<1>5. CASE NicNewFails
  <2>1. Policy' = Policy
    BY <1>5, PolicySame DEF NicNewFails, model
  <2>2. pc' = "idle" /\ before' = Policy
    BY <1>5, <2>1 DEF NicNewFails, NextH
  <2>3. \A m \in NicId : Enforced[m] = Policy[m] \/ m \in Due \/ m \in failed
    BY <1>1, <1>2, KeptNic
  <2> QED BY <1>1, <1>3, <2>1, <2>2, <2>3 DEF E!Answer, E!Kept, Enforced, Due
<1> QED BY <1>4, <1>5

(* The handler rewrites firewalls: unseen until it pushes a reload, is     *)
(* refused a rule, or returns.                                             *)
LEMMA SimulateRules ==
  ASSUME RefinesInv, NextH, RulesStep \/ FwRuleRefused \/ FwReload \/ VisitDone
  PROVE  \/ UNCHANGED E!vars \/ E!Answer
         \/ \E n \in NicId : E!Refuse(n) \/ E!Prepare(n)
<1>0. TypeOK /\ HandlerInv
  BY DEF RefinesInv, SyncInv
<1>1. UNCHANGED <<groups, rules, members, conf, branches, loadedIn>> /\ pc # "idle"
  BY RulesStepFrame DEF FwRuleRefused, FwReload, VisitDone, model, bricks
<1>2. Enforced' = Enforced /\ Policy' = Policy
  BY <1>1, EnforcedSame, PolicySame
<1>3. CASE RulesStep
  <2>1. failed' = failed /\ pc' # "idle" /\ before' = before
    BY <1>3, RulesStepFrame DEF NextH
  <2>2. Due' = Due
    BY <1>0, <1>3, RulesStepFrame, PendingPush, DueSame
  <2> QED BY <1>1, <1>2, <2>1, <2>2, Unseen
<1>4. CASE FwRuleRefused
  <2>1. /\ cur \in NicId /\ failed' = failed \cup {cur} /\ pc' # "idle"
        /\ UNCHANGED <<queue, running, before>>
    BY <1>0, <1>4 DEF FwRuleRefused, NextH, HandlerInv, TypeOK
  <2>2. Due' = Due
    BY <1>0, <2>1, PendingPush, DueSame
  <2>3. E!Refuse(cur)
    BY <1>1, <1>2, <2>1, <2>2 DEF E!Refuse, Enforced, Due
  <2> QED BY <2>1, <2>3
<1>5. CASE FwReload
  <2>1. /\ cur \in NicId /\ failed' \in {failed, failed \ {cur}} /\ pc' # "idle"
        /\ before' = before
    BY <1>0, <1>5 DEF FwReload, NextH, HandlerInv, TypeOK
  <2>2. Due' = Due \cup {cur}
    BY <1>0, <1>5, <2>1, PendingReload DEF Due
  <2>3. E!Prepare(cur)
    BY <1>1, <1>2, <2>1, <2>2 DEF E!Prepare, Enforced, Due
  <2> QED BY <2>1, <2>3
<1>6. CASE VisitDone
  <2>1. /\ todo = {} /\ cur = NoNic /\ pc' = "idle" /\ before' = Policy
        /\ UNCHANGED <<queue, running, failed>>
    BY <1>0, <1>2, <1>6 DEF VisitDone, NextH, HandlerInv
  <2>2. Due' = Due
    BY <1>0, <2>1, PendingPush, DueSame
  <2>3. \A m \in NicId : Enforced[m] = Policy[m] \/ m \in Due \/ m \in failed
    BY <2>1, KeptNic, ConstantsAssumption
  <2> QED BY <1>1, <1>2, <2>1, <2>2, <2>3 DEF E!Answer, E!Kept, Enforced, Due
<1> QED BY <1>3, <1>4, <1>5, <1>6

(* The poller executes a reload: the NIC takes up its staged rules.        *)
LEMMA SimulateReload ==
  ASSUME RefinesInv, NextH, PollerFwReload
  PROVE  \E n \in NicId : E!TakeUp(n)
<1>0. TypeOK
  BY DEF RefinesInv, SyncInv
<1> DEFINE n == running.nic
<1>1. running = Call("FW_RELOAD", n) /\ n \in NicId
  BY <1>0 DEF PollerFwReload, TypeOK, Rpc, Idle, Call
<1>2. /\ UNCHANGED <<groups, rules, members, conf, branches, pc, failed, queue>>
      /\ running' = Idle
      /\ loadedIn' = [loadedIn EXCEPT ![n] = stagedIn[n]]
  BY DEF PollerFwReload, model
<1>3. n \in Due /\ Due' \in {Due, Due \ {n}}
  <2>1. n \in Due
    BY <1>1 DEF Due, ReloadPending
  <2>2. \A m \in NicId : m # n => (ReloadPending(m)' <=> ReloadPending(m))
    BY <1>0, <1>1, <1>2, PendingDone DEF Call
  <2>3. n \in Due' => Due' = Due
    BY <2>1, <2>2 DEF Due
  <2>4. n \notin Due' => Due' = Due \ {n}
    BY <2>2 DEF Due
  <2> QED BY <2>1, <2>3, <2>4
<1>4. Policy' = Policy
  BY <1>2, PolicySame
<1>5. before' = before
  BY <1>2, <1>4 DEF NextH, RefinesInv, HistoryInv
<1>6. /\ Enforced' \in [NicId -> SUBSET Atom]
      /\ Enforced'[n] = Ingress(stagedIn[n])
      /\ \A m \in NicId \ {n} : Enforced'[m] = Enforced[m]
      /\ Ingress(stagedIn[n]) \subseteq Atom
  BY <1>0, <1>1, <1>2 DEF Enforced, Ingress, TypeOK
<1>7. \/ n \in failed
      \/ pc # "idle" /\ Ingress(stagedIn[n]) \in {{}, before[n], Policy[n]}
      \/ pc = "idle" /\ Ingress(stagedIn[n]) = Policy[n]
  <2>1. CASE n \notin branches \/ conf[n].bypass
    <3>1. stagedIn[n] = {} /\ Policy[n] = {}
      BY <1>1, <2>1, PolicyOf DEF RefinesInv, HushedInv
    <3> QED BY <3>1 DEF Ingress
  <2>2. CASE n \in branches \ failed /\ ~ conf[n].bypass /\ pc = "idle"
    BY <2>2, IdleStaged DEF RefinesInv
  <2>3. CASE n \in branches \ failed /\ ~ conf[n].bypass /\ pc # "idle"
    BY <2>3 DEF RefinesInv, HistoryInv
  <2> QED BY <2>1, <2>2, <2>3
<1>8. E!TakeUp(n)
  BY <1>2, <1>3, <1>4, <1>5, <1>6, <1>7
  DEF E!TakeUp, E!Allowed, Enforced, Due
<1> QED BY <1>1, <1>8

(* The other steps of the poller.                                          *)
LEMMA SimulatePoller ==
  ASSUME RefinesInv, NextH, PollerStep
  PROVE  \/ UNCHANGED E!vars
         \/ \E n \in NicId : E!TakeUp(n) \/ E!Refuse(n) \/ E!Close(n)
<1>0. TypeOK /\ BarrierInv /\ HandlerInv
  BY DEF RefinesInv, SyncInv
<1>1. UNCHANGED <<groups, rules, members, conf, branches, pc>>
  BY DEF PollerStep, PollerPop, PollerFwNew, PollerFwReload, PollerFwReloadFails,
         PollerBrickDestroy, PollerNothing, model
<1>2. Policy' = Policy
  BY <1>1, PolicySame
<1>3. before' = before
  BY <1>1, <1>2 DEF NextH, RefinesInv, HistoryInv
<1>4. CASE PollerFwReload
  BY <1>4, SimulateReload
<1>5. CASE PollerPop
  <2>1. Due' = Due
    BY <1>0, <1>5, PendingPop, DueSame
  <2>2. Enforced' = Enforced /\ failed' = failed
    BY <1>5, EnforcedSame DEF PollerPop, bricks
  <2> QED BY <1>1, <1>2, <1>3, <2>1, <2>2, Unseen
<1>6. CASE PollerNothing
  <2>1. Due' = Due
    BY <1>0, <1>6, PendingDone, DueSame DEF PollerNothing, Call
  <2>2. Enforced' = Enforced /\ failed' = failed
    BY <1>6, EnforcedSame DEF PollerNothing, bricks
  <2> QED BY <1>1, <1>2, <1>3, <2>1, <2>2, Unseen
<1>7. CASE PollerFwReloadFails
  <2> DEFINE n == running.nic
  <2>1. running = Call("FW_RELOAD", n) /\ n \in NicId
    BY <1>0, <1>7 DEF PollerFwReloadFails, TypeOK, Rpc, Idle, Call
  <2>2. running' = Idle /\ queue' = queue /\ failed' = failed \cup {n}
    BY <1>7 DEF PollerFwReloadFails
  <2>3. \A m \in NicId : m # n => (ReloadPending(m)' <=> ReloadPending(m))
    BY <1>0, <2>1, <2>2, PendingDone DEF Call
  <2>4. Due' \in {Due, Due \ {n}}
    <3>1. n \in Due
      BY <2>1 DEF Due, ReloadPending
    <3>2. n \in Due' => Due' = Due
      BY <2>3, <3>1 DEF Due
    <3>3. n \notin Due' => Due' = Due \ {n}
      BY <2>3 DEF Due
    <3> QED BY <3>2, <3>3
  <2>5. Enforced' = Enforced
    BY <1>7, EnforcedSame DEF PollerFwReloadFails, bricks
  <2>6. E!Refuse(n)
    BY <1>1, <1>2, <1>3, <2>2, <2>4, <2>5 DEF E!Refuse, Enforced, Due
  <2> QED BY <2>1, <2>6
<1>8. CASE PollerFwNew \/ PollerBrickDestroy
  <2>1. /\ pc # "idle" /\ running.nic = cur /\ cur \in NicId
        /\ running' = Idle /\ queue' = queue /\ failed' = failed
        /\ loadedIn' = [loadedIn EXCEPT ![cur] = {}]
        /\ running.action # "FW_RELOAD"
    BY <1>0, <1>8 DEF PollerFwNew, PollerBrickDestroy, DropRules, BarrierInv,
                      HandlerInv, TypeOK
  <2>2. Due' = Due
    BY <1>0, <2>1, PendingDone, DueSame DEF Call
  <2>3. Enforced' = [Enforced EXCEPT ![cur] = {}]
    <3>1. \A m \in NicId : Ingress(loadedIn'[m]) =
                           IF m = cur THEN {} ELSE Ingress(loadedIn[m])
      BY <1>0, <2>1 DEF Ingress, TypeOK
    <3>2. Enforced' = [m \in NicId |-> Ingress(loadedIn'[m])]
      BY DEF Enforced, Ingress
    <3> QED BY <3>1, <3>2 DEF Enforced
  <2>4. E!Close(cur)
    BY <1>1, <1>2, <1>3, <2>1, <2>2, <2>3 DEF E!Close, Enforced, Due
  <2> QED BY <2>1, <2>4
<1> QED BY <1>4, <1>5, <1>6, <1>7, <1>8 DEF PollerStep

(* Every step of the program is a step of Enforcement, or unseen.          *)
LEMMA Simulation ==
  RefinesInv /\ RefinesInv' /\ [NextH]_varsH => [E!Next]_E!vars
<1> SUFFICES ASSUME RefinesInv, RefinesInv', [NextH]_varsH
             PROVE  E!Next \/ UNCHANGED E!vars
  OBVIOUS
<1>1. CASE NextH
  <2>1. CASE SgRequest \/ NicRequest
    BY <1>1, <2>1, SimulateRequest DEF E!Next
  <2>2. CASE NicDelDone
    BY <1>1, <2>2, SimulateNicDelDone DEF E!Next
  <2>3. CASE NicNewDone \/ NicNewFails
    BY <1>1, <2>3, SimulateNicNew DEF E!Next
  <2>4. CASE RulesStep \/ FwRuleRefused \/ FwReload \/ VisitDone
    BY <1>1, <2>4, SimulateRules DEF E!Next
  <2>5. CASE PollerStep
    BY <1>1, <2>5, SimulatePoller DEF E!Next
  <2> QED BY <1>1, <2>1, <2>2, <2>3, <2>4, <2>5 DEF NextH, Next, ApiStep, RulesStep
<1>2. CASE UNCHANGED varsH
  <2>1. UNCHANGED vars /\ before' = before
    BY <1>2 DEF varsH
  <2>2. Policy' = Policy
    BY <2>1, PolicySame DEF vars, model
  <2>3. Enforced' = Enforced
    BY <2>1, EnforcedSame DEF vars, bricks
  <2>4. Due' = Due
    BY <2>1 DEF Due, ReloadPending, vars
  <2> QED BY <2>1, <2>2, <2>3, <2>4, Unseen DEF vars
<1> QED BY <1>1, <1>2

(* Initial states map to initial states.                                   *)
LEMMA SimulationInit == InitH => E!Init
<1> SUFFICES ASSUME InitH PROVE E!Init
  OBVIOUS
<1>1. Policy = [n \in NicId |-> {}]
  BY DEF InitH, Init, Policy
<1>2. Enforced = [n \in NicId |-> {}]
  BY DEF InitH, Init, Enforced, Ingress
<1>3. Due = {}
  BY DEF InitH, Init, Due, ReloadPending, Idle, Call
<1> QED BY <1>1, <1>2, <1>3 DEF E!Init, E!Closed, InitH, Init, Enforced, Due

(* The rule tables that FwUpdate flushes and refills and FwAddRule extends, *)
(* the worklist of SgUpdate and SgUpdateRuleMembers and the reloads the     *)
(* poller executes late implement Enforcement: at no moment does a firewall *)
(* let in more than its policy before or after the request being served.   *)
THEOREM FirewallImplementsEnforcement == SafeSpecH => ImplementsEnforcement
<1>1. SafeSpecH => E!Init /\ [][E!Next]_E!vars
  BY RefinesAlways, Simulation, SimulationInit, PTL DEF SafeSpecH
<1> QED BY <1>1 DEF ImplementsEnforcement, E!Spec

(* Between two requests every firewall enforces exactly its policy, has a   *)
(* reload on its way, or was refused its rules.                             *)
THEOREM FirewallEnforcedAtRest == SafeSpecH => []E!EnforcedAtRest
<1>1. RefinesInv => E!EnforcedAtRest
  <2> SUFFICES ASSUME RefinesInv, pc = "idle"
               PROVE  \A n \in NicId : Enforced[n] = Policy[n] \/ n \in Due \/ n \in failed
    BY DEF E!EnforcedAtRest, E!Kept, Enforced, Due
  <2>1. todo = {} /\ cur = NoNic
    BY DEF RefinesInv, SyncInv, HandlerInv
  <2> QED BY <2>1, KeptNic, ConstantsAssumption
<1> QED BY <1>1, RefinesAlways, PTL
=============================================================================
