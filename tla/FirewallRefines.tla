-------------------------- MODULE FirewallRefines --------------------------
(***************************************************************************)
(* Firewall implements Enforcement.  The one thing Enforcement remembers   *)
(* and the program does not is what was asked of the NICs before the       *)
(* request being served; a history variable holds it.                      *)
(***************************************************************************)
EXTENDS Firewall

VARIABLE before   \* history: Policy when the last request was answered

(* What the model asks of the NICs found in Graph::vnis_; a NIC that       *)
(* bypasses the filtering has no rule.                                     *)
Policy ==
  [n \in NicId |-> IF n \in branches /\ ~ conf[n].bypass
                   THEN Ingress(InRules(n)) ELSE {}]

varsH == <<vars, before>>

InitH == Init /\ before = [n \in NicId |-> {}]
NextH == Next /\ before' = IF pc' = "idle" THEN Policy' ELSE before

SafeSpecH == InitH /\ [][NextH]_varsH

(* The threads are as fair as in Firewall; the history never blocks them.  *)
SpecH == SafeSpecH /\ WF_vars(ApiStep) /\ WF_vars(PollerStep)

E == INSTANCE Enforcement WITH
       Nic <- NicId, Source <- Atom,
       serving <- pc # "idle",
       policy <- Policy,
       previous <- before,
       enforced <- [n \in NicId |-> Ingress(loadedIn[n])],
       due <- {n \in NicId : ReloadPending(n)},
       refused <- failed

(* The inductive invariant behind the refinement, with SyncInv.  A NIC     *)
(* without a firewall, outside vnis_ or that bypasses the filtering has no *)
(* rule; a reload or a refusal concerns a NIC of vnis_; and what is staged *)
(* while a request is served is nothing, the rules before or those after.  *)
HushedInv ==
  \A n \in NicId :
    (n \notin live \/ n \notin branches \/ conf[n].bypass) =>
      stagedIn[n] = {} /\ loadedIn[n] = {}

ConcernsInv ==
  failed \subseteq branches /\ \A n \in NicId : ReloadPending(n) => n \in branches

HistoryInv ==
  /\ before \in [NicId -> SUBSET Atom]
  /\ pc = "idle" => before = Policy
  /\ pc # "idle" =>
       \A n \in branches \ failed :
         ~ conf[n].bypass =>
           Ingress(stagedIn[n]) \in {{}, before[n], Policy[n]}

RefinesInv == SyncInv /\ HushedInv /\ ConcernsInv /\ HistoryInv

(* Flushing and refilling tables, the worklist of SgUpdate and             *)
(* SgUpdateRuleMembers, and reloads executed late by the poller implement  *)
(* Enforcement: at no moment does a firewall let in more than its policy   *)
(* before or after the request being served, and an answered request is    *)
(* never undone by a reload that was on its way.                           *)
ImplementsEnforcement == E!Spec
=============================================================================
