--------------------------- MODULE FirewallProofs ---------------------------
(***************************************************************************)
(* Proofs about Firewall, for any sets of NICs, groups, rules, addresses:  *)
(* the parts of the inductive invariant SyncInv that concern the rules     *)
(* staged and loaded, then the theorems that follow from it.               *)
(***************************************************************************)
EXTENDS FirewallControlProofs

-----------------------------------------------------------------------------
(* What a change of the groups does to the rules of a NIC.                 *)

(* What an atom of in_rules is.                                            *)
LEMMA InRulesMember ==
  ASSUME NEW n, NEW a
  PROVE  /\ a \in InRules(n) <=>
              \E t \in conf[n].sgs : \E r \in rules[t] :
                t \in groups /\ a \in FwBuildRule(r)
         /\ a \in InRules(n)' <=>
              \E t \in conf'[n].sgs : \E r \in rules'[t] :
                t \in groups' /\ a \in FwBuildRule(r)'
BY DEF InRules, FwBuildSg

(* The sources of the rules on groups other than s are as before.          *)
LEMMA SourcesFrame ==
  ASSUME NEW r \in Rule, NEW s, RemoteSg[r] # s,
         \A t \in SgId : t # s => (t \in groups' <=> t \in groups),
         \A t \in SgId : t # s => members'[t] = members[t]
  PROVE  FwBuildRule(r)' = FwBuildRule(r)
<1>1. RemoteSg[r] # NoSg => RemoteSg[r] \in SgId
  BY ConstantsAssumption
<1> QED BY <1>1 DEF FwBuildRule, Sources

(* A missing group and a group without members are the same to a rule.     *)
LEMMA SourcesSameMembers ==
  ASSUME NEW r \in Rule, TypeOK, AbsentGroupsEmpty, AbsentGroupsEmpty',
         members' = members
  PROVE  FwBuildRule(r)' = FwBuildRule(r)
<1>1. RemoteSg[r] # NoSg => RemoteSg[r] \in SgId
  BY ConstantsAssumption
<1> QED BY <1>1 DEF FwBuildRule, Sources, AbsentGroupsEmpty

(* in_rules only depends on the groups of the NIC and their sources.       *)
LEMMA InRulesFrame ==
  ASSUME NEW n, conf'[n].sgs = conf[n].sgs,
         \A t \in conf[n].sgs : \A r :
           (t \in groups /\ r \in rules[t]) <=> (t \in groups' /\ r \in rules'[t]),
         \A t \in conf[n].sgs \cap groups : \A r \in rules[t] :
           FwBuildRule(r)' = FwBuildRule(r)
  PROVE  InRules(n)' = InRules(n)
<1>1. ASSUME NEW a PROVE a \in InRules(n)' <=> a \in InRules(n)
  <2>1. a \in InRules(n) => a \in InRules(n)'
    BY InRulesMember
  <2>2. a \in InRules(n)' => a \in InRules(n)
    BY InRulesMember
  <2> QED BY <2>1, <2>2
<1> QED BY <1>1

(* The NICs Api::SgUpdate and Api::SgUpdateRuleMembers leave out keep      *)
(* their rules; when FwAddRule is used the others gain exactly one rule.   *)
LEMMA SgChange ==
  ASSUME TypeOK, AbsentGroupsEmpty, AbsentGroupsEmpty', SgRequest,
         NEW n \in nics
  PROVE  /\ ~ Visiting(n)' => InRules(n)' = InRules(n)
         /\ (Visiting(n)' /\ req'.rule # NoRule) =>
              InRules(n)' = InRules(n) \cup FwBuildRule(req.rule)'
<1> PICK s \in SgId :
      \/ \E rs \in SUBSET Rule, ms \in SUBSET Ip : ActionSgAdd(s, rs, ms)
      \/ ActionSgDel(s)
      \/ \E r \in Rule : ActionSgRuleAdd(s, r) \/ ActionSgRuleDel(s, r)
      \/ \E ip \in Ip : ActionSgMemberAdd(s, ip) \/ ActionSgMemberDel(s, ip)
  BY DEF SgRequest
<1> DEFINE Goal == /\ ~ Visiting(n)' => InRules(n)' = InRules(n)
                   /\ (Visiting(n)' /\ req'.rule # NoRule) =>
                        InRules(n)' = InRules(n) \cup FwBuildRule(req.rule)'
<1>0. n \in NicId /\ conf[n].sgs \subseteq SgId
  BY DEF TypeOK, NicConf
<1>1. ASSUME SgUpdate(s) \subseteq todo', ~ Visiting(n)', conf' = conf
      PROVE  s \notin conf[n].sgs
  BY <1>1 DEF SgUpdate, Visiting
<1>2. ASSUME SgUpdateRuleMembers(s, groups', rules') \subseteq todo',
             ~ Visiting(n)', groups' \subseteq SgId,
             NEW t \in conf[n].sgs \cap groups', NEW r \in rules'[t]
      PROVE  RemoteSg[r] # s
  <2>1. SUFFICES ASSUME RemoteSg[r] = s PROVE FALSE
    OBVIOUS
  <2>2. <<t, n>> \in SgUpdate(t) /\ t \in SgId
    BY <1>2 DEF SgUpdate
  <2>3. <<t, n>> \in SgUpdateRuleMembers(s, groups', rules')
    BY <1>2, <2>1, <2>2 DEF SgUpdateRuleMembers
  <2> QED BY <1>2, <2>2, <2>3 DEF Visiting
<1>3. ASSUME NEW visits, Visit(visits, NoRule) PROVE todo' = visits /\ req'.rule = NoRule
  BY <1>3, RequestFields DEF Visit
<1>4. ASSUME SgUpdate(s) \cup SgUpdateRuleMembers(s, groups', rules') = todo',
             ~ Visiting(n)', UNCHANGED <<nics, conf>>, groups' \subseteq SgId,
             \A t \in SgId : t # s => (t \in groups' <=> t \in groups),
             \A t \in SgId : t # s => rules'[t] = rules[t],
             \A t \in SgId : t # s => members'[t] = members[t]
      PROVE  InRules(n)' = InRules(n)
  <2>1. s \notin conf[n].sgs
    BY <1>1, <1>4
  <2>2. \A t \in conf[n].sgs : \A r :
          (t \in groups /\ r \in rules[t]) <=> (t \in groups' /\ r \in rules'[t])
    BY <1>0, <1>4, <2>1
  <2>3. \A t \in conf[n].sgs \cap groups : \A r \in rules[t] :
          FwBuildRule(r)' = FwBuildRule(r)
    <3> SUFFICES ASSUME NEW t \in conf[n].sgs \cap groups, NEW r \in rules[t]
                 PROVE  FwBuildRule(r)' = FwBuildRule(r)
      OBVIOUS
    <3>1. RemoteSg[r] # s /\ r \in Rule
      BY <1>0, <1>2, <1>4, <2>2 DEF TypeOK
    <3> QED BY <1>4, <3>1, SourcesFrame
  <2> QED BY <1>4, <2>2, <2>3, InRulesFrame
<1>5. ASSUME NEW rs \in SUBSET Rule, NEW ms \in SUBSET Ip, ActionSgAdd(s, rs, ms)
      PROVE  Goal
  BY <1>3, <1>4, <1>5 DEF ActionSgAdd, TypeOK
<1>6. CASE ActionSgDel(s)
  BY <1>3, <1>4, <1>6 DEF ActionSgDel, TypeOK
<1>7. ASSUME NEW r \in Rule, ActionSgRuleAdd(s, r) PROVE Goal
  <2>1. todo' = SgUpdate(s) /\ req'.rule = r
    BY <1>7, RequestFields DEF ActionSgRuleAdd, Visit
  <2>3. \A t \in SgId : \A x \in rules[t] : FwBuildRule(x)' = FwBuildRule(x)
    BY <1>7, SourcesSameMembers DEF ActionSgRuleAdd, TypeOK
  <2>4. ASSUME ~ Visiting(n)' PROVE InRules(n)' = InRules(n)
    <3>1. s \notin conf[n].sgs
      BY <1>1, <1>7, <2>1, <2>4 DEF ActionSgRuleAdd
    <3>2. \A t \in conf[n].sgs : \A x :
            (t \in groups /\ x \in rules[t]) <=> (t \in groups' /\ x \in rules'[t])
      BY <1>0, <1>7, <3>1 DEF ActionSgRuleAdd, TypeOK
    <3> QED BY <1>0, <1>7, <2>3, <3>2, InRulesFrame DEF ActionSgRuleAdd
  <2>5. ASSUME Visiting(n)'
        PROVE  InRules(n)' = InRules(n) \cup FwBuildRule(r)'
    <3>1. s \in conf[n].sgs /\ conf' = conf
      BY <1>7, <2>1, <2>5 DEF ActionSgRuleAdd, SgUpdate, Visiting
    <3>2. \A t \in SgId : \A x : (t \in groups' /\ x \in rules'[t]) <=>
            ((t \in groups /\ x \in rules[t]) \/ (t = s /\ x = r))
      BY <1>7 DEF ActionSgRuleAdd, TypeOK, AbsentGroupsEmpty
    <3>3. ASSUME NEW a, a \in InRules(n)' PROVE a \in InRules(n) \cup FwBuildRule(r)'
      <4>1. PICK t \in conf[n].sgs : \E x \in rules'[t] :
              t \in groups' /\ a \in FwBuildRule(x)'
        BY <3>1, <3>3, InRulesMember
      <4>2. PICK x \in rules'[t] : t \in groups' /\ a \in FwBuildRule(x)'
        BY <4>1
      <4>3. CASE t \in groups /\ x \in rules[t]
        BY <1>0, <2>3, <4>2, <4>3, InRulesMember
      <4>4. CASE x = r
        BY <4>2, <4>4
      <4> QED BY <1>0, <3>2, <4>2, <4>3, <4>4
    <3>4. ASSUME NEW a, a \in InRules(n) PROVE a \in InRules(n)'
      <4>1. PICK t \in conf[n].sgs : \E x \in rules[t] :
              t \in groups /\ a \in FwBuildRule(x)
        BY <3>4, InRulesMember
      <4>2. PICK x \in rules[t] : t \in groups /\ a \in FwBuildRule(x)
        BY <4>1
      <4>3. x \in rules'[t] /\ t \in groups' /\ a \in FwBuildRule(x)'
        BY <1>0, <2>3, <3>2, <4>2
      <4> QED BY <3>1, <4>3, InRulesMember
    <3>5. ASSUME NEW a, a \in FwBuildRule(r)' PROVE a \in InRules(n)'
      <4>1. r \in rules'[s] /\ s \in groups' /\ s \in conf'[n].sgs
        BY <3>1, <3>2
      <4> QED BY <3>5, <4>1, InRulesMember
    <3> QED BY <3>3, <3>4, <3>5
  <2> QED BY <2>1, <2>4, <2>5
<1>8. ASSUME NEW r \in Rule, ActionSgRuleDel(s, r) PROVE Goal
  <2>1. todo' = SgUpdate(s) /\ req'.rule = NoRule
    BY <1>3, <1>8 DEF ActionSgRuleDel
  <2>2. ASSUME ~ Visiting(n)' PROVE InRules(n)' = InRules(n)
    <3>1. s \notin conf[n].sgs
      BY <1>1, <1>8, <2>1, <2>2 DEF ActionSgRuleDel
    <3>2. \A t \in conf[n].sgs : groups' = groups /\ rules'[t] = rules[t]
      BY <1>0, <1>8, <3>1 DEF ActionSgRuleDel, TypeOK
    <3>3. \A t \in SgId : \A x \in rules[t] : FwBuildRule(x)' = FwBuildRule(x)
      BY <1>8, SourcesSameMembers DEF ActionSgRuleDel, TypeOK
    <3> QED BY <1>0, <1>8, <3>2, <3>3, InRulesFrame DEF ActionSgRuleDel
  <2> QED BY <2>1, <2>2
<1>9. ASSUME NEW ip \in Ip, ActionSgMemberAdd(s, ip) \/ ActionSgMemberDel(s, ip)
      PROVE  Goal
  <2>1. /\ todo' = SgUpdateRuleMembers(s, groups', rules') /\ req'.rule = NoRule
        /\ rules' = rules /\ conf' = conf /\ groups' \subseteq SgId
        /\ groups \subseteq groups'
        /\ \A t \in SgId : t # s => (t \in groups' <=> t \in groups)
        /\ \A t \in SgId : t # s => members'[t] = members[t]
    BY <1>3, <1>9 DEF ActionSgMemberAdd, ActionSgMemberDel, TypeOK
  <2>2. ASSUME ~ Visiting(n)' PROVE InRules(n)' = InRules(n)
    <3>1. \A t \in SgId : \A x :
            (t \in groups /\ x \in rules[t]) <=> (t \in groups' /\ x \in rules'[t])
      BY <2>1 DEF AbsentGroupsEmpty
    <3>2. ASSUME NEW t \in conf[n].sgs \cap groups, NEW x \in rules[t]
          PROVE  FwBuildRule(x)' = FwBuildRule(x)
      <4>1. RemoteSg[x] # s /\ x \in Rule
        BY <1>0, <1>2, <2>1, <2>2 DEF TypeOK
      <4> QED BY <2>1, <4>1, SourcesFrame
    <3> QED BY <1>0, <2>1, <3>1, <3>2, InRulesFrame
  <2> QED BY <2>1, <2>2
<1> QED BY <1>5, <1>6, <1>7, <1>8, <1>9

-----------------------------------------------------------------------------
(* Staged and loaded rules.                                                *)

(* Ingress distributes over union.                                         *)
LEMMA IngressUnion ==
  ASSUME NEW A, NEW B
  PROVE  Ingress(A \cup B) = Ingress(A) \cup Ingress(B)
BY DEF Ingress

(* A NIC is visited when a pair of the worklist names it.                  *)
LEMMA VisitingDef ==
  ASSUME TypeOK, NEW v \in todo
  PROVE  v[2] \in NicId /\ Visiting(v[2])
<1>1. v = <<v[1], v[2]>> /\ v[1] \in SgId \cup {NoSg} /\ v[2] \in NicId
  BY DEF TypeOK
<1>2. <<v[1], v[2]>> \in todo
  BY <1>1
<1> QED BY <1>1, <1>2 DEF Visiting

(* Nothing is staged nor loaded at the start.                              *)
LEMMA SyncInit == Init => StagedInv /\ LoadedInv
BY DEF Init, StagedInv, StagedOk, LoadedInv

(* Requests on groups put every NIC whose staged rules they make wrong on  *)
(* the worklist.                                                           *)
LEMMA StagedSg ==
  TypeOK /\ ControlInv /\ ControlInv' /\ StagedInv /\ SgRequest => StagedInv'
<1> SUFFICES ASSUME TypeOK, ControlInv, ControlInv', StagedInv, SgRequest
             PROVE  StagedInv'
  OBVIOUS
<1>1. /\ pc = "idle" /\ pc' = "visit" /\ cur' = NoNic /\ cur = NoNic
      /\ branches' = branches /\ conf' = conf /\ stagedIn' = stagedIn
      /\ failed' = failed
  BY DEF SgRequest, ActionSgAdd, ActionSgDel, ActionSgRuleAdd, ActionSgRuleDel,
         ActionSgMemberAdd, ActionSgMemberDel, Visit, Ready, bricks,
         ControlInv, HandlerInv
<1>2. todo = {} /\ branches = nics /\ branches \subseteq NicId /\ NoNic \notin branches
  BY <1>1, ConstantsAssumption DEF ControlInv, HandlerInv, OwnedInv, TypeOK
<1> SUFFICES ASSUME NEW n \in branches, ~ conf[n].bypass, n \notin failed
             PROVE  /\ ~ Visiting(n)' => StagedRight(n)'
                    /\ (req'.rule # NoRule /\ Visiting(n)') => StagedLacksRule(n)'
  BY <1>1, <1>2 DEF StagedInv, StagedOk
<1>3. StagedRight(n)
  BY <1>1, <1>2 DEF StagedInv, StagedOk, Visiting
<1>4. /\ ~ Visiting(n)' => InRules(n)' = InRules(n)
      /\ (Visiting(n)' /\ req'.rule # NoRule) =>
           InRules(n)' = InRules(n) \cup FwBuildRule(req.rule)'
  BY <1>2, SgChange DEF ControlInv
<1>5. ~ Visiting(n)' => StagedRight(n)'
  BY <1>1, <1>3, <1>4 DEF StagedRight, Ingress
<1>6. (req'.rule # NoRule /\ Visiting(n)') => StagedLacksRule(n)'
  BY <1>1, <1>3, <1>4, IngressUnion DEF StagedRight, StagedLacksRule, Ingress
<1> QED BY <1>5, <1>6

(* Requests on groups keep the loading invariant.                          *)
LEMMA LoadedSg ==
  TypeOK /\ ControlInv /\ LoadedInv /\ SgRequest => LoadedInv'
<1> SUFFICES ASSUME TypeOK, ControlInv, LoadedInv, SgRequest PROVE LoadedInv'
  OBVIOUS
<1>1. /\ pc = "idle" /\ cur' = cur /\ running' = running /\ queue' = queue
      /\ branches' = branches /\ conf' = conf /\ failed' = failed
      /\ UNCHANGED <<stagedIn, stagedOut, loadedIn, loadedOut>>
  BY DEF SgRequest, ActionSgAdd, ActionSgDel, ActionSgRuleAdd, ActionSgRuleDel,
         ActionSgMemberAdd, ActionSgMemberDel, Visit, Ready, bricks
<1>2. todo = {}
  BY <1>1 DEF ControlInv, HandlerInv
<1> QED BY <1>1, <1>2 DEF LoadedInv, Loaded, Visiting, ReloadPending

(* The rules of a NIC do not change when the model does not.               *)
LEMMA RulesSame ==
  ASSUME UNCHANGED <<groups, rules, members>>, NEW n,
         conf'[n].sgs = conf[n].sgs
  PROVE  /\ InRules(n)' = InRules(n)
         /\ StagedRight(n)' <=>
              Ingress(stagedIn'[n]) = Ingress(InRules(n))
         /\ StagedLacksRule(n)' <=>
              Ingress(stagedIn'[n]) \cup Ingress(FwBuildRule(req'.rule))
                = Ingress(InRules(n))
<1>1. \A r : FwBuildRule(r)' = FwBuildRule(r)
  BY DEF FwBuildRule, Sources
<1>2. InRules(n)' = InRules(n)
  BY <1>1, InRulesFrame
<1> QED BY <1>1, <1>2 DEF StagedRight, StagedLacksRule, Ingress

(* Taking a visit from the worklist only concerns its own NIC.             *)
LEMMA TodoMinus ==
  ASSUME NEW v, todo' = todo \ {v}, NEW n, n # v[2]
  PROVE  Visiting(n)' <=> Visiting(n)
BY DEF Visiting

(* Requests on NICs keep the staging invariant.                            *)
LEMMA StagedNic ==
  TypeOK /\ ControlInv /\ StagedInv /\ NicRequest => StagedInv'
<1> SUFFICES ASSUME TypeOK, ControlInv, StagedInv, NEW n \in NicId,
                    \/ ActionNicDel(n)
                    \/ \E c \in RequestConf :
                         ActionNicAdd(n, c) \/ ActionNicUpdate(n, c)
             PROVE  StagedInv'
  BY DEF NicRequest
<1>0. pc = "idle" /\ cur = NoNic /\ todo = {} /\ req.rule = NoRule /\ n # NoNic
  BY ConstantsAssumption
  DEF ActionNicDel, ActionNicAdd, ActionNicUpdate, Ready, ControlInv, HandlerInv
<1>1. ASSUME NEW m \in branches, ~ conf[m].bypass, m \notin failed
      PROVE  StagedRight(m)
  <2>1. m # cur
    BY <1>0, ConstantsAssumption DEF TypeOK
  <2> QED BY <1>0, <1>1, <2>1 DEF StagedInv, StagedOk, Visiting
<1>2. ASSUME UNCHANGED <<groups, rules, members, conf, branches, stagedIn, todo,
                         failed>>,
             pc' \in {"nic_del", "nic_new"}, req'.rule = NoRule
      PROVE  StagedInv'
  <2>1. \A m : StagedRight(m)' <=> StagedRight(m)
    BY <1>2, RulesSame DEF StagedRight
  <2> QED BY <1>1, <1>2, <2>1 DEF StagedInv, StagedOk
<1>3. CASE ActionNicDel(n)
  BY <1>2, <1>3, RequestFields DEF ActionNicDel, NicDel, model, bricks
<1>4. ASSUME NEW c, ActionNicAdd(n, c) PROVE StagedInv'
  BY <1>2, <1>4, RequestFields DEF ActionNicAdd, NicDel, FwNew, model, bricks
<1>5. ASSUME NEW c, ActionNicUpdate(n, c) PROVE StagedInv'
  <2>1. /\ UNCHANGED <<groups, rules, members, branches, stagedIn, cur, req, failed>>
        /\ \A m \in NicId : m # n => conf'[m] = conf[m]
        /\ conf'[n].bypass = conf[n].bypass
    BY <1>5 DEF ActionNicUpdate, bricks, TypeOK
  <2>2. pc' \in {"idle", "visit"}
    BY <1>0, <1>5 DEF ActionNicUpdate
  <2>3. ASSUME NEW m \in branches', ~ conf'[m].bypass, m \notin failed', ~ Visiting(m)'
        PROVE  StagedRight(m)'
    <3>1. m \in branches /\ m \in NicId /\ ~ conf[m].bypass /\ m \notin failed
      BY <2>1, <2>3 DEF TypeOK
    <3>2. StagedRight(m)
      BY <1>1, <3>1
    <3>3. conf'[m].sgs = conf[m].sgs
      <4>1. CASE m # n
        BY <2>1, <3>1, <4>1
      <4>2. CASE m = n /\ c.sgs = conf[n].sgs
        BY <1>5, <3>1, <4>2 DEF ActionNicUpdate, TypeOK
      <4>3. CASE m = n /\ c.sgs # conf[n].sgs
        BY <1>5, <2>3, <4>3 DEF ActionNicUpdate, Visiting
      <4> QED BY <4>1, <4>2, <4>3
    <3> QED BY <2>1, <3>2, <3>3, RulesSame DEF StagedRight
  <2> QED BY <1>0, <2>1, <2>2, <2>3, ConstantsAssumption DEF StagedInv, StagedOk, TypeOK
<1> QED BY <1>3, <1>4, <1>5

(* The steps of the API thread keep the staging invariant.                 *)
LEMMA StagedApi ==
  TypeOK /\ ControlInv /\ StagedInv /\ ApiStep => StagedInv'
<1> SUFFICES ASSUME TypeOK, ControlInv, StagedInv, ApiStep PROVE StagedInv'
  OBVIOUS
<1>0. NoNic \notin branches /\ branches \subseteq NicId
  BY ConstantsAssumption DEF TypeOK
<1>1. ASSUME todo = {}, req.rule = NoRule, pc \notin InFirewall,
             UNCHANGED <<groups, rules, members, stagedIn>>,
             pc' \notin InFirewall, req'.rule = NoRule,
             \A m \in branches' : ~ Visiting(m)' =>
                m \in branches /\ m # cur /\ conf'[m] = conf[m],
             failed \subseteq failed' \cup {cur}
      PROVE  StagedInv'
  <2>1. ASSUME NEW m \in branches', ~ conf'[m].bypass, m \notin failed', ~ Visiting(m)'
        PROVE  StagedRight(m)'
    <3>1. m \in branches /\ m # cur /\ conf'[m] = conf[m] /\ m \notin failed
      BY <1>1, <2>1
    <3>2. StagedRight(m)
      BY <1>1, <2>1, <3>1 DEF StagedInv, StagedOk, Visiting
    <3> QED BY <1>1, <3>1, <3>2, RulesSame DEF StagedRight
  <2> QED BY <1>1, <2>1 DEF StagedInv, StagedOk, InFirewall
<1>2. CASE NicDelDone
  BY <1>0, <1>1, <1>2, RequestFields
  DEF NicDelDone, FwNew, bricks, InFirewall, ControlInv, HandlerInv, TypeOK
<1>3. CASE NicNewDone
  <2>1. /\ todo = {} /\ req.rule = NoRule /\ req' = req
        /\ pc \notin InFirewall /\ pc' \notin InFirewall
    BY <1>3 DEF NicNewDone, InFirewall, ControlInv, HandlerInv
  <2>2. \A m \in branches' : ~ Visiting(m)' =>
          m \in branches /\ m # cur /\ conf'[m] = conf[m]
    BY <1>0, <1>3 DEF NicNewDone, Visiting, TypeOK
  <2> QED BY <1>1, <1>3, <2>1, <2>2 DEF NicNewDone, bricks
<1>4. CASE NicNewFails
  <2>1. cur \notin branches
    BY <1>4 DEF NicNewFails, ControlInv, HandlerInv, OwnedInv
  <2>2. todo = {} /\ req.rule = NoRule /\ pc \notin InFirewall /\ pc' \notin InFirewall
    BY <1>4 DEF NicNewFails, InFirewall, ControlInv, HandlerInv
  <2> QED BY <1>1, <1>4, <2>1, <2>2, RequestFields DEF NicNewFails, model, bricks
<1>5. CASE VisitDone
  <2>1. cur = NoNic /\ todo = {} /\ pc = "visit" /\ pc' = "idle"
        /\ req'.rule = NoRule
    BY <1>5, RequestFields DEF VisitDone, ControlInv, HandlerInv
  <2>2. ASSUME NEW m \in branches', ~ conf'[m].bypass, m \notin failed'
        PROVE  StagedRight(m)'
    <3>1. StagedRight(m)
      BY <1>0, <1>5, <2>1, <2>2 DEF VisitDone, StagedInv, StagedOk, Visiting
    <3> QED BY <1>5, <3>1, RulesSame DEF VisitDone, bricks, StagedRight
  <2> QED BY <2>1, <2>2 DEF StagedInv, StagedOk
<1>6. ASSUME NEW v \in todo, VisitSkip(v) PROVE StagedInv'
  <2>1. /\ UNCHANGED <<groups, rules, members, conf, branches, stagedIn, pc, cur,
                       req, failed>>
        /\ pc = "visit" /\ cur = NoNic
    BY <1>6 DEF VisitSkip, model, bricks, ControlInv, HandlerInv
  <2>2. ASSUME NEW m \in branches, ~ conf[m].bypass, m \notin failed
        PROVE  /\ ~ Visiting(m)' => StagedRight(m)
               /\ (req.rule # NoRule /\ Visiting(m)') => StagedLacksRule(m)
    <3>1. m # cur
      BY <1>0, <2>1
    <3>2. CASE m = v[2]
      <4>1. Visiting(m)
        BY <3>2, VisitingDef
      <4>2. req.rule # NoRule /\ FwBuildRule(req.rule) = {}
        BY <1>6, <2>2, <3>2 DEF VisitSkip, Skipped
      <4>3. StagedLacksRule(m)
        BY <2>2, <4>1, <4>2 DEF StagedInv, StagedOk
      <4> QED BY <4>2, <4>3 DEF StagedLacksRule, StagedRight, Ingress
    <3>3. CASE m # v[2]
      <4>1. Visiting(m)' <=> Visiting(m)
        BY <1>6, <3>3, TodoMinus DEF VisitSkip
      <4> QED BY <2>2, <3>1, <4>1 DEF StagedInv, StagedOk
    <3> QED BY <3>2, <3>3
  <2>3. \A m : /\ StagedRight(m)' <=> StagedRight(m)
               /\ StagedLacksRule(m)' <=> StagedLacksRule(m)
    BY <2>1, RulesSame DEF StagedRight, StagedLacksRule
  <2> QED BY <1>0, <2>1, <2>2, <2>3 DEF StagedInv, StagedOk
<1> PICK nic : nic = cur
  OBVIOUS
<1> DEFINE Rewriting ==
      UNCHANGED <<groups, rules, members, conf, branches, req>>
<1>7. ASSUME NEW v \in todo, FwUpdateFlush(v) PROVE StagedInv'
  <2>1. /\ Rewriting /\ failed' = failed /\ req.rule = NoRule
        /\ pc' = "fw_in" /\ cur' = v[2] /\ cur = NoNic
        /\ stagedIn' = [stagedIn EXCEPT ![v[2]] = {}]
    BY <1>7 DEF FwUpdateFlush, model, ControlInv, HandlerInv
  <2>2. ASSUME NEW m \in branches, m # v[2], ~ conf[m].bypass, m \notin failed,
               ~ Visiting(m)'
        PROVE  StagedRight(m)'
    <3>1. ~ Visiting(m) /\ m # cur
      BY <1>0, <1>7, <2>1, <2>2, TodoMinus DEF FwUpdateFlush
    <3>2. StagedRight(m)
      BY <2>2, <3>1 DEF StagedInv, StagedOk
    <3>3. stagedIn'[m] = stagedIn[m]
      BY <1>0, <2>1, <2>2 DEF TypeOK
    <3> QED BY <2>1, <3>2, <3>3, RulesSame DEF StagedRight
  <2>3. v[2] \in branches => stagedIn'[v[2]] = {}
    BY <1>0, <2>1 DEF TypeOK
  <2> QED BY <2>1, <2>2, <2>3 DEF StagedInv, StagedOk
<1>8. ASSUME Rewriting, todo' = todo, cur \in NicId, cur' \in {cur, NoNic},
             failed \subseteq failed' \cup {cur}, pc' \in Pcs,
             \A m \in NicId : m # cur => stagedIn'[m] = stagedIn[m],
             (cur \in branches /\ ~ conf[cur].bypass) => StagedOk(nic)'
      PROVE  StagedInv'
  <2>1. ASSUME NEW m \in branches, m # cur, ~ conf[m].bypass
        PROVE  StagedOk(m)'
    <3>1. StagedOk(m)
      BY <2>1 DEF StagedInv
    <3>2. /\ StagedRight(m)' <=> StagedRight(m)
          /\ StagedLacksRule(m)' <=> StagedLacksRule(m)
      BY <1>0, <1>8, <2>1, RulesSame DEF StagedRight, StagedLacksRule
    <3>3. Visiting(m)' <=> Visiting(m)
      BY <1>8 DEF Visiting
    <3>4. m # cur'
      BY <1>0, <1>8, <2>1
    <3> QED BY <1>8, <2>1, <3>1, <3>2, <3>3, <3>4 DEF StagedOk
  <2> QED BY <1>8, <2>1 DEF StagedInv
<1>9. CASE FwUpdateIn
  <2>1. /\ Rewriting /\ UNCHANGED <<todo, cur, failed>> /\ cur \in NicId
        /\ pc = "fw_in" /\ pc' = "fw_out" /\ req.rule = NoRule
        /\ stagedIn' = [stagedIn EXCEPT ![cur] = @ \cup InRules(cur)]
    BY <1>9 DEF FwUpdateIn, model, ControlInv, HandlerInv, TypeOK
  <2>2. ASSUME cur \in branches, ~ conf[cur].bypass PROVE StagedRight(nic)'
    <3>1. stagedIn[cur] = {}
      BY <2>1, <2>2 DEF StagedInv, StagedOk
    <3>2. stagedIn'[cur] = InRules(cur)
      BY <2>1, <3>1 DEF TypeOK
    <3> QED BY <2>1, <3>2, RulesSame
  <2>3. (cur \in branches /\ ~ conf[cur].bypass) => StagedOk(nic)'
    BY <2>1, <2>2 DEF StagedOk
  <2>4. \A m \in NicId : m # cur => stagedIn'[m] = stagedIn[m]
    BY <2>1 DEF TypeOK
  <2> QED BY <1>8, <2>1, <2>3, <2>4 DEF Pcs
<1>10. CASE FwUpdateOut
  <2>1. /\ Rewriting /\ UNCHANGED <<todo, cur, failed, stagedIn>> /\ cur \in NicId
        /\ pc = "fw_out" /\ pc' = "fw_reload" /\ req.rule = NoRule
    BY <1>10 DEF FwUpdateOut, model, ControlInv, HandlerInv, TypeOK
  <2>2. ASSUME cur \in branches, ~ conf[cur].bypass PROVE StagedRight(nic)'
    <3>1. StagedRight(cur)
      BY <2>1, <2>2 DEF StagedInv, StagedOk
    <3> QED BY <2>1, <3>1, RulesSame DEF StagedRight
  <2>3. (cur \in branches /\ ~ conf[cur].bypass) => StagedOk(nic)'
    BY <2>1, <2>2 DEF StagedOk
  <2> QED BY <1>8, <2>1, <2>3 DEF Pcs
<1>11. ASSUME NEW v \in todo, FwAddRuleFlush(v) PROVE StagedInv'
  <2>1. /\ Rewriting /\ UNCHANGED <<failed, stagedIn>> /\ req.rule # NoRule
        /\ pc' = "add_rule" /\ cur' = v[2] /\ cur = NoNic
    BY <1>11 DEF FwAddRuleFlush, model, ControlInv, HandlerInv
  <2>2. ASSUME NEW m \in branches, ~ conf[m].bypass, m \notin failed
        PROVE  /\ m = v[2] => StagedLacksRule(m)'
               /\ (m # v[2] /\ ~ Visiting(m)') => StagedRight(m)'
               /\ (m # v[2] /\ Visiting(m)') => StagedLacksRule(m)'
    <3>1. m # cur
      BY <1>0, <2>1
    <3>2. m # v[2] => (Visiting(m)' <=> Visiting(m))
      BY <1>11, TodoMinus DEF FwAddRuleFlush
    <3>3. m = v[2] => Visiting(m)
      BY VisitingDef
    <3>4. /\ Visiting(m) => StagedLacksRule(m)
          /\ ~ Visiting(m) => StagedRight(m)
      BY <2>1, <2>2, <3>1 DEF StagedInv, StagedOk
    <3>5. /\ StagedRight(m)' <=> StagedRight(m)
          /\ StagedLacksRule(m)' <=> StagedLacksRule(m)
      BY <2>1, RulesSame DEF StagedRight, StagedLacksRule
    <3> QED BY <3>2, <3>3, <3>4, <3>5
  <2> QED BY <2>1, <2>2 DEF StagedInv, StagedOk
<1>12. CASE FwAddRuleAdd
  <2>1. /\ Rewriting /\ UNCHANGED <<todo, cur, failed>> /\ cur \in NicId
        /\ pc = "add_rule" /\ pc' = "fw_reload" /\ req.rule # NoRule
    BY <1>12 DEF FwAddRuleAdd, model, ControlInv, HandlerInv, TypeOK
  <2>2. Ingress(stagedIn'[cur]) =
          Ingress(stagedIn[cur]) \cup Ingress(FwBuildRule(req.rule))
    <3>1. CASE req.rule \in Outbound
      <4>1. Ingress(FwBuildRule(req.rule)) = {} /\ stagedIn' = stagedIn
        BY <1>12, <3>1 DEF FwAddRuleAdd, Ingress, FwBuildRule
      <4> QED BY <4>1
    <3>2. CASE req.rule \notin Outbound
      <4>1. stagedIn'[cur] = stagedIn[cur] \cup FwBuildRule(req.rule)
        BY <1>12, <2>1, <3>2 DEF FwAddRuleAdd, TypeOK
      <4> QED BY <4>1, IngressUnion
    <3> QED BY <3>1, <3>2
  <2>3. ASSUME cur \in branches, ~ conf[cur].bypass, cur \notin failed
        PROVE  StagedRight(nic)' /\ StagedLacksRule(nic)'
    <3>1. StagedLacksRule(cur)
      BY <2>1, <2>3 DEF StagedInv, StagedOk
    <3>2. /\ Ingress(stagedIn'[cur]) = Ingress(InRules(cur))
          /\ Ingress(stagedIn'[cur]) \cup Ingress(FwBuildRule(req'.rule))
               = Ingress(InRules(cur))
      BY <2>1, <2>2, <3>1 DEF StagedLacksRule
    <3> QED BY <2>1, <3>2, RulesSame
  <2>4. (cur \in branches /\ ~ conf[cur].bypass) => StagedOk(nic)'
    BY <2>1, <2>3 DEF StagedOk
  <2>5. \A m \in NicId : m # cur => stagedIn'[m] = stagedIn[m]
    BY <1>12 DEF FwAddRuleAdd, TypeOK
  <2> QED BY <1>8, <2>1, <2>4, <2>5 DEF Pcs
<1>13. CASE FwRuleRefused
  <2>1. /\ Rewriting /\ UNCHANGED <<todo, stagedIn>> /\ cur \in NicId
        /\ pc' = "visit" /\ cur' = NoNic /\ failed' = failed \cup {cur}
    BY <1>13 DEF FwRuleRefused, model, bricks, ControlInv, HandlerInv, TypeOK
  <2>2. StagedOk(nic)'
    BY <2>1, ConstantsAssumption DEF StagedOk
  <2> QED BY <1>8, <2>1, <2>2 DEF Pcs
<1>14. CASE FwReload
  <2>1. /\ Rewriting /\ UNCHANGED <<todo, stagedIn>> /\ cur \in NicId
        /\ pc = "fw_reload" /\ pc' = "visit" /\ cur' = NoNic
        /\ failed' = IF req.rule = NoRule THEN failed \ {cur} ELSE failed
    BY <1>14 DEF FwReload, model, bricks, ControlInv, HandlerInv, TypeOK
  <2>2. ASSUME cur \in branches, ~ conf[cur].bypass PROVE StagedOk(nic)'
    <3>1. StagedOk(cur)
      BY <2>2 DEF StagedInv
    <3>2. /\ StagedRight(nic)' <=> StagedRight(cur)
          /\ StagedLacksRule(nic)' <=> StagedLacksRule(cur)
      BY <2>1, RulesSame DEF StagedRight, StagedLacksRule
    <3> QED BY <2>1, <3>1, <3>2, ConstantsAssumption DEF StagedOk
  <2> QED BY <1>8, <2>1, <2>2 DEF Pcs
<1> QED BY <1>2, <1>3, <1>4, <1>5, <1>6, <1>7, <1>9, <1>10, <1>11, <1>12,
           <1>13, <1>14 DEF ApiStep

(* The steps of the poller keep the staging invariant.                     *)
LEMMA StagedPoller ==
  TypeOK /\ ControlInv /\ BarrierInv /\ StagedInv /\ PollerStep => StagedInv'
<1> SUFFICES ASSUME TypeOK, ControlInv, BarrierInv, StagedInv, PollerStep
             PROVE  StagedInv'
  OBVIOUS
<1> PICK nic : nic = cur
  OBVIOUS
<1>0. UNCHANGED <<groups, rules, members, conf, branches, pc, todo, cur, req>>
  BY DEF PollerStep, PollerPop, PollerFwNew, PollerFwReload, PollerFwReloadFails,
         PollerBrickDestroy, PollerNothing, model
<1>1. ASSUME NEW n \in branches, stagedIn'[n] = stagedIn[n], failed \subseteq failed',
             StagedOk(n)
      PROVE  StagedOk(n)'
  <2>1. /\ StagedRight(n)' <=> StagedRight(n)
        /\ StagedLacksRule(n)' <=> StagedLacksRule(n)
    BY <1>0, <1>1, RulesSame DEF StagedRight, StagedLacksRule
  <2> QED BY <1>0, <1>1, <2>1 DEF StagedOk, Visiting
<1>2. CASE PollerPop \/ PollerFwReload \/ PollerFwReloadFails \/ PollerNothing
  BY <1>0, <1>1, <1>2
  DEF StagedInv, PollerPop, PollerFwReload, PollerFwReloadFails, PollerNothing, bricks
<1>3. CASE PollerFwNew \/ PollerBrickDestroy
  <2>1. /\ pc \in {"nic_del", "nic_new"} /\ running.nic = cur /\ failed' = failed
        /\ stagedIn' = [stagedIn EXCEPT ![cur] = {}] /\ req.rule = NoRule
    BY <1>3 DEF PollerFwNew, PollerBrickDestroy, DropRules, BarrierInv, ControlInv,
                HandlerInv
  <2>2. ASSUME NEW n \in branches, n # cur, ~ conf[n].bypass PROVE StagedOk(n)'
    BY <1>1, <2>1, <2>2 DEF StagedInv, TypeOK
  <2>3. StagedOk(nic)'
    BY <1>0, <2>1 DEF StagedOk
  <2> QED BY <1>0, <2>2, <2>3 DEF StagedInv
<1> QED BY <1>2, <1>3 DEF PollerStep

-----------------------------------------------------------------------------
(* What may go out.                                                        *)

(* The filter staged for outgoing packets stays right when neither it nor  *)
(* what it is compared with changes.                                       *)
LEMMA EgressSame ==
  ASSUME UNCHANGED <<groups, rules, members>>, NEW n,
         conf'[n].sgs = conf[n].sgs, conf'[n].ips = conf[n].ips,
         n \in defaultOut' <=> n \in defaultOut, stagedOut'[n] = stagedOut[n]
  PROVE  EgressRight(n)' <=> EgressRight(n)
<1>1. InRules(n)' = InRules(n)
  BY RulesSame
<1> QED BY <1>1 DEF EgressRight, OutRules

(* The rule being added builds the same atoms while the groups stay.       *)
LEMMA AddedSame ==
  ASSUME UNCHANGED <<groups, members>>, req'.rule = req.rule
  PROVE  FwBuildRule(req.rule)' = FwBuildRule(req.rule)
BY DEF FwBuildRule, Sources

(* A step that works on another NIC.                                       *)
LEMMA EgressAside ==
  ASSUME NEW n, EgressOk(n), n # cur, n # cur', Visiting(n)' <=> Visiting(n),
         UNCHANGED <<groups, rules, members>>, conf'[n] = conf[n],
         req'.rule = req.rule, stagedOut'[n] = stagedOut[n],
         n \in defaultOut' <=> n \in defaultOut, n \in failed => n \in failed'
  PROVE  EgressOk(n)'
<1>1. EgressRight(n)' <=> EgressRight(n)
  BY EgressSame
<1>2. InRules(n)' = InRules(n) /\ FwBuildRule(req.rule)' = FwBuildRule(req.rule)
  BY RulesSame, AddedSame
<1> QED BY <1>1, <1>2 DEF EgressOk

(* Nothing is filtered at the start.                                       *)
LEMMA EgressInit == Init => EgressInv /\ ArpInv
BY DEF Init, EgressInv, ArpInv

(* Requests on groups: an OUTBOUND rule that takes effect stays a rule of  *)
(* the NIC's groups, or the NIC is on the worklist.                        *)
LEMMA EgressSg ==
  TypeOK /\ ControlInv /\ ControlInv' /\ EgressInv /\ SgRequest => EgressInv'
<1> SUFFICES ASSUME TypeOK, ControlInv, ControlInv', EgressInv, SgRequest,
                    NEW n \in branches', ~ conf'[n].bypass
             PROVE  EgressOk(n)'
  BY DEF EgressInv
<1>1. /\ pc = "idle" /\ pc' = "visit" /\ cur' = NoNic /\ cur = NoNic
      /\ branches' = branches /\ conf' = conf /\ stagedOut' = stagedOut
      /\ failed' = failed /\ defaultOut' = defaultOut
  BY DEF SgRequest, ActionSgAdd, ActionSgDel, ActionSgRuleAdd, ActionSgRuleDel,
         ActionSgMemberAdd, ActionSgMemberDel, Visit, Ready, bricks,
         ControlInv, HandlerInv
<1>2. todo = {} /\ n \in nics /\ n # NoNic
  BY <1>1, ConstantsAssumption DEF ControlInv, HandlerInv, OwnedInv, TypeOK
<1>3. n \notin failed => EgressRight(n)
  BY <1>1, <1>2 DEF EgressInv, EgressOk, Visiting
<1>4. /\ ~ Visiting(n)' => InRules(n)' = InRules(n)
      /\ (Visiting(n)' /\ req'.rule # NoRule) =>
           InRules(n)' = InRules(n) \cup FwBuildRule(req.rule)'
  BY <1>2, SgChange DEF ControlInv
<1>5. (n \notin failed /\ (req'.rule = NoRule => ~ Visiting(n)')) => EgressRight(n)'
  <2>1. (req'.rule = NoRule => ~ Visiting(n)') => InRules(n) \subseteq InRules(n)'
    BY <1>4
  <2> QED BY <1>1, <1>3, <2>1 DEF EgressRight, OutRules
<1> QED BY <1>1, <1>2, <1>4, <1>5 DEF EgressOk

(* Requests on NICs keep the egress invariant.                             *)
LEMMA EgressNic ==
  TypeOK /\ ControlInv /\ EgressInv /\ NicRequest => EgressInv'
<1> SUFFICES ASSUME TypeOK, ControlInv, EgressInv, NEW n \in NicId,
                    \/ ActionNicDel(n)
                    \/ \E c \in RequestConf :
                         ActionNicAdd(n, c) \/ ActionNicUpdate(n, c),
                    NEW m \in branches', ~ conf'[m].bypass
             PROVE  EgressOk(m)'
  BY DEF NicRequest, EgressInv
<1>0. /\ pc = "idle" /\ cur = NoNic /\ todo = {} /\ req.rule = NoRule
      /\ branches' = branches /\ m \in NicId /\ m # NoNic
      /\ UNCHANGED <<groups, rules, members, stagedOut, defaultOut, failed>>
  BY ConstantsAssumption
  DEF ActionNicDel, ActionNicAdd, ActionNicUpdate, NicDel, Ready, ControlInv,
      HandlerInv, TypeOK, model, bricks
<1>1. ~ conf[m].bypass
  BY <1>0 DEF ActionNicDel, ActionNicAdd, ActionNicUpdate, NicDel, model, TypeOK
<1>2. m \notin failed => EgressRight(m)
  BY <1>0, <1>1 DEF EgressInv, EgressOk, Visiting
<1>3. ASSUME UNCHANGED conf, pc' \in {"nic_del", "nic_new"}, req'.rule = NoRule
      PROVE  EgressOk(m)'
  BY <1>0, <1>2, <1>3, EgressSame DEF EgressOk
<1>4. CASE ActionNicDel(n)
  BY <1>3, <1>4, RequestFields DEF ActionNicDel, NicDel, model
<1>5. ASSUME NEW c, ActionNicAdd(n, c) PROVE EgressOk(m)'
  BY <1>3, <1>5, RequestFields DEF ActionNicAdd, NicDel, FwNew, model
<1>6. ASSUME NEW c, ActionNicUpdate(n, c) PROVE EgressOk(m)'
  <2>1. ~ Visiting(m)' => conf'[m].sgs = conf[m].sgs /\ conf'[m].ips = conf[m].ips
    <3>1. CASE m # n
      BY <1>0, <1>6, <3>1 DEF ActionNicUpdate, TypeOK
    <3>2. CASE m = n /\ c.sgs = conf[n].sgs /\ c.ips = conf[n].ips
      BY <1>6, <3>2 DEF ActionNicUpdate, TypeOK
    <3>3. CASE m = n /\ (c.sgs # conf[n].sgs \/ c.ips # conf[n].ips)
      BY <1>6, <3>3 DEF ActionNicUpdate, Visiting
    <3> QED BY <3>1, <3>2, <3>3
  <2>2. cur' = NoNic /\ req' = req
    BY <1>0, <1>6 DEF ActionNicUpdate
  <2>3. (m \notin failed' /\ ~ Visiting(m)') => EgressRight(m)'
    BY <1>0, <1>2, <2>1, EgressSame
  <2> QED BY <1>0, <2>2, <2>3 DEF EgressOk
<1> QED BY <1>4, <1>5, <1>6

(* The steps of the API thread keep the egress invariant.                  *)
LEMMA EgressApi ==
  TypeOK /\ ControlInv /\ EgressInv /\ ApiStep => EgressInv'
<1> SUFFICES ASSUME TypeOK, ControlInv, EgressInv, ApiStep,
                    NEW m \in branches', ~ conf'[m].bypass
             PROVE  EgressOk(m)'
  BY DEF EgressInv
<1>0. /\ NoNic \notin branches /\ branches \subseteq NicId
      /\ (m \in branches /\ ~ conf[m].bypass) => EgressOk(m)
  BY ConstantsAssumption DEF TypeOK, EgressInv
<1>1. CASE NicDelDone
  <2>1. /\ m # cur /\ m \in branches /\ m \in NicId /\ conf'[m] = conf[m]
        /\ UNCHANGED <<groups, rules, members, stagedOut, defaultOut, todo>>
        /\ m \in failed => m \in failed'
    BY <1>0, <1>1 DEF NicDelDone, bricks, TypeOK
  <2>2. req.rule = NoRule /\ req'.rule = NoRule /\ cur' \in {cur, NoNic}
    BY <1>1, RequestFields DEF NicDelDone, FwNew, ControlInv, HandlerInv
  <2>3. Visiting(m)' <=> Visiting(m)
    BY <2>1 DEF Visiting
  <2> QED BY <1>0, <2>1, <2>2, <2>3, EgressAside
<1>2. CASE NicNewDone
  <2>1. /\ UNCHANGED <<groups, rules, members, stagedOut, defaultOut, req, failed>>
        /\ req.rule = NoRule /\ todo = {} /\ cur' = NoNic /\ cur \in NicId
        /\ todo' = {<<NoSg, cur>>} /\ pc' = "visit"
    BY <1>2 DEF NicNewDone, bricks, ControlInv, HandlerInv, TypeOK
  <2>2. CASE m = cur
    <3>1. Visiting(m)' /\ m # NoNic
      BY <2>1, <2>2, ConstantsAssumption DEF Visiting
    <3> QED BY <2>1, <3>1 DEF EgressOk
  <2>3. CASE m # cur
    <3>1. m \in branches /\ m \in NicId /\ conf'[m] = conf[m] /\ m # NoNic
      BY <1>0, <1>2, <2>3 DEF NicNewDone, TypeOK
    <3>2. Visiting(m)' <=> Visiting(m)
      BY <2>1, <2>3 DEF Visiting
    <3> QED BY <1>0, <2>1, <2>3, <3>1, <3>2, EgressAside
  <2> QED BY <2>2, <2>3
<1>3. CASE NicNewFails
  <2>1. /\ UNCHANGED <<groups, rules, members, conf, branches, stagedOut,
                       defaultOut, todo, failed>>
        /\ cur' = NoNic /\ req'.rule = NoRule /\ req.rule = NoRule
        /\ cur \notin branches
    BY <1>3, RequestFields
    DEF NicNewFails, model, bricks, ControlInv, HandlerInv, OwnedInv
  <2>2. Visiting(m)' <=> Visiting(m)
    BY <2>1 DEF Visiting
  <2> QED BY <1>0, <2>1, <2>2, EgressAside
<1>4. CASE VisitDone
  <2>1. /\ UNCHANGED <<groups, rules, members, conf, branches, stagedOut,
                       defaultOut, failed>>
        /\ todo = {} /\ todo' = {} /\ cur = NoNic /\ cur' = NoNic
        /\ req'.rule = NoRule
    BY <1>4, RequestFields DEF VisitDone, bricks, ControlInv, HandlerInv
  <2>2. m \notin failed => EgressRight(m)
    BY <1>0, <2>1 DEF EgressOk, Visiting
  <2> QED BY <1>0, <2>1, <2>2, EgressSame DEF EgressOk
<1> DEFINE Rewriting ==
      UNCHANGED <<groups, rules, members, conf, branches, req>>
<1>5. ASSUME Rewriting, NEW v \in todo, todo' = todo \ {v}, m # v[2],
             cur = NoNic, cur' \in {NoNic, v[2]}, failed' = failed,
             \A n \in NicId : n # v[2] =>
               /\ stagedOut'[n] = stagedOut[n]
               /\ n \in defaultOut' <=> n \in defaultOut
      PROVE  EgressOk(m)'
  <2>1. Visiting(m)' <=> Visiting(m)
    BY <1>5, TodoMinus
  <2> QED BY <1>0, <1>5, <2>1, EgressAside
<1>6. ASSUME NEW v \in todo, VisitSkip(v) PROVE EgressOk(m)'
  <2>1. /\ Rewriting /\ UNCHANGED <<stagedOut, defaultOut, failed>>
        /\ cur = NoNic /\ cur' = NoNic /\ todo' = todo \ {v} /\ pc' = "visit"
    BY <1>6 DEF VisitSkip, model, bricks, ControlInv, HandlerInv
  <2>2. CASE m = v[2]
    <3>1. req.rule # NoRule /\ FwBuildRule(req.rule) = {}
      BY <1>6, <2>1, <2>2 DEF VisitSkip, Skipped
    <3>2. m \notin failed => EgressRight(m)'
      BY <1>0, <2>1, <3>1, EgressSame DEF EgressOk
    <3>3. FwBuildRule(req.rule)' = {}
      BY <2>1, <3>1, AddedSame
    <3> QED BY <1>0, <2>1, <3>1, <3>2, <3>3 DEF EgressOk
  <2>3. CASE m # v[2]
    BY <1>5, <2>1, <2>3
  <2> QED BY <2>2, <2>3
<1>7. ASSUME NEW v \in todo, FwUpdateFlush(v) PROVE EgressOk(m)'
  <2>1. /\ Rewriting /\ failed' = failed /\ req.rule = NoRule
        /\ cur = NoNic /\ cur' = v[2] /\ todo' = todo \ {v} /\ pc' = "fw_in"
        /\ stagedOut' = [stagedOut EXCEPT ![v[2]] = {}]
        /\ defaultOut' = defaultOut \cup {v[2]}
    BY <1>7 DEF FwUpdateFlush, model, ControlInv, HandlerInv
  <2>2. CASE m = v[2]
    <3>1. stagedOut'[m] = {} /\ m \in defaultOut'
      BY <1>0, <2>1, <2>2 DEF TypeOK
    <3> QED BY <2>1, <2>2, <3>1 DEF EgressOk
  <2>3. CASE m # v[2]
    BY <1>5, <2>1, <2>3 DEF TypeOK
  <2> QED BY <2>2, <2>3
<1>8. ASSUME NEW v \in todo, FwAddRuleFlush(v) PROVE EgressOk(m)'
  <2>1. /\ Rewriting /\ failed' = failed /\ req.rule # NoRule
        /\ cur = NoNic /\ cur' = v[2] /\ todo' = todo \ {v} /\ pc' = "add_rule"
    BY <1>8 DEF FwAddRuleFlush, model, ControlInv, HandlerInv
  <2>2. CASE m = v[2]
    <3>1. Visiting(m)
      BY <2>2, VisitingDef
    <3>2. /\ FwBuildRule(req.rule) \subseteq InRules(m)
          /\ m \notin failed => EgressRight(m)
      BY <1>0, <2>1, <3>1 DEF EgressOk
    <3>3. FwBuildRule(req.rule)' \subseteq InRules(m)'
      BY <2>1, <3>2, RulesSame, AddedSame
    <3>4. CASE req.rule \in Outbound /\ m \in defaultOut
      <4>1. stagedOut'[m] = {} /\ m \notin defaultOut'
        BY <1>0, <1>8, <2>1, <2>2, <3>4 DEF FwAddRuleFlush, TypeOK
      <4>2. EgressRight(m)'
        BY <4>1 DEF EgressRight
      <4> QED BY <2>1, <2>2, <3>3, <4>1, <4>2 DEF EgressOk
    <3>5. CASE ~ (req.rule \in Outbound /\ m \in defaultOut)
      <4>1. UNCHANGED <<stagedOut, defaultOut>>
        BY <1>8, <2>2, <3>5 DEF FwAddRuleFlush
      <4>2. m \notin failed => EgressRight(m)'
        BY <2>1, <3>2, <4>1, EgressSame
      <4> QED BY <2>1, <2>2, <3>3, <3>5, <4>1, <4>2 DEF EgressOk
    <3> QED BY <3>4, <3>5
  <2>3. CASE m # v[2]
    <3>1. \A n \in NicId : n # v[2] =>
            /\ stagedOut'[n] = stagedOut[n]
            /\ n \in defaultOut' <=> n \in defaultOut
      BY <1>8 DEF FwAddRuleFlush, TypeOK
    <3> QED BY <1>5, <2>1, <2>3, <3>1
  <2> QED BY <2>2, <2>3
<1>9. ASSUME Rewriting, todo' = todo, m # cur, cur' \in {cur, NoNic},
             failed \subseteq failed' \cup {cur},
             \A n \in NicId : n # cur => stagedOut'[n] = stagedOut[n],
             defaultOut' = defaultOut
      PROVE  EgressOk(m)'
  <2>1. Visiting(m)' <=> Visiting(m)
    BY <1>9 DEF Visiting
  <2> QED BY <1>0, <1>9, <2>1, EgressAside
<1>10. CASE FwUpdateIn
  <2>1. /\ Rewriting /\ UNCHANGED <<todo, cur, failed, stagedOut, defaultOut>>
        /\ pc = "fw_in" /\ pc' = "fw_out" /\ req.rule = NoRule
    BY <1>10 DEF FwUpdateIn, model, ControlInv, HandlerInv
  <2>2. CASE m = cur
    BY <1>0, <2>1, <2>2 DEF EgressOk
  <2> QED BY <1>9, <2>1, <2>2
<1>11. CASE FwUpdateOut
  <2>1. /\ Rewriting /\ UNCHANGED <<todo, cur, failed, defaultOut>>
        /\ pc = "fw_out" /\ pc' = "fw_reload" /\ req.rule = NoRule
        /\ stagedOut' = [stagedOut EXCEPT ![cur] = @ \cup OutRules(cur)]
    BY <1>11 DEF FwUpdateOut, model, ControlInv, HandlerInv
  <2>2. CASE m = cur
    <3>1. stagedOut[m] = {} /\ m \in defaultOut
      BY <1>0, <2>1, <2>2 DEF EgressOk
    <3>2. stagedOut'[m] = OutRules(m)
      BY <1>0, <2>1, <2>2, <3>1 DEF TypeOK
    <3>3. EgressRight(m)'
      BY <2>1, <3>1, <3>2 DEF EgressRight, OutRules
    <3> QED BY <2>1, <2>2, <3>1, <3>3 DEF EgressOk
  <2>3. CASE m # cur
    BY <1>9, <2>1, <2>3 DEF TypeOK
  <2> QED BY <2>2, <2>3
<1>12. CASE FwAddRuleAdd
  <2>1. /\ Rewriting /\ UNCHANGED <<todo, cur, failed, defaultOut>>
        /\ pc = "add_rule" /\ pc' = "fw_reload" /\ req.rule # NoRule
    BY <1>12 DEF FwAddRuleAdd, model, ControlInv, HandlerInv
  <2>2. CASE m = cur
    <3>1. /\ FwBuildRule(req.rule) \subseteq InRules(m)
          /\ m \notin failed => EgressRight(m)
          /\ req.rule \in Outbound => m \notin defaultOut
      BY <1>0, <2>1, <2>2 DEF EgressOk
    <3>2. FwBuildRule(req.rule)' \subseteq InRules(m)'
      BY <2>1, <3>1, RulesSame, AddedSame
    <3>3. CASE req.rule \in Outbound
      <4>1. stagedOut'[m] = stagedOut[m] \cup FwBuildRule(req.rule)
        BY <1>0, <1>12, <2>1, <2>2, <3>3 DEF FwAddRuleAdd, TypeOK
      <4>2. \A a \in FwBuildRule(req.rule) : a[1] \in Outbound
        BY <3>3 DEF FwBuildRule
      <4>3. InRules(m)' = InRules(m)
        BY <2>1, RulesSame
      <4>4. m \notin failed => EgressRight(m)'
        BY <2>1, <3>1, <3>3, <4>1, <4>2, <4>3 DEF EgressRight
      <4> QED BY <2>1, <3>2, <4>4 DEF EgressOk
    <3>4. CASE req.rule \notin Outbound
      <4>1. stagedOut' = stagedOut
        BY <1>12, <3>4 DEF FwAddRuleAdd
      <4>2. m \notin failed => EgressRight(m)'
        BY <2>1, <3>1, <4>1, EgressSame
      <4> QED BY <2>1, <3>2, <4>2 DEF EgressOk
    <3> QED BY <3>3, <3>4
  <2>3. CASE m # cur
    <3>1. \A n \in NicId : n # cur => stagedOut'[n] = stagedOut[n]
      BY <1>12 DEF FwAddRuleAdd, TypeOK
    <3> QED BY <1>9, <2>1, <2>3, <3>1
  <2> QED BY <2>2, <2>3
<1>13. CASE FwRuleRefused \/ FwReload
  <2>1. /\ Rewriting /\ UNCHANGED <<todo, stagedOut, defaultOut>>
        /\ pc' = "visit" /\ cur' = NoNic /\ cur \in NicId
        /\ failed \subseteq failed' \cup {cur}
    BY <1>13 DEF FwRuleRefused, FwReload, model, bricks, ControlInv, HandlerInv,
                 TypeOK
  <2>2. CASE m = cur
    <3>1. m \notin failed' => EgressRight(m)
      <4>1. CASE FwRuleRefused
        BY <2>2, <4>1 DEF FwRuleRefused
      <4>2. CASE FwReload /\ req.rule = NoRule
        BY <1>0, <2>1, <2>2, <4>2 DEF FwReload, EgressOk
      <4>3. CASE FwReload /\ req.rule # NoRule
        BY <1>0, <2>1, <2>2, <4>3 DEF FwReload, EgressOk
      <4> QED BY <1>13, <4>1, <4>2, <4>3
    <3>2. EgressRight(m)' <=> EgressRight(m)
      BY <2>1, EgressSame
    <3>3. req.rule # NoRule => FwBuildRule(req.rule)' \subseteq InRules(m)'
      BY <1>0, <2>1, <2>2, RulesSame, AddedSame DEF EgressOk
    <3> QED BY <1>0, <2>1, <3>1, <3>2, <3>3 DEF EgressOk
  <2>3. CASE m # cur
    BY <1>9, <2>1, <2>3
  <2> QED BY <2>2, <2>3
<1> QED BY <1>1, <1>2, <1>3, <1>4, <1>6, <1>7, <1>8, <1>10, <1>11, <1>12,
           <1>13 DEF ApiStep

(* The steps of the poller keep the egress invariant.                      *)
LEMMA EgressPoller ==
  TypeOK /\ ControlInv /\ BarrierInv /\ EgressInv /\ PollerStep => EgressInv'
<1> SUFFICES ASSUME TypeOK, ControlInv, BarrierInv, EgressInv, PollerStep,
                    NEW m \in branches', ~ conf'[m].bypass
             PROVE  EgressOk(m)'
  BY DEF EgressInv
<1>0. /\ UNCHANGED <<groups, rules, members, conf, branches, pc, todo, cur, req>>
      /\ failed \subseteq failed'
  BY DEF PollerStep, PollerPop, PollerFwNew, PollerFwReload, PollerFwReloadFails,
         PollerBrickDestroy, PollerNothing, model
<1>1. EgressOk(m) /\ m \in NicId
  BY <1>0 DEF EgressInv, TypeOK
<1>2. Visiting(m)' <=> Visiting(m)
  BY <1>0 DEF Visiting
<1>3. CASE UNCHANGED <<stagedOut, defaultOut>>
  <2>1. EgressRight(m)' <=> EgressRight(m)
    BY <1>0, <1>3, EgressSame
  <2>2. InRules(m)' = InRules(m) /\ FwBuildRule(req.rule)' = FwBuildRule(req.rule)
    BY <1>0, RulesSame, AddedSame
  <2> QED BY <1>0, <1>1, <1>2, <1>3, <2>1, <2>2 DEF EgressOk
<1>4. CASE PollerFwNew \/ PollerBrickDestroy
  <2>1. /\ pc \in {"nic_del", "nic_new"} /\ req.rule = NoRule
        /\ m # cur => stagedOut'[m] = stagedOut[m]
        /\ m # cur => (m \in defaultOut' <=> m \in defaultOut)
    BY <1>1, <1>4 DEF PollerFwNew, PollerBrickDestroy, DropRules, BarrierInv,
                      ControlInv, HandlerInv, TypeOK
  <2>2. CASE m = cur
    BY <1>0, <2>1, <2>2 DEF EgressOk
  <2>3. CASE m # cur
    BY <1>0, <1>1, <1>2, <2>1, <2>3, EgressAside
  <2> QED BY <2>2, <2>3
<1> QED BY <1>3, <1>4
        DEF PollerStep, PollerPop, PollerFwReload, PollerFwReloadFails,
            PollerNothing, bricks

(* The antispoof brick of a NIC has its addresses.                         *)
LEMMA ArpStep == TypeOK /\ ControlInv /\ ArpInv /\ [Next]_vars => ArpInv'
<1> SUFFICES ASSUME TypeOK, ControlInv, ArpInv, [Next]_vars PROVE ArpInv'
  OBVIOUS
<1>1. CASE UNCHANGED <<conf, branches, arp>>
  BY <1>1 DEF ArpInv
<1>2. ASSUME NEW n \in NicId, NEW c \in RequestConf, ActionNicUpdate(n, c)
      PROVE  ArpInv'
  <2>1. c.antiSpoof \in BOOLEAN
    BY ConstantsAssumption DEF RequestConf
  <2>2. /\ \A m \in NicId : m # n => conf'[m] = conf[m] /\ arp'[m] = arp[m]
        /\ conf'[n] = c /\ branches' = branches
    BY <1>2 DEF ActionNicUpdate, TypeOK
  <2>3. CASE c.ips = conf[n].ips /\ c.antiSpoof = conf[n].antiSpoof
    <3>1. arp' = arp
      BY <1>2, <2>3 DEF ActionNicUpdate
    <3> QED BY <2>2, <2>3, <3>1 DEF ArpInv, TypeOK
  <2>4. CASE ~ (c.ips = conf[n].ips /\ c.antiSpoof = conf[n].antiSpoof)
    <3>1. arp'[n] = [on |-> c.antiSpoof,
                     ips |-> IF c.antiSpoof THEN c.ips ELSE arp[n].ips]
      BY <1>2, <2>4 DEF ActionNicUpdate, TypeOK
    <3>2. /\ arp'[n].on = c.antiSpoof
          /\ arp'[n].on => arp'[n].ips = c.ips
      BY <2>1, <3>1
    <3> QED BY <2>2, <3>2 DEF ArpInv, TypeOK
  <2> QED BY <2>3, <2>4
<1>3. CASE NicDelDone
  BY <1>3 DEF NicDelDone, ArpInv, TypeOK
<1>4. CASE NicNewDone
  <2>1. /\ cur \in NicId /\ branches' = branches \cup {cur}
        /\ \A m \in NicId : m # cur => conf'[m] = conf[m] /\ arp'[m] = arp[m]
        /\ conf'[cur] = req.conf
        /\ arp'[cur] = [on |-> req.conf.antiSpoof,
                        ips |-> IF req.conf.antiSpoof THEN req.conf.ips ELSE {}]
    BY <1>4 DEF NicNewDone, ControlInv, HandlerInv, TypeOK
  <2>2. /\ arp'[cur].on = conf'[cur].antiSpoof
        /\ arp'[cur].on => arp'[cur].ips = conf'[cur].ips
    BY <2>1
  <2> QED BY <2>1, <2>2 DEF ArpInv, TypeOK
<1>5. CASE SgRequest
  BY <1>1, <1>5
  DEF SgRequest, ActionSgAdd, ActionSgDel, ActionSgRuleAdd, ActionSgRuleDel,
      ActionSgMemberAdd, ActionSgMemberDel, Visit
<1>6. CASE NicRequest
  BY <1>1, <1>2, <1>6 DEF NicRequest, ActionNicDel, ActionNicAdd, NicDel, model
<1>7. CASE ApiStep
  BY <1>1, <1>3, <1>4, <1>7
  DEF ApiStep, NicNewFails, VisitSkip, FwUpdateFlush, FwAddRuleFlush, FwUpdateIn,
      FwUpdateOut, FwAddRuleAdd, FwRuleRefused, FwReload, VisitDone, model
<1>8. CASE PollerStep
  BY <1>1, <1>8
  DEF PollerStep, PollerPop, PollerFwNew, PollerFwReload, PollerFwReloadFails,
      PollerBrickDestroy, PollerNothing, model
<1> QED BY <1>1, <1>5, <1>6, <1>7, <1>8 DEF Next, vars, model

-----------------------------------------------------------------------------
(* What is loaded.                                                          *)

(* A reload stays pending when calls are added.                            *)
LEMMA PendingAppend ==
  ASSUME TypeOK, running' = running, NEW n, ReloadPending(n),
         \/ queue' = queue
         \/ \E x \in Rpc : queue' = queue \o <<x>>
         \/ \E x, y \in Rpc : queue' = queue \o <<x, y>>
  PROVE  ReloadPending(n)'
<1>1. \A i \in DOMAIN queue : i \in DOMAIN queue' /\ queue'[i] = queue[i]
  <2>0. queue \in Seq(Rpc)
    BY DEF TypeOK
  <2>1. ASSUME NEW x \in Rpc, queue' = queue \o <<x>>
        PROVE  \A i \in DOMAIN queue : i \in DOMAIN queue' /\ queue'[i] = queue[i]
    BY <2>0, <2>1, AppendOne
  <2>2. ASSUME NEW x \in Rpc, NEW y \in Rpc, queue' = queue \o <<x, y>>
        PROVE  \A i \in DOMAIN queue : i \in DOMAIN queue' /\ queue'[i] = queue[i]
    BY <2>0, <2>2, AppendTwo
  <2> QED BY <2>1, <2>2
<1> QED BY <1>1 DEF ReloadPending

(* Requests on NICs keep the loading invariant.                            *)
LEMMA LoadedNic ==
  TypeOK /\ ControlInv /\ LoadedInv /\ NicRequest => LoadedInv'
<1> SUFFICES ASSUME TypeOK, ControlInv, LoadedInv, NEW n \in NicId,
                    \/ ActionNicDel(n)
                    \/ \E c \in RequestConf :
                         ActionNicAdd(n, c) \/ ActionNicUpdate(n, c)
             PROVE  LoadedInv'
  BY DEF NicRequest
<1>0. pc = "idle" /\ cur = NoNic /\ todo = {} /\ req.rule = NoRule
  BY DEF ActionNicDel, ActionNicAdd, ActionNicUpdate, Ready, ControlInv, HandlerInv
<1>1. ASSUME NEW m \in branches, ~ conf[m].bypass, m \notin failed
      PROVE  Loaded(m) \/ ReloadPending(m)
  BY <1>0, <1>1, ConstantsAssumption DEF LoadedInv, Visiting, TypeOK
<1>2. ASSUME UNCHANGED <<conf, branches, bricks, running, failed>>,
             \E x, y \in Rpc : queue' = queue \o <<x, y>>
      PROVE  LoadedInv'
  BY <1>1, <1>2, PendingAppend DEF LoadedInv, Loaded, bricks
<1>3. ASSUME NEW next, NicDel(n, next) PROVE LoadedInv'
  BY <1>2, <1>3, CallType DEF NicDel, Push, model
<1>4. CASE ActionNicDel(n)
  BY <1>3, <1>4 DEF ActionNicDel
<1>5. ASSUME NEW c, ActionNicAdd(n, c) PROVE LoadedInv'
  <2>1. CASE NicDel(n, AddRequest(n, c))
    BY <1>3, <2>1
  <2>2. CASE FwNew(n, c) /\ UNCHANGED <<model, branches, live, bricks, arp,
                                        running, todo, failed>>
    BY <1>2, <2>2, CallType DEF FwNew, Push, model
  <2> QED BY <1>5, <2>1, <2>2 DEF ActionNicAdd
<1>6. ASSUME NEW c, ActionNicUpdate(n, c) PROVE LoadedInv'
  <2>1. /\ UNCHANGED <<branches, bricks, running, queue, failed>>
        /\ \A m \in NicId : conf'[m].bypass = conf[m].bypass
    BY <1>6 DEF ActionNicUpdate, TypeOK
  <2> QED BY <1>1, <2>1, PendingAppend DEF LoadedInv, Loaded, TypeOK, bricks
<1> QED BY <1>4, <1>5, <1>6

(* The steps of the API thread keep the loading invariant.                 *)
LEMMA LoadedApi ==
  TypeOK /\ ControlInv /\ LoadedInv /\ ApiStep => LoadedInv'
<1> SUFFICES ASSUME TypeOK, ControlInv, LoadedInv, ApiStep PROVE LoadedInv'
  OBVIOUS
<1>0. NoNic \notin branches /\ branches \subseteq NicId
  BY ConstantsAssumption DEF TypeOK
<1>1. running' = running
  BY DEF ApiStep, NicDelDone, NicNewDone, NicNewFails, VisitSkip, FwUpdateFlush,
         FwAddRuleFlush, FwUpdateIn, FwUpdateOut, FwAddRuleAdd, FwRuleRefused,
         FwReload, VisitDone
<1>2. \/ queue' = queue
      \/ \E x \in Rpc : queue' = queue \o <<x>>
      \/ \E x, y \in Rpc : queue' = queue \o <<x, y>>
  <2>1. CASE NicDelDone
    <3>1. cur \in NicId
      BY <2>1 DEF NicDelDone, ControlInv, HandlerInv, TypeOK
    <3> QED BY <2>1, <3>1, CallType DEF NicDelDone, FwNew, Push
  <2>2. CASE FwReload
    <3>1. cur \in NicId
      BY <2>2 DEF FwReload, ControlInv, HandlerInv, TypeOK
    <3> QED BY <2>2, <3>1, CallType DEF FwReload, Push
  <2> QED BY <2>1, <2>2
          DEF ApiStep, NicNewDone, NicNewFails, VisitSkip, FwUpdateFlush,
              FwAddRuleFlush, FwUpdateIn, FwUpdateOut, FwAddRuleAdd,
              FwRuleRefused, VisitDone
<1>3. \A m : ReloadPending(m) => ReloadPending(m)'
  BY <1>1, <1>2, PendingAppend
<1>4. loadedIn' = loadedIn /\ loadedOut' = loadedOut
  BY DEF ApiStep, NicDelDone, NicNewDone, NicNewFails, VisitSkip, FwUpdateFlush,
         FwAddRuleFlush, FwUpdateIn, FwUpdateOut, FwAddRuleAdd, FwRuleRefused,
         FwReload, VisitDone, bricks
<1> DEFINE Due(m) == /\ m \in branches /\ ~ conf[m].bypass /\ m # cur
                     /\ m \notin failed /\ (Visiting(m) => req.rule # NoRule)
<1>5. SUFFICES ASSUME NEW m \in NicId, Due(m)'
               PROVE  \/ Due(m) /\ stagedIn'[m] = stagedIn[m]
                         /\ stagedOut'[m] = stagedOut[m]
                      \/ ReloadPending(m)'
  <2>1. branches' \subseteq NicId
    BY <1>0 DEF ApiStep, NicDelDone, NicNewDone, NicNewFails, VisitSkip,
                FwUpdateFlush, FwAddRuleFlush, FwUpdateIn, FwUpdateOut,
                FwAddRuleAdd, FwRuleRefused, FwReload, VisitDone, ControlInv,
                HandlerInv, TypeOK
  <2>2. \A m \in NicId : Due(m)' =>
          \/ Due(m) /\ stagedIn'[m] = stagedIn[m] /\ stagedOut'[m] = stagedOut[m]
          \/ ReloadPending(m)'
    BY <1>5
  <2> QED BY <1>3, <1>4, <2>1, <2>2 DEF LoadedInv, Loaded
<1>6. CASE NicDelDone
  BY <1>5, <1>6 DEF NicDelDone, bricks, TypeOK, ControlInv, HandlerInv, Visiting
<1>7. CASE NicNewDone
  <2>1. req' = req /\ req.rule = NoRule /\ todo = {}
    BY <1>7 DEF NicNewDone, ControlInv, HandlerInv
  <2>2. m # cur
    BY <1>5, <1>7, <2>1 DEF NicNewDone, Visiting
  <2> QED BY <1>5, <1>7, <2>1, <2>2 DEF NicNewDone, bricks, TypeOK, Visiting
<1>8. CASE NicNewFails
  <2>1. cur \notin branches /\ todo = {}
    BY <1>8 DEF NicNewFails, ControlInv, HandlerInv, OwnedInv
  <2> QED BY <1>5, <1>8, <2>1 DEF NicNewFails, model, bricks, Visiting
<1>9. CASE VisitDone
  <2>1. cur = NoNic
    BY <1>9 DEF VisitDone, ControlInv, HandlerInv
  <2> QED BY <1>0, <1>5, <1>9, <2>1 DEF VisitDone, bricks, Visiting
<1>10. ASSUME NEW v \in todo, VisitSkip(v)
       PROVE  /\ Due(m) /\ stagedIn'[m] = stagedIn[m]
              /\ stagedOut'[m] = stagedOut[m]
  <2>1. cur = NoNic
    BY <1>10 DEF VisitSkip, ControlInv, HandlerInv
  <2>2. m # v[2] => (Visiting(m)' <=> Visiting(m))
    BY <1>10, TodoMinus DEF VisitSkip
  <2>3. m = v[2] => req.rule # NoRule
    BY <1>5, <1>10 DEF VisitSkip, Skipped, model
  <2> QED BY <1>0, <1>5, <1>10, <2>1, <2>2, <2>3 DEF VisitSkip, model, bricks
<1>11. ASSUME NEW v \in todo, FwUpdateFlush(v) \/ FwAddRuleFlush(v)
       PROVE  /\ Due(m) /\ stagedIn'[m] = stagedIn[m]
              /\ stagedOut'[m] = stagedOut[m]
  <2>1. cur = NoNic
    BY <1>11 DEF FwUpdateFlush, FwAddRuleFlush, ControlInv, HandlerInv
  <2>2. m # v[2]
    BY <1>5, <1>11 DEF FwUpdateFlush, FwAddRuleFlush
  <2>3. Visiting(m)' <=> Visiting(m)
    BY <1>11, <2>2, TodoMinus DEF FwUpdateFlush, FwAddRuleFlush
  <2> QED BY <1>0, <1>5, <1>11, <2>1, <2>2, <2>3
          DEF FwUpdateFlush, FwAddRuleFlush, model, TypeOK
<1>12. CASE FwUpdateIn \/ FwUpdateOut \/ FwAddRuleAdd
  <2>1. UNCHANGED <<branches, conf, cur, failed, todo, req>>
    BY <1>12 DEF FwUpdateIn, FwUpdateOut, FwAddRuleAdd, model
  <2>2. m # cur => stagedIn'[m] = stagedIn[m] /\ stagedOut'[m] = stagedOut[m]
    BY <1>12 DEF FwUpdateIn, FwUpdateOut, FwAddRuleAdd, TypeOK
  <2> QED BY <1>5, <2>1, <2>2 DEF Visiting
<1>13. CASE FwRuleRefused
  BY <1>0, <1>5, <1>13 DEF FwRuleRefused, model, bricks, Visiting
<1>14. CASE FwReload
  <2>1. cur \in NicId
    BY <1>14 DEF FwReload, ControlInv, HandlerInv, TypeOK
  <2>2. CASE m = cur
    <3>1. \E i \in DOMAIN queue' : queue'[i] = Call("FW_RELOAD", m)
      BY <1>14, <2>1, <2>2, CallType, AppendOne DEF FwReload, Push, TypeOK
    <3> QED BY <3>1 DEF ReloadPending
  <2>3. CASE m # cur
    BY <1>5, <1>14, <2>3 DEF FwReload, model, bricks, Visiting
  <2> QED BY <2>2, <2>3
<1> QED BY <1>6, <1>7, <1>8, <1>9, <1>10, <1>11, <1>12, <1>13, <1>14 DEF ApiStep

(* The steps of the poller keep the loading invariant.                     *)
LEMMA LoadedPoller ==
  TypeOK /\ ControlInv /\ BarrierInv /\ LoadedInv /\ PollerStep => LoadedInv'
<1> SUFFICES ASSUME TypeOK, ControlInv, BarrierInv, LoadedInv, PollerStep
             PROVE  LoadedInv'
  OBVIOUS
<1>0. UNCHANGED <<conf, branches, todo, cur, req>> /\ failed \subseteq failed'
  BY DEF PollerStep, PollerPop, PollerFwNew, PollerFwReload, PollerFwReloadFails,
         PollerBrickDestroy, PollerNothing, model
<1> SUFFICES ASSUME NEW m \in branches, m # cur, m \notin failed',
                    Loaded(m) \/ ReloadPending(m)
             PROVE  Loaded(m)' \/ ReloadPending(m)'
  BY <1>0 DEF LoadedInv, Visiting
<1>1. m \in NicId
  BY DEF TypeOK
<1>2. CASE PollerPop
  <2>1. \A j \in DOMAIN queue :
          running' = queue[j] \/ \E i \in DOMAIN queue' : queue'[i] = queue[j]
    BY <1>2, PopFacts DEF PollerPop, TypeOK
  <2>2. ReloadPending(m) => ReloadPending(m)'
    BY <1>2, <2>1 DEF PollerPop, ReloadPending, Idle, Call
  <2> QED BY <1>2, <2>2 DEF PollerPop, bricks, Loaded
<1>3. running # Call("FW_RELOAD", m) /\ queue' = queue /\ ReloadPending(m) =>
        ReloadPending(m)'
  BY DEF ReloadPending
<1>4. CASE PollerFwNew \/ PollerBrickDestroy
  <2>1. running.nic = cur /\ running # Call("FW_RELOAD", m) /\ queue' = queue
    BY <1>4 DEF PollerFwNew, PollerBrickDestroy, BarrierInv, Call
  <2>2. Loaded(m)' <=> Loaded(m)
    BY <1>1, <1>4, <2>1 DEF Loaded, PollerFwNew, PollerBrickDestroy, DropRules, TypeOK
  <2> QED BY <1>3, <2>1, <2>2
<1>5. CASE PollerFwReload
  <2>1. CASE running.nic = m
    BY <1>1, <1>5, <2>1 DEF PollerFwReload, TypeOK, Loaded
  <2>2. CASE running.nic # m
    <3>1. running # Call("FW_RELOAD", m)
      BY <2>2 DEF Call
    <3> QED BY <1>1, <1>3, <1>5, <2>2, <3>1 DEF PollerFwReload, TypeOK, Loaded
  <2> QED BY <2>1, <2>2
<1>6. CASE PollerFwReloadFails
  <2>1. running # Call("FW_RELOAD", m)
    BY <1>6 DEF PollerFwReloadFails, Call
  <2> QED BY <1>3, <1>6, <2>1 DEF PollerFwReloadFails, bricks, Loaded
<1>7. CASE PollerNothing
  <2>1. running # Call("FW_RELOAD", m)
    BY <1>7 DEF PollerNothing, Call
  <2> QED BY <1>3, <1>7, <2>1 DEF PollerNothing, bricks, Loaded
<1> QED BY <1>2, <1>4, <1>5, <1>6, <1>7 DEF PollerStep
-----------------------------------------------------------------------------
(* The theorems.                                                           *)

(* Every step keeps the inductive invariant.                               *)
LEMMA SyncStep == SyncInv /\ [Next]_vars => SyncInv'
<1> SUFFICES ASSUME SyncInv, [Next]_vars PROVE SyncInv'
  OBVIOUS
<1>0. TypeOK /\ ControlInv /\ HandlerInv /\ BarrierInv /\ AbsentGroupsEmpty
      /\ LiveInv /\ StagedInv /\ EgressInv /\ ArpInv /\ LoadedInv
  BY DEF SyncInv, ControlInv
<1>a. ArpInv'
  BY <1>0, ArpStep
<1>1. CASE SgRequest
  <2>1. TypeOK' /\ ControlInv'
    BY <1>0, <1>1, TypeSg, ControlSg
  <2>2. BarrierInv' /\ LiveInv'
    BY <1>0, <1>1, BarrierFrame, LiveFrame
    DEF SgRequest, ActionSgAdd, ActionSgDel, ActionSgRuleAdd, ActionSgRuleDel,
        ActionSgMemberAdd, ActionSgMemberDel, Visit, Ready
  <2>3. StagedInv' /\ EgressInv' /\ LoadedInv'
    BY <1>0, <1>1, <2>1, StagedSg, EgressSg, LoadedSg
  <2> QED BY <1>a, <2>1, <2>2, <2>3 DEF SyncInv, ControlInv
<1>2. CASE NicRequest
  BY <1>0, <1>a, <1>2, TypeNic, ControlNic, BarrierNic, LiveNic, StagedNic,
     EgressNic, LoadedNic
  DEF SyncInv, ControlInv
<1>3. CASE ApiStep
  BY <1>0, <1>a, <1>3, TypeApi, ControlApi, BarrierApi, LiveApi, StagedApi,
     EgressApi, LoadedApi
  DEF SyncInv, ControlInv
<1>4. CASE PollerStep
  BY <1>0, <1>a, <1>4, TypePoller, ControlPoller, BarrierPoller, LivePoller,
     StagedPoller, EgressPoller, LoadedPoller
  DEF SyncInv, ControlInv
<1>5. CASE UNCHANGED vars
  <2>1. TypeOK' /\ ControlInv' /\ BarrierInv'
    BY <1>0, <1>5 DEF vars, model, bricks, TypeOK, ControlInv, HandlerInv, OwnedInv,
                      BarrierInv, AbsentGroupsEmpty
  <2>2. LoadedInv' /\ LiveInv'
    BY <1>0, <1>5 DEF vars, model, bricks, LoadedInv, Loaded, Visiting,
                      ReloadPending, LiveInv, DestroyPending
  <2>3. \A n : /\ StagedRight(n)' <=> StagedRight(n)
               /\ StagedLacksRule(n)' <=> StagedLacksRule(n)
               /\ Visiting(n)' <=> Visiting(n)
    BY <1>5, RulesSame
    DEF vars, model, bricks, StagedRight, StagedLacksRule, Visiting
  <2>4. StagedInv'
    BY <1>0, <1>5, <2>3 DEF vars, model, bricks, StagedInv, StagedOk
  <2>5. \A n : /\ EgressRight(n)' <=> EgressRight(n)
               /\ InRules(n)' = InRules(n)
               /\ FwBuildRule(req.rule)' = FwBuildRule(req.rule)
    BY <1>5, EgressSame, RulesSame, AddedSame DEF vars, model, bricks
  <2>6. EgressInv'
    BY <1>0, <1>5, <2>3, <2>5 DEF vars, model, bricks, EgressInv, EgressOk
  <2> QED BY <1>a, <2>1, <2>2, <2>4, <2>6 DEF SyncInv, ControlInv
<1> QED BY <1>1, <1>2, <1>3, <1>4, <1>5 DEF Next

(* The invariant that ties the model, the handler in progress, the rules    *)
(* staged and loaded in every firewall and the calls in the queue.          *)
THEOREM Synced == Spec => []SyncInv
<1>1. Init => SyncInv
  BY TypeInit, ControlInit, BarrierInit, LiveInit, SyncInit, EgressInit
  DEF SyncInv, ControlInv
<1>2. SyncInv /\ [Next]_vars => SyncInv'
  BY SyncStep
<1> QED BY <1>1, <1>2, PTL DEF Spec

(* Every variable keeps its type: no handler or call ever names a NIC that *)
(* does not exist.                                                         *)
THEOREM FirewallTypes == Spec => []TypeOK
<1>1. SyncInv => TypeOK
  BY DEF SyncInv
<1> QED BY <1>1, Synced, PTL

(* When the API thread has answered and the poller has caught up, every    *)
(* firewall lets in what the security groups ask for.                      *)
THEOREM FirewallSynced == Spec => []IngressSynced
<1>1. SyncInv => IngressSynced
  <2> SUFFICES ASSUME SyncInv, Quiescent, NEW n \in Filtered \ failed
               PROVE  Ingress(loadedIn[n]) = Ingress(InRules(n))
    BY DEF IngressSynced
  <2>1. pc = "idle" /\ queue = <<>> /\ running = Idle
    BY DEF Quiescent
  <2>2. todo = {} /\ cur = NoNic /\ n \in branches /\ n # cur
    BY <2>1, ConstantsAssumption
    DEF SyncInv, HandlerInv, OwnedInv, Filtered, TypeOK
  <2>3. ~ Visiting(n) /\ ~ conf[n].bypass
    BY <2>2 DEF Visiting, Filtered
  <2>4. ~ ReloadPending(n)
    BY <2>1 DEF ReloadPending, Idle, Call
  <2>5. StagedRight(n)
    BY <2>2, <2>3 DEF SyncInv, StagedInv, StagedOk
  <2>6. loadedIn[n] = stagedIn[n]
    BY <2>2, <2>3, <2>4 DEF SyncInv, LoadedInv, Loaded
  <2> QED BY <2>5, <2>6 DEF StagedRight
<1> QED BY <1>1, Synced, PTL

(* Between two requests the poller lets in nothing the groups do not ask   *)
(* for, whatever reloads earlier requests left in the queue.               *)
THEOREM FirewallNeverReopens == Spec => NoStaleOpening
<1> DEFINE Step ==
      pc = "idle" =>
        \A n \in Filtered \ failed :
          Ingress(loadedIn'[n]) \ loadedIn[n] \subseteq InRules(n)
<1>1. SyncInv /\ [Next]_vars => [Step]_vars
  <2> SUFFICES ASSUME SyncInv, Next, pc = "idle", NEW n \in Filtered \ failed
               PROVE  Ingress(loadedIn'[n]) \ loadedIn[n] \subseteq InRules(n)
    OBVIOUS
  <2>1. todo = {} /\ cur = NoNic /\ n \in branches /\ n # cur /\ n \in NicId
    BY ConstantsAssumption DEF SyncInv, HandlerInv, OwnedInv, Filtered, TypeOK
  <2>2. Ingress(stagedIn[n]) = Ingress(InRules(n))
    BY <2>1 DEF SyncInv, StagedInv, StagedOk, StagedRight, Visiting, Filtered
  <2>3. loadedIn'[n] \in {loadedIn[n], stagedIn[n], {}}
    <3>1. CASE SgRequest
      BY <3>1 DEF SgRequest, ActionSgAdd, ActionSgDel, ActionSgRuleAdd,
                  ActionSgRuleDel, ActionSgMemberAdd, ActionSgMemberDel, Visit, bricks
    <3>2. CASE NicRequest
      BY <3>2 DEF NicRequest, ActionNicDel, ActionNicAdd, ActionNicUpdate, NicDel, bricks
    <3>3. CASE ApiStep
      BY <3>3 DEF ApiStep, NicDelDone, NicNewDone, NicNewFails, VisitSkip,
                  FwUpdateFlush, FwAddRuleFlush, FwUpdateIn, FwUpdateOut,
                  FwAddRuleAdd, FwRuleRefused, FwReload, VisitDone, bricks
    <3>4. CASE PollerStep
      BY <2>1, <3>4 DEF SyncInv, TypeOK, PollerStep, PollerPop, PollerFwNew,
                  PollerFwReload, PollerFwReloadFails, PollerBrickDestroy,
                  PollerNothing, DropRules, bricks
    <3> QED BY <3>1, <3>2, <3>3, <3>4 DEF Next
  <2> QED BY <2>2, <2>3 DEF Ingress
<1>2. NoStaleOpening <=> [][Step]_vars
  BY DEF NoStaleOpening
<1> QED BY <1>1, <1>2, Synced, PTL DEF Spec

(* When the API thread has answered and the poller has caught up, what may *)
(* go out agrees with the NIC's addresses in the firewall and in the       *)
(* antispoof brick, and only OUTBOUND rules of its groups take the place   *)
(* of the default filter.                                                  *)
THEOREM FirewallEgressSynced == Spec => []EgressSynced
<1>1. SyncInv => EgressSynced
  <2> SUFFICES ASSUME SyncInv, Quiescent PROVE EgressSynced
    BY DEF EgressSynced
  <2>1. pc = "idle" /\ queue = <<>> /\ running = Idle
    BY DEF Quiescent
  <2>2. todo = {} /\ cur = NoNic /\ branches = nics /\ NoNic \notin branches
    BY <2>1, ConstantsAssumption DEF SyncInv, HandlerInv, OwnedInv, TypeOK
  <2>3. \A n : ~ Visiting(n) /\ ~ ReloadPending(n)
    BY <2>1, <2>2 DEF Visiting, ReloadPending, Idle, Call
  <2>4. ASSUME NEW n \in Filtered \ failed
        PROVE  EgressRight(n) /\ loadedOut[n] = stagedOut[n]
    <3>1. n \in branches /\ n # cur /\ ~ conf[n].bypass
      BY <2>2 DEF Filtered
    <3>2. EgressRight(n)
      BY <2>3, <3>1 DEF SyncInv, EgressInv, EgressOk
    <3>3. loadedOut[n] = stagedOut[n]
      BY <2>3, <3>1 DEF SyncInv, LoadedInv, Loaded
    <3> QED BY <3>2, <3>3
  <2>5. ArpInv
    BY DEF SyncInv
  <2> QED BY <2>2, <2>4, <2>5 DEF EgressSynced, EgressRight, ArpInv
<1> QED BY <1>1, Synced, PTL

(* Between two requests the NICs of the model are those of vnis_, each     *)
(* with a firewall, whatever failed in the requests before.                *)
THEOREM FirewallModelMatchesGraph == Spec => []ModelMatchesGraph
<1>1. SyncInv => ModelMatchesGraph
  BY DEF SyncInv, OwnedInv, LiveInv, ModelMatchesGraph
<1> QED BY <1>1, Synced, PTL

(* No call in the queue and no step of the API thread touches a firewall   *)
(* that was destroyed.                                                     *)
THEOREM FirewallNoUseAfterDestroy == Spec => []NoUseAfterDestroy
<1>1. SyncInv => NoUseAfterDestroy
  <2> SUFFICES ASSUME SyncInv PROVE NoUseAfterDestroy
    OBVIOUS
  <2>0. queue \in Seq(Rpc) /\ TypeOK /\ BarrierInv /\ LiveInv
    BY DEF SyncInv, TypeOK
  <2>1. /\ Len(queue) \in Nat /\ DOMAIN queue = 1..Len(queue)
        /\ DOMAIN Calls = 1..(Len(queue) + 1)
        /\ Calls[1] = running
        /\ \A i \in DOMAIN queue : Calls[i + 1] = queue[i]
        /\ \A i \in DOMAIN Calls : i = 1 \/ i - 1 \in DOMAIN queue
    BY <2>0 DEF Calls
  <2>2. \A i \in DOMAIN Calls :
          \/ i = 1 /\ Calls[i] = running
          \/ i - 1 \in DOMAIN queue /\ Calls[i] = queue[i - 1]
    <3> SUFFICES ASSUME NEW i \in DOMAIN Calls, i # 1
                 PROVE  i - 1 \in DOMAIN queue /\ Calls[i] = queue[i - 1]
      BY <2>1
    <3>1. i - 1 \in DOMAIN queue /\ Calls[(i - 1) + 1] = queue[i - 1]
      BY <2>1
    <3>2. (i - 1) + 1 = i
      BY <2>1
    <3> QED BY <3>1, <3>2
  <2>3. ASSUME NEW i \in DOMAIN Calls,
               Calls[i].action \in {"FW_RELOAD", "BRICK_DESTROY"}
        PROVE  Calls[i].nic \in live
    <3>1. Calls[i] \in Rpc
      BY <2>0, <2>2, <2>3 DEF TypeOK, Idle
    <3>2. CASE Calls[i].action = "FW_RELOAD"
      <4>1. Calls[i] = Call("FW_RELOAD", Calls[i].nic) /\ Calls[i].nic \in NicId
        BY <3>1, <3>2 DEF Rpc, Call
      <4>2. ReloadPending(Calls[i].nic)
        BY <2>2, <4>1 DEF ReloadPending
      <4> QED BY <2>0, <4>1, <4>2 DEF LiveInv
    <3>3. CASE Calls[i].action = "BRICK_DESTROY"
      <4>1. DestroyPending /\ pc = "nic_del" /\ Calls[i].nic = cur
        BY <2>0, <2>2, <3>3 DEF DestroyPending, BarrierInv
      <4> QED BY <2>0, <4>1 DEF LiveInv
    <3> QED BY <2>3, <3>2, <3>3
  <2>4. ASSUME NEW i \in DOMAIN Calls, NEW j \in 1..(i - 1),
               Calls[j].action = "BRICK_DESTROY"
        PROVE  Calls[i] = Nothing
    <3>1. j \in DOMAIN Calls /\ j < i /\ i # 1 /\ i \in Nat /\ j \in Nat
      BY <2>1
    <3>2. pc = "nic_del" /\ i - 1 \in DOMAIN queue /\ Calls[i] = queue[i - 1]
      BY <2>0, <2>2, <2>4, <3>1 DEF BarrierInv
    <3>3. queue[Len(queue)] = Nothing
      BY <2>0, <2>1, <3>2 DEF BarrierInv
    <3>4. i - 1 = Len(queue)
      <4>1. CASE j = 1
        <5>1. Len(queue) = 1
          BY <2>0, <2>2, <2>4, <3>1, <4>1 DEF LiveInv
        <5> QED BY <2>1, <3>1, <3>2, <5>1
      <4>2. CASE j # 1
        <5>1. j - 1 = Len(queue) - 1
          BY <2>0, <2>2, <2>4, <3>1, <4>2 DEF LiveInv
        <5> QED BY <2>1, <3>1, <3>2, <5>1
      <4> QED BY <4>1, <4>2
    <3> QED BY <3>2, <3>3, <3>4
  <2>5. pc \in {"fw_in", "fw_out", "add_rule", "fw_reload"} => cur \in live
    BY DEF SyncInv, HandlerInv, InFirewall, LiveInv
  <2> QED BY <2>3, <2>4, <2>5 DEF NoUseAfterDestroy, Call, Nothing
<1> QED BY <1>1, Synced, PTL
=============================================================================
