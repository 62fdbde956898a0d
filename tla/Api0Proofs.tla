----------------------------- MODULE Api0Proofs -----------------------------
(***************************************************************************)
(* Proofs about Api0, for all messages that clients may send.              *)
(***************************************************************************)
EXTENDS Api0, TLAPS

-----------------------------------------------------------------------------
(* Conversion of messages to the model.                                    *)

(* Ip::Set gives a valid address its canonical spelling.                   *)
LEMMA ConvertsIp ==
  ASSUME NEW t \in Text, ValidateIp(t)
  PROVE  IpOk(SetIp(t))
BY ApiAssumption DEF IpOk, SetIp, ValidateIp

(* A converted CIDR is as valid as the message's.                          *)
LEMMA ConvertsCidr ==
  ASSUME NEW c \in [address : Text, mask_size : Nat], ValidateCidr(c)
  PROVE  CidrOk(ConvertCidr(c))
<1>1. c.address \in Text /\ ValidateIp(c.address)
  BY DEF ValidateCidr, ValidateIp
<1>2. IpOk(SetIp(c.address))
  BY <1>1, ConvertsIp
<1>3. Family[SetIp(c.address)] = Family[c.address] /\ SetIp(c.address) \in Text
  BY <1>1, ApiAssumption DEF SetIp
<1> QED BY <1>2, <1>3 DEF CidrOk, ConvertCidr, ValidateCidr

(* A rule that passes ValidateSgRule is one FwBuildRule can use, or one    *)
(* without a source.                                                       *)
LEMMA ConvertsRule ==
  ASSUME NEW m, RuleFields(m), ValidateSgRule(m), RuleConverts(m)
  PROVE  RuleOk(ConvertRule(m))
<1> DEFINE r == ConvertRule(m)
<1>1. /\ r = [direction |-> r.direction, protocol |-> r.protocol,
              port_start |-> r.port_start, port_end |-> r.port_end,
              cidr |-> r.cidr, security_group |-> r.security_group]
      /\ r.protocol = m.protocol
      /\ r.security_group = (IF m.security_group = None THEN EmptyText
                             ELSE m.security_group)
      /\ r.port_start = (IF m.port_start = None THEN 0 ELSE m.port_start)
      /\ r.port_end = (IF m.port_end = None THEN 0 ELSE m.port_end)
      /\ r.cidr = (IF m.security_group = None THEN ConvertCidr(m.cidr) ELSE NoCidr)
  BY DEF ConvertRule
<1> HIDE DEF r
<1>2. r.port_start \in Nat /\ r.port_end \in Nat
  BY <1>1 DEF RuleFields
<1>3. TcpOrUdp(r.protocol) => r.port_start <= r.port_end /\ r.port_end <= MaxPort
  BY <1>1 DEF ValidateSgRule, RuleFields
<1>4. r.protocol \in Int /\ r.protocol >= -1 /\ r.protocol <= 255
  BY <1>1 DEF ValidateSgRule, RuleFields
<1>5. /\ r.security_group # None
      /\ \/ r.cidr = NoCidr
         \/ r.security_group = EmptyText /\ CidrOk(r.cidr)
  <2>1. EmptyText # None
    BY ApiAssumption
  <2>2. CASE m.security_group = None
    <3>1. m.cidr \in [address : Text, mask_size : Nat] /\ ValidateCidr(m.cidr)
      BY <2>2 DEF RuleFields, RuleConverts, ValidateSgRule
    <3> QED BY <1>1, <2>1, <2>2, <3>1, ConvertsCidr
  <2>3. CASE m.security_group # None
    BY <1>1, <2>3
  <2> QED BY <2>2, <2>3
<1>6. RuleOk(r)
  BY <1>1, <1>2, <1>3, <1>4, <1>5 DEF RuleOk
<1> QED BY <1>6 DEF r

(* A group that passes ValidateSg holds valid members and rules.           *)
LEMMA ConvertsSg ==
  ASSUME NEW m \in SgMessages, ValidateSg(m), \A r \in m.rule : RuleConverts(r)
  PROVE  SgOk(ConvertSg(m))
<1> DEFINE g == ConvertSg(m)
<1>1. /\ g = [members |-> g.members, rules |-> g.rules]
      /\ g.members = {SetIp(t) : t \in m.member}
      /\ g.rules = {ConvertRule(r) : r \in m.rule}
  BY DEF ConvertSg
<1>2. ASSUME NEW t \in m.member PROVE IpOk(SetIp(t))
  BY ConvertsIp, MessageAssumption DEF ValidateSg
<1>3. ASSUME NEW r \in m.rule PROVE RuleOk(ConvertRule(r))
  BY ConvertsRule, MessageAssumption DEF ValidateSg
<1> HIDE DEF g
<1>4. SgOk(g)
  BY <1>1, <1>2, <1>3 DEF SgOk
<1> QED BY <1>4 DEF g

(* A NIC that passes ValidateNic.                                          *)
LEMMA ConvertsNic ==
  ASSUME NEW m \in NicMessages, ValidateNic(m)
  PROVE  NicOk(ConvertNic(m))
<1> DEFINE nic == ConvertNic(m)
<1>1. /\ IsNic(nic)
      /\ nic.vni = m.vni /\ nic.ips = {SetIp(t) : t \in m.ip}
      /\ nic.antiSpoof = OrElse(m.ip_anti_spoof, FALSE)
      /\ nic.trace = OrElse(m.packet_trace, ConfigTrace)
      /\ nic.path = OrElse(m.packet_trace_path, DefaultPath[m.id])
      /\ nic.bypass = OrElse(m.bypass_filtering, FALSE)
  BY DEF ConvertNic, IsNic
<1>2. ASSUME NEW t \in m.ip PROVE IpOk(SetIp(t))
  BY ConvertsIp, MessageAssumption DEF ValidateNic
<1> HIDE DEF nic
<1>3. FALSE # None /\ ConfigTrace # None /\ DefaultPath[m.id] # None
  BY ApiAssumption, MessageAssumption
<1>4. /\ nic.antiSpoof # None /\ nic.trace # None /\ nic.path # None
      /\ nic.bypass # None
  BY <1>1, <1>3 DEF OrElse
<1>5. nic.vni <= MaxVni /\ \A t \in nic.ips : IpOk(t)
  BY <1>1, <1>2 DEF ValidateNic
<1>6. NicOk(nic)
  BY <1>1, <1>4, <1>5 DEF NicOk
<1> QED BY <1>6 DEF nic

(* An update keeps a NIC valid, whatever the uninitialised packet_trace.   *)
LEMMA UpdatesNic ==
  ASSUME NEW nic, NicOk(nic), NEW m \in UpdateMessages, ValidateNicUpdate(m),
         NEW any \in BOOLEAN
  PROVE  NicOk(Updated(nic, m, any))
<1> DEFINE u == ConvertNicUpdate(m, any)
           new == Updated(nic, m, any)
<1>1. u.ip = {SetIp(t) : t \in m.ip \ {EmptyText}}
  BY DEF ConvertNicUpdate
<1>2. u.path # None
  <2>1. \/ u.path = OrElse(m.packet_trace_path, DefaultPath[m.id])
        \/ u.path = DefaultPath[m.id]
    BY DEF ConvertNicUpdate
  <2> HIDE DEF u
  <2> QED BY <2>1, MessageAssumption DEF OrElse
<1> HIDE DEF u
<1>3. /\ new = [vni |-> nic.vni, ips |-> IF u.ip_overwrite THEN u.ip ELSE nic.ips,
                sgs |-> IF u.sgs_overwrite THEN u.sgs ELSE nic.sgs,
                antiSpoof |-> OrElse(m.ip_anti_spoof, nic.antiSpoof),
                trace |-> OrElse(m.packet_trace, nic.trace),
                path |-> IF OrElse(m.packet_trace, nic.trace) THEN u.path
                         ELSE nic.path,
                bypass |-> nic.bypass, type |-> nic.type]
  BY DEF Updated, u
<1>4. ASSUME NEW t \in m.ip \ {EmptyText} PROVE IpOk(SetIp(t))
  BY ConvertsIp, MessageAssumption DEF ValidateNicUpdate
<1>5. \A t \in u.ip : IpOk(t)
  BY <1>1, <1>4
<1> HIDE DEF new
<1>6. /\ IsNic(new)
      /\ new.vni = nic.vni /\ (new.ips = u.ip \/ new.ips = nic.ips)
      /\ new.bypass = nic.bypass /\ (new.path = u.path \/ new.path = nic.path)
      /\ new.antiSpoof = OrElse(m.ip_anti_spoof, nic.antiSpoof)
      /\ new.trace = OrElse(m.packet_trace, nic.trace)
  BY <1>3 DEF IsNic
<1>7. /\ new.antiSpoof # None /\ new.trace # None /\ new.path # None
      /\ new.bypass # None
  BY <1>2, <1>6 DEF NicOk, OrElse
<1>8. NicOk(new)
  BY <1>5, <1>6, <1>7 DEF NicOk
<1> QED BY <1>8 DEF new
-----------------------------------------------------------------------------
(* Answers to requests.                                                    *)

(* What is answered when no earlier text is left.                          *)
Ok == api_0_error' = None /\ res' = [status |-> "ok", error |-> None]
Nok(text) == api_0_error' = None /\ res' = [status |-> "nok", error |-> text]

LEMMA Accepts ==
  ASSUME api_0_error = None, Accept PROVE Ok
BY DEF Accept, Answer, BuildOkRes, Ok

LEMMA Refuses ==
  ASSUME api_0_error = None, NEW text, Refuse(text)
  PROVE  Nok(text) /\ UNCHANGED <<nics, groups>>
BY DEF Refuse, Answer, BuildNokText, OrElse, Nok, model

LEMMA Fails ==
  ASSUME api_0_error = None, NEW error, Answer(BuildNokError(api_0_error, error))
  PROVE  Nok(error)
BY DEF Answer, BuildNokError, Nok

(* An answer of the server's own has a status and no text of a client.     *)
LEMMA Complete ==
  ASSUME Ok \/ \E text \in Descriptions : Nok(text)
  PROVE  api_0_error' = None /\ ResponsesComplete'
<1>1. CASE Ok
  BY <1>1, ApiAssumption DEF Ok, ResponsesComplete
<1>2. ASSUME NEW text \in Descriptions, Nok(text)
      PROVE  api_0_error' = None /\ ResponsesComplete'
  BY <1>2, MessageAssumption DEF Nok, ResponsesComplete
<1> QED BY <1>1, <1>2

(* NokChangesNothing of one step.                                          *)
Harmless ==
  res'.status # "ok" =>
    /\ groups' = groups
    /\ \/ nics' = nics
       \/ /\ req'[1] = "nic_add" /\ ValidateNic(req'[2])
          /\ nics' = [nics EXCEPT ![req'[2].id] = None]

(* A refused request.                                                      *)
LEMMA RefusedStep ==
  ASSUME Api0Inv, NEW text \in Descriptions, Nok(text), UNCHANGED <<nics, groups>>
  PROVE  Api0Inv' /\ Harmless
<1>1. api_0_error' = None /\ ResponsesComplete'
  BY Complete
<1>2. ModelInv'
  BY DEF Api0Inv, ModelInv
<1> QED BY <1>1, <1>2 DEF Api0Inv, Harmless

(* An accepted one.                                                        *)
LEMMA AcceptedStep ==
  ASSUME Ok, ModelInv'
  PROVE  Api0Inv' /\ Harmless
<1>1. api_0_error' = None /\ ResponsesComplete'
  BY Complete
<1> QED BY <1>1 DEF Api0Inv, Harmless, Ok

(* Changes to one NIC or one group.                                        *)
LEMMA NicChange ==
  ASSUME ModelInv, NEW n \in NicId, NEW nic, nic = None \/ NicOk(nic),
         nics' = [nics EXCEPT ![n] = nic], UNCHANGED groups
  PROVE  ModelInv'
BY DEF ModelInv

LEMMA GroupChange ==
  ASSUME ModelInv, NEW s \in SgId, NEW g, g = None \/ SgOk(g),
         groups' = [groups EXCEPT ![s] = g], UNCHANGED nics
  PROVE  ModelInv'
BY DEF ModelInv
-----------------------------------------------------------------------------
(* One lemma per request: it keeps the invariant, and an error is harmless. *)

LEMMA NicAddStep ==
  ASSUME Api0Inv, NEW m \in NicMessages, NicAdd(m)
  PROVE  Api0Inv' /\ Harmless
<1>1. api_0_error = None /\ ModelInv /\ m.id \in NicId /\ req' = <<"nic_add", m>>
  BY MessageAssumption DEF Api0Inv, NicAdd
<1>2. CASE ~ ValidateNic(m) /\ Refuse("Bad NIC format")
  BY <1>1, <1>2, Refuses, RefusedStep DEF Descriptions
<1>3. CASE /\ ValidateNic(m) /\ ~ NicConverts(m)
           /\ Answer(BuildNokText(OrElse(NicBadText(m), api_0_error), "Internal error"))
           /\ UNCHANGED model
  <2>1. api_0_error' = None /\ res'.status = "nok"
    BY <1>3 DEF Answer, BuildNokText
  <2>2. res'.error = "Internal error" \/ res'.error = m.dip
    BY <1>1, <1>3 DEF Answer, BuildNokText, OrElse, NicBadText
  <2>3. ResponsesComplete'
    BY <1>1, <2>1, <2>2, MessageAssumption DEF ResponsesComplete, Descriptions
  <2>4. UNCHANGED <<nics, groups>> /\ ModelInv'
    BY <1>1, <1>3 DEF model, ModelInv
  <2> QED BY <2>1, <2>3, <2>4 DEF Api0Inv, Harmless
<1>4. CASE /\ ValidateNic(m) /\ NicConverts(m)
           /\ nics' = [nics EXCEPT ![m.id] = ConvertNic(m)]
           /\ UNCHANGED groups
           /\ Accept
  <2>1. ModelInv'
    BY <1>1, <1>4, ConvertsNic, NicChange
  <2> QED BY <1>1, <1>4, <2>1, Accepts, AcceptedStep
<1>5. CASE /\ ValidateNic(m) /\ NicConverts(m) /\ MayFail
           /\ nics' = [nics EXCEPT ![m.id] = None]
           /\ UNCHANGED groups
           /\ Answer(BuildNokError(api_0_error, "no description"))
  <2>1. Nok("no description")
    BY <1>1, <1>5, Fails
  <2>2. api_0_error' = None /\ ResponsesComplete'
    BY <2>1, Complete DEF Descriptions
  <2>3. ModelInv'
    BY <1>1, <1>5, NicChange
  <2>4. Harmless
    BY <1>1, <1>5 DEF Harmless
  <2> QED BY <2>2, <2>3, <2>4 DEF Api0Inv
<1> QED BY <1>2, <1>3, <1>4, <1>5 DEF NicAdd

LEMMA NicUpdateStep ==
  ASSUME Api0Inv, NEW m \in UpdateMessages, NicUpdate(m)
  PROVE  Api0Inv' /\ Harmless
<1>1. api_0_error = None /\ ModelInv /\ m.id \in NicId
  BY MessageAssumption DEF Api0Inv
<1>2. CASE ~ ValidateNicUpdate(m) /\ Refuse("Bad Nic update format")
  BY <1>1, <1>2, Refuses, RefusedStep DEF Descriptions
<1>3. CASE /\ Answer(BuildNokError(api_0_error, "NIC does not exist"))
           /\ UNCHANGED model
  BY <1>1, <1>3, Fails, RefusedStep DEF Descriptions, model
<1>4. CASE /\ ValidateNicUpdate(m) /\ m.id \in Nics
           /\ \E any \in BOOLEAN :
                nics' = [nics EXCEPT ![m.id] = Updated(@, m, any)]
           /\ UNCHANGED groups
           /\ Accept
  <2>1. PICK any \in BOOLEAN :
          nics' = [nics EXCEPT ![m.id] = Updated(nics[m.id], m, any)]
    BY <1>4
  <2>2. NicOk(nics[m.id])
    BY <1>1, <1>4 DEF ModelInv, Nics
  <2>3. NicOk(Updated(nics[m.id], m, any))
    BY <1>4, <2>2, UpdatesNic
  <2>4. ModelInv'
    BY <1>1, <1>4, <2>1, <2>3, NicChange
  <2> QED BY <1>1, <1>4, <2>4, Accepts, AcceptedStep
<1> QED BY <1>2, <1>3, <1>4 DEF NicUpdate

LEMMA ReadStep ==
  ASSUME Api0Inv, NEW what, NEW found, ReadOnly(what, found)
  PROVE  Api0Inv' /\ Harmless
<1>1. api_0_error = None /\ ModelInv
  BY DEF Api0Inv
<1>2. CASE found
  <2>1. Accept /\ UNCHANGED <<nics, groups>>
    BY <1>2 DEF ReadOnly, model
  <2>2. ModelInv'
    BY <1>1, <2>1 DEF ModelInv
  <2> QED BY <1>1, <2>1, <2>2, Accepts, AcceptedStep
<1>3. CASE ~ found
  BY <1>1, <1>3, Refuses, RefusedStep DEF ReadOnly, Descriptions
<1> QED BY <1>2, <1>3

LEMMA NicReadStep ==
  ASSUME Api0Inv, NEW n, NicRead(n)
  PROVE  Api0Inv' /\ Harmless
<1>1. api_0_error = None /\ ModelInv /\ UNCHANGED <<nics, groups>>
  BY DEF Api0Inv, NicRead, model
<1>2. ModelInv'
  BY <1>1 DEF ModelInv
<1>3. CASE n \in Nics
  BY <1>1, <1>2, <1>3, Accepts, AcceptedStep DEF NicRead
<1>4. CASE n \notin Nics
  BY <1>1, <1>4, Fails, RefusedStep DEF NicRead, Descriptions
<1> QED BY <1>3, <1>4

LEMMA NicDelStep ==
  ASSUME Api0Inv, NEW n \in NicId, NicDel(n)
  PROVE  Api0Inv' /\ Harmless
<1>1. ModelInv'
  BY NicChange DEF Api0Inv, NicDel
<1> QED BY <1>1, Accepts, AcceptedStep DEF Api0Inv, NicDel

(* A group that is missing counts as an empty one.                         *)
LEMMA GroupOrEmpty ==
  ASSUME ModelInv, NEW s \in SgId
  PROVE  SgOk(SgOf(s))
BY DEF ModelInv, SgOf, OrElse, NoSg, SgOk

LEMMA SgAddStep ==
  ASSUME Api0Inv, NEW s \in SgId, NEW m \in SgMessages, SgAdd(s, m)
  PROVE  Api0Inv' /\ Harmless
<1>1. api_0_error = None /\ ModelInv
  BY DEF Api0Inv
<1>2. ASSUME NEW text \in Descriptions, Refuse(text) PROVE Api0Inv' /\ Harmless
  BY <1>1, <1>2, Refuses, RefusedStep
<1>3. CASE /\ ValidateSg(m) /\ \A r \in m.rule : RuleConverts(r)
           /\ groups' = [groups EXCEPT ![s] = ConvertSg(m)]
           /\ UNCHANGED nics
           /\ Accept
  <2>1. ModelInv'
    BY <1>1, <1>3, ConvertsSg, GroupChange
  <2> QED BY <1>1, <1>3, <2>1, Accepts, AcceptedStep
<1> QED BY <1>2, <1>3 DEF SgAdd, Descriptions

LEMMA SgDelStep ==
  ASSUME Api0Inv, NEW s \in SgId, SgDel(s)
  PROVE  Api0Inv' /\ Harmless
<1>1. ModelInv'
  BY GroupChange DEF Api0Inv, SgDel
<1> QED BY <1>1, Accepts, AcceptedStep DEF Api0Inv, SgDel

LEMMA RuleRefusedStep ==
  ASSUME Api0Inv, NEW m, RuleRefused(m)
  PROVE  Api0Inv' /\ Harmless /\ res'.status = "nok"
<1>1. ASSUME NEW text \in Descriptions, Refuse(text)
      PROVE  Api0Inv' /\ Harmless /\ res'.status = "nok"
  BY <1>1, Refuses, RefusedStep DEF Api0Inv, Nok
<1> QED BY <1>1 DEF RuleRefused, Descriptions

LEMMA SgRuleAddStep ==
  ASSUME Api0Inv, NEW s \in SgId, NEW m \in RuleMessages, SgRuleAdd(s, m)
  PROVE  Api0Inv' /\ Harmless
<1>1. api_0_error = None /\ ModelInv
  BY DEF Api0Inv
<1>2. CASE RuleRefused(m)
  BY <1>2, RuleRefusedStep
<1>3. CASE /\ ValidateSgRule(m) /\ RuleConverts(m)
           /\ groups' = [groups EXCEPT ![s] = [SgOf(s) EXCEPT
                           !.rules = @ \cup {ConvertRule(m)}]]
           /\ UNCHANGED nics
           /\ Accept
  <2> DEFINE old == SgOf(s)
             new == [old EXCEPT !.rules = old.rules \cup {ConvertRule(m)}]
  <2>1. SgOk(old)
    BY <1>1, GroupOrEmpty
  <2>2. RuleOk(ConvertRule(m))
    BY <1>3, ConvertsRule, MessageAssumption
  <2> HIDE DEF old
  <2>3. new = [members |-> old.members, rules |-> old.rules \cup {ConvertRule(m)}]
    BY <2>1 DEF SgOk
  <2> HIDE DEF new
  <2>4. SgOk(new)
    BY <2>1, <2>2, <2>3 DEF SgOk
  <2>5. groups' = [groups EXCEPT ![s] = new]
    BY <1>3 DEF new, old
  <2>6. ModelInv'
    BY <1>1, <1>3, <2>4, <2>5, GroupChange
  <2> QED BY <1>1, <1>3, <2>6, Accepts, AcceptedStep
<1> QED BY <1>2, <1>3 DEF SgRuleAdd

(* Taking rules and members away from a group.                             *)
LEMMA Removes ==
  ASSUME NEW old, SgOk(old), NEW M \in SUBSET old.members, NEW R \in SUBSET old.rules
  PROVE  SgOk([members |-> M, rules |-> R])
BY DEF SgOk

LEMMA SgRuleDelStep ==
  ASSUME Api0Inv, NEW s \in SgId, NEW m \in RuleMessages, SgRuleDel(s, m)
  PROVE  Api0Inv' /\ Harmless
<1>1. api_0_error = None /\ ModelInv
  BY DEF Api0Inv
<1>2. CASE RuleRefused(m)
  BY <1>2, RuleRefusedStep
<1>3. CASE /\ ValidateSgRule(m) /\ RuleConverts(m)
           /\ groups' = IF s \notin Groups THEN groups
                        ELSE [groups EXCEPT ![s].rules = @ \ {ConvertRule(m)}]
           /\ UNCHANGED nics
           /\ Accept
  <2>1. ASSUME s \notin Groups PROVE ModelInv'
    BY <1>1, <1>3, <2>1 DEF ModelInv
  <2>2. ASSUME s \in Groups PROVE ModelInv'
    <3> DEFINE old == groups[s]
    <3>1. SgOk(old)
      BY <1>1, <2>2 DEF ModelInv, Groups
    <3> HIDE DEF old
    <3> DEFINE new == [old EXCEPT !.rules = old.rules \ {ConvertRule(m)}]
    <3>2. new = [members |-> old.members, rules |-> old.rules \ {ConvertRule(m)}]
      BY <3>1 DEF SgOk
    <3> HIDE DEF new
    <3>3. SgOk(new)
      BY <3>1, <3>2, Removes
    <3>4. groups' = [groups EXCEPT ![s] = new]
      BY <1>1, <1>3, <2>2 DEF new, old, ModelInv
    <3> QED BY <1>1, <1>3, <3>3, <3>4, GroupChange
  <2>3. ModelInv'
    BY <2>1, <2>2
  <2> QED BY <1>1, <1>3, <2>3, Accepts, AcceptedStep
<1> QED BY <1>2, <1>3 DEF SgRuleDel

LEMMA SgMemberAddStep ==
  ASSUME Api0Inv, NEW s \in SgId, NEW t \in Text, SgMemberAdd(s, t)
  PROVE  Api0Inv' /\ Harmless
<1>1. api_0_error = None /\ ModelInv
  BY DEF Api0Inv
<1>2. CASE Refuse("Bad IP format")
  BY <1>1, <1>2, Refuses, RefusedStep DEF Descriptions
<1>3. CASE /\ ValidateIp(t)
           /\ groups' = [groups EXCEPT ![s] = [SgOf(s) EXCEPT
                           !.members = @ \cup {SetIp(t)}]]
           /\ UNCHANGED nics
           /\ Accept
  <2> DEFINE old == SgOf(s)
             new == [old EXCEPT !.members = old.members \cup {SetIp(t)}]
  <2>1. SgOk(old)
    BY <1>1, GroupOrEmpty
  <2>2. IpOk(SetIp(t))
    BY <1>3, ConvertsIp
  <2> HIDE DEF old
  <2>3. new = [members |-> old.members \cup {SetIp(t)}, rules |-> old.rules]
    BY <2>1 DEF SgOk
  <2> HIDE DEF new
  <2>4. SgOk(new)
    BY <2>1, <2>2, <2>3 DEF SgOk
  <2>5. groups' = [groups EXCEPT ![s] = new]
    BY <1>3 DEF new, old
  <2>6. ModelInv'
    BY <1>1, <1>3, <2>4, <2>5, GroupChange
  <2> QED BY <1>1, <1>3, <2>6, Accepts, AcceptedStep
<1> QED BY <1>2, <1>3 DEF SgMemberAdd

LEMMA SgMemberDelStep ==
  ASSUME Api0Inv, NEW s \in SgId, NEW t \in Text, SgMemberDel(s, t)
  PROVE  Api0Inv' /\ Harmless
<1>1. api_0_error = None /\ ModelInv
  BY DEF Api0Inv
<1>2. CASE Refuse("Bad IP format")
  BY <1>1, <1>2, Refuses, RefusedStep DEF Descriptions
<1>3. CASE /\ groups' = IF s \notin Groups THEN groups
                        ELSE [groups EXCEPT ![s].members = @ \ {SetIp(t)}]
           /\ UNCHANGED nics
           /\ Accept
  <2>1. ASSUME s \notin Groups PROVE ModelInv'
    BY <1>1, <1>3, <2>1 DEF ModelInv
  <2>2. ASSUME s \in Groups PROVE ModelInv'
    <3> DEFINE old == groups[s]
    <3>1. SgOk(old)
      BY <1>1, <2>2 DEF ModelInv, Groups
    <3> HIDE DEF old
    <3> DEFINE new == [old EXCEPT !.members = old.members \ {SetIp(t)}]
    <3>2. new = [members |-> old.members \ {SetIp(t)}, rules |-> old.rules]
      BY <3>1 DEF SgOk
    <3> HIDE DEF new
    <3>3. SgOk(new)
      BY <3>1, <3>2, Removes
    <3>4. groups' = [groups EXCEPT ![s] = new]
      BY <1>1, <1>3, <2>2 DEF new, old, ModelInv
    <3> QED BY <1>1, <1>3, <3>3, <3>4, GroupChange
  <2>3. ModelInv'
    BY <2>1, <2>2
  <2> QED BY <1>1, <1>3, <2>3, Accepts, AcceptedStep
<1> QED BY <1>2, <1>3 DEF SgMemberDel

(* Every request keeps the invariant, and harms nothing when it fails.     *)
LEMMA Step ==
  Api0Inv /\ [Next]_vars => Api0Inv' /\ [Harmless]_vars
<1> SUFFICES ASSUME Api0Inv, [Next]_vars
             PROVE  Api0Inv' /\ [Harmless]_vars
  OBVIOUS
<1>1. CASE UNCHANGED vars
  BY <1>1 DEF vars, Api0Inv, ModelInv, ResponsesComplete
<1>2. CASE NicRequest
  BY <1>2, NicAddStep, NicUpdateStep, NicDelStep, NicReadStep, ReadStep
  DEF NicRequest, NicDetails
<1>3. CASE SgRequest
  <2> PICK s \in SgId :
        \/ \E m \in SgMessages : SgAdd(s, m)
        \/ SgDel(s) \/ SgRuleList(s) \/ SgMemberList(s)
        \/ \E m \in RuleMessages : SgRuleAdd(s, m) \/ SgRuleDel(s, m)
        \/ \E t \in Text : SgMemberAdd(s, t) \/ SgMemberDel(s, t)
    BY <1>3 DEF SgRequest
  <2>1. CASE SgRuleList(s)
    BY <2>1, ReadStep DEF SgRuleList
  <2>2. CASE SgMemberList(s)
    BY <2>2, ReadStep DEF SgMemberList
  <2> QED BY <2>1, <2>2, SgAddStep, SgDelStep, SgRuleAddStep, SgRuleDelStep,
             SgMemberAddStep, SgMemberDelStep
<1>4. ASSUME NEW what, NEW found, ReadOnly(what, found)
      PROVE  Api0Inv' /\ [Harmless]_vars
  BY <1>4, ReadStep
<1>5. ASSUME NEW s, SgDetails(s) PROVE Api0Inv' /\ [Harmless]_vars
  BY <1>4, <1>5 DEF SgDetails
<1> QED BY <1>1, <1>2, <1>3, <1>4, <1>5 DEF Next, Process

LEMMA Start ==
  Init => Api0Inv
BY ApiAssumption DEF Init, Api0Inv, ModelInv, ResponsesComplete
-----------------------------------------------------------------------------
(* From the model back to messages, and again into a model.                *)

(* A dumped NIC is accepted and restored, its type aside.                  *)
LEMMA NicRestores ==
  ASSUME NEW n, NEW nic, NicOk(nic)
  PROVE  LET m == NicMessage(n, nic)
         IN  /\ ValidateNic(m) /\ NicConverts(m)
             /\ [ConvertNic(m) EXCEPT !.type = nic.type] = nic
<1> DEFINE m == NicMessage(n, nic)
           back == ConvertNic(m)
<1>1. /\ m.mac = "good" /\ m.vni = nic.vni /\ m.ip = nic.ips
      /\ m.security_group = nic.sgs /\ m.ip_anti_spoof = nic.antiSpoof
      /\ m.packet_trace = nic.trace /\ m.packet_trace_path = nic.path
      /\ m.bypass_filtering = nic.bypass /\ m.type = "VHOST_USER_SERVER"
  BY DEF NicMessage
<1> HIDE DEF m
<1>2. ValidateNic(m) /\ NicConverts(m)
  BY <1>1 DEF ValidateNic, NicConverts, NicOk, IpOk
<1>3. {SetIp(t) : t \in nic.ips} = nic.ips
  BY DEF NicOk, IpOk, SetIp
<1>4. /\ back.vni = nic.vni /\ back.ips = nic.ips /\ back.sgs = nic.sgs
      /\ back.antiSpoof = nic.antiSpoof /\ back.trace = nic.trace
      /\ back.path = nic.path /\ back.bypass = nic.bypass
      /\ back = [vni |-> back.vni, ips |-> back.ips, sgs |-> back.sgs,
                 antiSpoof |-> back.antiSpoof, trace |-> back.trace,
                 path |-> back.path, bypass |-> back.bypass, type |-> back.type]
  BY <1>1, <1>3 DEF ConvertNic, OrElse, NicOk
<1> HIDE DEF back
<1>5. [back EXCEPT !.type = nic.type]
        = [vni |-> nic.vni, ips |-> nic.ips, sgs |-> nic.sgs,
           antiSpoof |-> nic.antiSpoof, trace |-> nic.trace, path |-> nic.path,
           bypass |-> nic.bypass, type |-> nic.type]
  BY <1>4
<1>6. [back EXCEPT !.type = nic.type] = nic
  BY <1>5 DEF NicOk, IsNic
<1> QED BY <1>2, <1>6 DEF back, m

(* What the CIDR of a rule is when the rule has a source.                  *)
LEMMA Sources ==
  ASSUME NEW r, RuleOk(r), ~ Sourceless(r)
  PROVE  IF r.security_group = EmptyText THEN CidrOk(r.cidr) /\ r.cidr # None
         ELSE r.cidr = NoCidr
BY MessageAssumption DEF RuleOk, Sourceless, CidrOk

(* A dumped rule is accepted and filters the same packets.                 *)
LEMMA RuleRestores ==
  ASSUME NEW r, RuleOk(r), ~ Sourceless(r)
  PROVE  LET m == RuleMessage(r)
         IN  /\ ValidateSgRule(m) /\ RuleConverts(m)
             /\ Effect(ConvertRule(m)) = Effect(r)
<1> DEFINE m == RuleMessage(r)
           back == ConvertRule(m)
<1>1. /\ m.direction = r.direction /\ m.protocol = r.protocol
      /\ m.port_start = (IF TcpOrUdp(r.protocol) THEN r.port_start ELSE None)
      /\ m.port_end = (IF TcpOrUdp(r.protocol) THEN r.port_end ELSE None)
      /\ m.cidr = (IF r.security_group = EmptyText THEN r.cidr ELSE None)
      /\ m.security_group = (IF r.security_group = EmptyText THEN None
                             ELSE r.security_group)
  BY DEF RuleMessage
<1> HIDE DEF m
<1>2. /\ r.port_start # None /\ r.port_end # None
      /\ r.security_group # None /\ EmptyText # None
  BY ApiAssumption, MessageAssumption DEF RuleOk
<1>3. \/ m.security_group = None /\ m.cidr # None /\ ValidateCidr(m.cidr)
      \/ m.security_group # None /\ m.cidr = None
  BY <1>1, <1>2, Sources DEF CidrOk
<1>4. ValidateSgRule(m) /\ RuleConverts(m)
  BY <1>1, <1>2, <1>3, SMT DEF RuleOk, ValidateSgRule, RuleConverts, MaxPort
<1>5. /\ back.direction = r.direction /\ back.protocol = r.protocol
      /\ back.security_group = r.security_group
      /\ TcpOrUdp(r.protocol) =>
           back.port_start = r.port_start /\ back.port_end = r.port_end
  BY <1>1, <1>2 DEF ConvertRule
<1>6. back.cidr.address = r.cidr.address /\ back.cidr.mask_size = r.cidr.mask_size
  <2>1. CASE r.security_group = EmptyText
    <3>1. back.cidr = ConvertCidr(r.cidr)
      BY <1>1, <2>1 DEF ConvertRule
    <3>2. CidrOk(r.cidr)
      BY <2>1, Sources
    <3> QED BY <3>1, <3>2 DEF ConvertCidr, SetIp, CidrOk, IpOk
  <2>2. CASE r.security_group # EmptyText
    <3>1. back.cidr = NoCidr
      BY <1>1, <1>2, <2>2 DEF ConvertRule
    <3>2. r.cidr = NoCidr
      BY <2>2, Sources
    <3> QED BY <3>1, <3>2
  <2> QED BY <2>1, <2>2
<1> HIDE DEF back
<1>7. Effect(back) = Effect(r)
  BY <1>5, <1>6 DEF Effect
<1> QED BY <1>4, <1>7 DEF back, m

(* So is a dumped group.                                                   *)
LEMMA SgRestores ==
  ASSUME NEW g, SgOk(g), \A r \in g.rules : ~ Sourceless(r)
  PROVE  LET m == SgMessage(g)
         IN  /\ ValidateSg(m) /\ \A r \in m.rule : RuleConverts(r)
             /\ SgEffect(ConvertSg(m)) = SgEffect(g)
<1> DEFINE m == SgMessage(g)
           back == ConvertSg(m)
<1>1. m.member = g.members /\ m.rule = {RuleMessage(r) : r \in g.rules}
  BY DEF SgMessage
<1> HIDE DEF m
<1>2. ASSUME NEW r \in g.rules
      PROVE  /\ ValidateSgRule(RuleMessage(r)) /\ RuleConverts(RuleMessage(r))
             /\ Effect(ConvertRule(RuleMessage(r))) = Effect(r)
  BY RuleRestores DEF SgOk
<1>3. ValidateSg(m) /\ \A r \in m.rule : RuleConverts(r)
  BY <1>1, <1>2 DEF ValidateSg, SgOk, IpOk
<1>4. back.members = g.members
  BY <1>1 DEF ConvertSg, SgOk, IpOk, SetIp
<1>5. back.rules = {ConvertRule(RuleMessage(r)) : r \in g.rules}
  BY <1>1 DEF ConvertSg
<1> HIDE DEF back
<1>6. {Effect(r) : r \in back.rules} = {Effect(r) : r \in g.rules}
  BY <1>2, <1>5
<1>7. SgEffect(back) = SgEffect(g)
  BY <1>4, <1>6 DEF SgEffect
<1> QED BY <1>3, <1>7 DEF back, m

LEMMA Restores ==
  ModelInv => DumpRestores
<1> SUFFICES ASSUME ModelInv PROVE DumpRestores
  OBVIOUS
<1>1. \A n \in Nics : NicOk(nics[n])
  BY DEF ModelInv, Nics
<1>2. \A s \in Groups : SgOk(groups[s])
  BY DEF ModelInv, Groups
<1> QED BY <1>1, <1>2, NicRestores, SgRestores DEF DumpRestores

LEMMA WellFormed ==
  ModelInv => RulesWellFormed
<1> SUFFICES ASSUME ModelInv PROVE RulesWellFormed
  OBVIOUS
<1>1. ASSUME NEW p \in Int, p >= -1, p <= 255 PROVE p \in -1..255
  BY <1>1
<1>2. ASSUME NEW a \in Nat, NEW b \in Nat, a <= b, b <= MaxPort
      PROVE  a \in 0..MaxPort /\ b \in a..MaxPort
  BY <1>2, SMT DEF MaxPort
<1>3. ASSUME NEW s \in Groups, NEW r \in groups[s].rules PROVE RuleOk(r)
  BY DEF ModelInv, Groups, SgOk
<1>4. ASSUME NEW r, RuleOk(r), r.security_group = EmptyText
      PROVE  ValidateCidr(r.cidr) \/ Sourceless(r)
  BY <1>4 DEF RuleOk, CidrOk, Sourceless
<1>5. ASSUME NEW r, RuleOk(r)
      PROVE  /\ r.protocol \in -1..255
             /\ TcpOrUdp(r.protocol) => /\ r.port_start \in 0..MaxPort
                                        /\ r.port_end \in r.port_start..MaxPort
  BY <1>1, <1>2, <1>5 DEF RuleOk
<1> QED BY <1>3, <1>4, <1>5 DEF RulesWellFormed
-----------------------------------------------------------------------------
(* Deleting rules.                                                         *)

Tidy(r) == ~ TcpOrUdp(r.protocol) => r.port_start = 0 /\ r.port_end = 0

(* Two rules of a model with tidy clients that filter the same packets are *)
(* the same rule, whose hash is the key of Sg::rules.                      *)
LEMMA SameEffect ==
  ASSUME NEW a, NEW b, RuleOk(a), RuleOk(b), Tidy(a), Tidy(b), Effect(a) = Effect(b)
  PROVE  a = b
<1>1. /\ a.direction = b.direction /\ a.protocol = b.protocol
      /\ a.security_group = b.security_group
      /\ TcpOrUdp(a.protocol) => a.port_start = b.port_start /\ a.port_end = b.port_end
      /\ Canonical[a.cidr.address] = Canonical[b.cidr.address]
      /\ a.cidr.mask_size = b.cidr.mask_size
  BY DEF Effect
<1>2. a.port_start = b.port_start /\ a.port_end = b.port_end
  BY <1>1 DEF Tidy
<1>3. a.cidr = b.cidr
  <2>1. ASSUME NEW c, CidrOk(c), NEW d, CidrOk(d) \/ d = NoCidr,
               Canonical[c.address] = Canonical[d.address],
               c.mask_size = d.mask_size
        PROVE  c = d
    <3>1. CASE CidrOk(d)
      <4>1. /\ c \in [address : Text, mask_size : Nat]
            /\ d \in [address : Text, mask_size : Nat]
            /\ c.address = d.address
        BY <2>1, <3>1 DEF CidrOk, IpOk
      <4> QED BY <2>1, <4>1
    <3>2. CASE d = NoCidr
      <4>1. Family[Canonical[d.address]] = "bad"
        BY <3>2, ApiAssumption DEF NoCidr
      <4>2. Family[Canonical[c.address]] # "bad"
        BY <2>1, ApiAssumption DEF CidrOk, IpOk, ValidateIp
      <4> QED BY <2>1, <4>1, <4>2
    <3> QED BY <2>1, <3>1, <3>2
  <2>2. (CidrOk(a.cidr) \/ a.cidr = NoCidr) /\ (CidrOk(b.cidr) \/ b.cidr = NoCidr)
    BY DEF RuleOk
  <2> QED BY <1>1, <2>1, <2>2
<1> QED BY <1>1, <1>2, <1>3 DEF RuleOk

(* A tidy message gives a tidy rule.                                       *)
LEMMA ConvertsTidy ==
  ASSUME NEW m, TidyRule(m) PROVE Tidy(ConvertRule(m))
BY DEF TidyRule, Tidy, ConvertRule

LEMMA TidyStep ==
  TidyClients /\ ModelInv /\ TidyInv /\ [Next]_vars => TidyInv'
<1> SUFFICES ASSUME TidyClients, ModelInv, TidyInv, [Next]_vars PROVE TidyInv'
  OBVIOUS
<1> DEFINE AllTidy(g) == \A r \in g.rules : Tidy(r)
<1>1. \A s \in SgId : groups[s] # None => AllTidy(groups[s])
  BY DEF TidyInv, Groups, Tidy
<1>2. ASSUME NEW s \in SgId, NEW g, g = None \/ AllTidy(g),
             groups' = [groups EXCEPT ![s] = g]
      PROVE  TidyInv'
  <2>1. \A u \in SgId : groups'[u] # None => AllTidy(groups'[u])
    BY <1>1, <1>2 DEF ModelInv
  <2> QED BY <2>1 DEF TidyInv, Groups, Tidy
<1>3. ASSUME groups' = groups PROVE TidyInv'
  BY <1>3 DEF TidyInv, Groups
<1>4. ASSUME NEW s \in SgId PROVE AllTidy(SgOf(s))
  BY <1>1 DEF SgOf, OrElse, NoSg
<1>5. ASSUME NEW s \in SgId, NEW m \in SgMessages, SgAdd(s, m) PROVE TidyInv'
  <2>1. CASE groups' = [groups EXCEPT ![s] = ConvertSg(m)]
    <3>1. AllTidy(ConvertSg(m))
      BY ConvertsTidy DEF ConvertSg, TidyClients
    <3> QED BY <1>2, <2>1, <3>1
  <2> QED BY <1>3, <1>5, <2>1 DEF SgAdd, Refuse, model
<1>6. ASSUME NEW s \in SgId, NEW m \in RuleMessages, SgRuleAdd(s, m) PROVE TidyInv'
  <2> DEFINE new == [SgOf(s) EXCEPT !.rules = @ \cup {ConvertRule(m)}]
  <2>1. CASE groups' = [groups EXCEPT ![s] = new]
    <3>1. new.rules = SgOf(s).rules \cup {ConvertRule(m)}
      BY GroupOrEmpty DEF SgOk
    <3>2. Tidy(ConvertRule(m))
      BY ConvertsTidy DEF TidyClients
    <3> HIDE DEF new
    <3>3. AllTidy(new)
      BY <1>4, <3>1, <3>2
    <3> QED BY <1>2, <2>1, <3>3
  <2> QED BY <1>3, <1>6, <2>1 DEF SgRuleAdd, RuleRefused, Refuse, model
<1>7. ASSUME NEW s \in SgId, NEW m \in RuleMessages, SgRuleDel(s, m) PROVE TidyInv'
  <2> DEFINE old == groups[s]
             new == [old EXCEPT !.rules = old.rules \ {ConvertRule(m)}]
  <2>1. CASE s \in Groups /\ groups' = [groups EXCEPT ![s] = new]
    <3>1. SgOk(old) /\ AllTidy(old)
      BY <1>1, <2>1 DEF ModelInv, Groups
    <3> HIDE DEF old
    <3>2. new.rules = old.rules \ {ConvertRule(m)}
      BY <3>1 DEF SgOk
    <3> HIDE DEF new
    <3>3. AllTidy(new)
      BY <3>1, <3>2
    <3> QED BY <1>2, <2>1, <3>3
  <2>2. \/ groups' = groups
        \/ s \in Groups /\ groups' = [groups EXCEPT ![s] = new]
    BY <1>7 DEF SgRuleDel, RuleRefused, Refuse, model, ModelInv
  <2> QED BY <1>3, <2>1, <2>2
<1>8. ASSUME NEW s \in SgId, NEW t \in Text, SgMemberAdd(s, t) PROVE TidyInv'
  <2> DEFINE new == [SgOf(s) EXCEPT !.members = @ \cup {SetIp(t)}]
  <2>1. CASE groups' = [groups EXCEPT ![s] = new]
    <3>1. new.rules = SgOf(s).rules
      BY GroupOrEmpty DEF SgOk
    <3> HIDE DEF new
    <3> QED BY <1>2, <1>4, <2>1, <3>1
  <2> QED BY <1>3, <1>8, <2>1 DEF SgMemberAdd, Refuse, model
<1>9. ASSUME NEW s \in SgId, NEW t \in Text, SgMemberDel(s, t) PROVE TidyInv'
  <2> DEFINE old == groups[s]
             new == [old EXCEPT !.members = old.members \ {SetIp(t)}]
  <2>1. CASE s \in Groups /\ groups' = [groups EXCEPT ![s] = new]
    <3>1. SgOk(old) /\ AllTidy(old)
      BY <1>1, <2>1 DEF ModelInv, Groups
    <3> HIDE DEF old
    <3>2. new.rules = old.rules
      BY <3>1 DEF SgOk
    <3> HIDE DEF new
    <3> QED BY <1>2, <2>1, <3>1, <3>2
  <2>2. \/ groups' = groups
        \/ s \in Groups /\ groups' = [groups EXCEPT ![s] = new]
    BY <1>9 DEF SgMemberDel, Refuse, model, ModelInv
  <2> QED BY <1>3, <2>1, <2>2
<1>10. ASSUME NEW s \in SgId, SgDel(s) PROVE TidyInv'
  BY <1>2, <1>10 DEF SgDel
<1>11. ASSUME NEW what, NEW found, ReadOnly(what, found) PROVE groups' = groups
  BY <1>11 DEF ReadOnly, Refuse, model
<1>12. CASE NicRequest
  <2>1. groups' = groups
    BY <1>11, <1>12
    DEF NicRequest, NicAdd, NicUpdate, NicDel, NicRead, NicDetails, Refuse, model
  <2> QED BY <1>3, <2>1
<1>13. CASE SgRequest
  <2> PICK s \in SgId :
        \/ \E m \in SgMessages : SgAdd(s, m)
        \/ SgDel(s) \/ SgRuleList(s) \/ SgMemberList(s)
        \/ \E m \in RuleMessages : SgRuleAdd(s, m) \/ SgRuleDel(s, m)
        \/ \E t \in Text : SgMemberAdd(s, t) \/ SgMemberDel(s, t)
    BY <1>13 DEF SgRequest
  <2>1. CASE SgRuleList(s) \/ SgMemberList(s)
    BY <1>3, <1>11, <2>1 DEF SgRuleList, SgMemberList
  <2> QED BY <1>5, <1>6, <1>7, <1>8, <1>9, <1>10, <2>1
<1>14. CASE UNCHANGED vars
  BY <1>3, <1>14 DEF vars
<1> QED BY <1>3, <1>11, <1>12, <1>13, <1>14 DEF Next, Process, SgDetails

(* RuleDelRemoves of one step.                                             *)
Removed ==
  req'[1] = "sg_rule_del" /\ res'.status = "ok" /\ groups'[req'[2]] # None =>
    Effect(ConvertRule(req'[3])) \notin {Effect(r) : r \in groups'[req'[2]].rules}

LEMMA RuleDelStep ==
  ASSUME TidyClients, Api0Inv, TidyInv, NEW s \in SgId, NEW m \in RuleMessages,
         SgRuleDel(s, m)
  PROVE  Removed
<1>1. req' = <<"sg_rule_del", s, m>>
  BY DEF SgRuleDel
<1> SUFFICES ASSUME res'.status = "ok", groups'[s] # None
             PROVE  Effect(ConvertRule(m)) \notin {Effect(r) : r \in groups'[s].rules}
  BY <1>1 DEF Removed
<1>2. ~ RuleRefused(m)
  BY RuleRefusedStep
<1>3. /\ ValidateSgRule(m) /\ RuleConverts(m)
      /\ groups' = IF s \notin Groups THEN groups
                   ELSE [groups EXCEPT ![s].rules = @ \ {ConvertRule(m)}]
  BY <1>2 DEF SgRuleDel
<1>4. s \in Groups
  BY <1>3 DEF Groups
<1> DEFINE old == groups[s]
<1>5. SgOk(old)
  BY <1>4 DEF Api0Inv, ModelInv, Groups
<1>6. groups'[s] = [old EXCEPT !.rules = old.rules \ {ConvertRule(m)}]
  BY <1>3, <1>4 DEF Api0Inv, ModelInv
<1>7. ASSUME NEW r \in old.rules PROVE RuleOk(r) /\ Tidy(r)
  BY <1>4, <1>5 DEF SgOk, TidyInv, Tidy
<1> HIDE DEF old
<1>8. groups'[s].rules = old.rules \ {ConvertRule(m)}
  BY <1>5, <1>6 DEF SgOk
<1>9. RuleOk(ConvertRule(m)) /\ Tidy(ConvertRule(m))
  BY <1>3, ConvertsRule, ConvertsTidy, MessageAssumption DEF TidyClients
<1>10. ASSUME NEW r \in old.rules \ {ConvertRule(m)}
       PROVE  Effect(r) # Effect(ConvertRule(m))
  BY <1>7, <1>9, SameEffect
<1> QED BY <1>8, <1>10

LEMMA RemovedStep ==
  TidyClients /\ Api0Inv /\ TidyInv /\ [Next]_vars => [Removed]_vars
<1> SUFFICES ASSUME TidyClients, Api0Inv, TidyInv, Next, req'[1] = "sg_rule_del"
             PROVE  Removed
  BY DEF Removed
<1>1. ASSUME NEW what, NEW found, ReadOnly(what, found), what # "sg_rule_del"
      PROVE  FALSE
  BY <1>1 DEF ReadOnly
<1>2. CASE NicRequest
  <2>1. ASSUME NEW m, NicAdd(m) \/ NicUpdate(m) PROVE FALSE
    <3>1. req' = <<"nic_add", m>> \/ req' = <<"nic_update", m>>
      BY <2>1 DEF NicAdd, NicUpdate
    <3> QED BY <3>1
  <2>2. ASSUME NEW n, NicDel(n) \/ NicRead(n) PROVE FALSE
    <3>1. req' = <<"nic_del", n>> \/ req' = <<"nic_stats", None>>
      BY <2>2 DEF NicDel, NicRead
    <3> QED BY <3>1
  <2>3. ASSUME NEW n, NicDetails(n) PROVE FALSE
    BY <1>1, <2>3 DEF NicDetails
  <2> QED BY <1>2, <2>1, <2>2, <2>3 DEF NicRequest
<1>3. CASE SgRequest
  <2> PICK s \in SgId :
        \/ \E m \in SgMessages : SgAdd(s, m)
        \/ SgDel(s) \/ SgRuleList(s) \/ SgMemberList(s)
        \/ \E m \in RuleMessages : SgRuleAdd(s, m) \/ SgRuleDel(s, m)
        \/ \E t \in Text : SgMemberAdd(s, t) \/ SgMemberDel(s, t)
    BY <1>3 DEF SgRequest
  <2>1. ~ SgRuleList(s) /\ ~ SgMemberList(s)
    BY <1>1 DEF SgRuleList, SgMemberList
  <2>2. ASSUME NEW m, SgAdd(s, m) \/ SgRuleAdd(s, m) PROVE FALSE
    <3>1. req' = <<"sg_add", m>> \/ req' = <<"sg_rule_add", s, m>>
      BY <2>2 DEF SgAdd, SgRuleAdd
    <3> QED BY <3>1
  <2>3. ASSUME NEW t, SgMemberAdd(s, t) \/ SgMemberDel(s, t) PROVE FALSE
    <3>1. req' = <<"sg_member_add", s, t>> \/ req' = <<"sg_member_del", s, t>>
      BY <2>3 DEF SgMemberAdd, SgMemberDel
    <3> QED BY <3>1
  <2>4. ~ SgDel(s)
    BY DEF SgDel
  <2>5. \E m \in RuleMessages : SgRuleDel(s, m)
    BY <2>1, <2>2, <2>3, <2>4
  <2> QED BY <2>5, RuleDelStep
<1> QED BY <1>1, <1>2, <1>3 DEF Next, Process, SgDetails
-----------------------------------------------------------------------------
(* Theorems.                                                               *)

LEMMA Api0Invariant ==
  Spec => []Api0Inv
<1>1. Api0Inv /\ [Next]_vars => Api0Inv'
  BY Step
<1> QED BY Start, <1>1, PTL DEF Spec

(* Every response carries a status, and the text that a failed conversion  *)
(* leaves in api_0_error is told to the client whose request it is about.  *)
THEOREM Api0ResponsesComplete ==
  Spec => []ResponsesComplete
<1>1. Api0Inv => ResponsesComplete
  BY DEF Api0Inv
<1> QED BY <1>1, Api0Invariant, PTL

(* A rule that api_0.cc lets into the model is one FwBuildRule can make a  *)
(* filter of, whatever clients send, or one that was sent with an empty    *)
(* text for its group.                                                     *)
THEOREM Api0RulesWellFormed ==
  Spec => []RulesWellFormed
<1>1. Api0Inv => RulesWellFormed
  BY WellFormed DEF Api0Inv
<1> QED BY <1>1, Api0Invariant, PTL

(* What a dump prints is accepted by a fresh server and gives it the same  *)
(* NICs and groups, but for the groups with a rule without a source.       *)
THEOREM Api0DumpRestores ==
  Spec => []DumpRestores
<1>1. Api0Inv => DumpRestores
  BY Restores DEF Api0Inv
<1> QED BY <1>1, Api0Invariant, PTL

(* A request that is answered with an error changes nothing, except for a  *)
(* NIC whose replacement could not be made.                                *)
THEOREM Api0NokChangesNothing ==
  Spec => NokChangesNothing
<1>1. Api0Inv /\ [Next]_vars => [Harmless]_vars
  BY Step
<1> QED BY <1>1, Api0Invariant, PTL DEF Spec, NokChangesNothing, Harmless

(* SgRuleDel leaves no rule that does the same, when clients set ports for *)
(* TCP and UDP only: the model keeps other ports, and tells rules apart by *)
(* them.                                                                   *)
THEOREM Api0RuleDelRemoves ==
  TidyClients => (Spec => RuleDelRemoves)
<1> SUFFICES ASSUME TidyClients PROVE Spec => RuleDelRemoves
  OBVIOUS
<1>1. Init => TidyInv
  BY DEF Init, TidyInv, Groups
<1>2. Api0Inv /\ TidyInv /\ [Next]_vars => TidyInv'
  BY TidyStep DEF Api0Inv
<1>3. Api0Inv /\ TidyInv /\ [Next]_vars => [Removed]_vars
  BY RemovedStep
<1> QED BY <1>1, <1>2, <1>3, Api0Invariant, PTL DEF Spec, RuleDelRemoves, Removed
=============================================================================
