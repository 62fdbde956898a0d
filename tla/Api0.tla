-------------------------------- MODULE Api0 --------------------------------
(***************************************************************************)
(* Version 0 of the API (api/server/api_0.cc): what a MessageV0 request    *)
(* goes through on its way into app::model and back.  Every handler        *)
(* validates the message, converts it, runs the action of api.cc and       *)
(* builds a response; details requests convert the model back, and         *)
(* "butterfly dump" (api/client/dump.cc) turns them into requests again.   *)
(*                                                                         *)
(* Texts are abstracted: an address has a family and a canonical spelling, *)
(* a MAC address is good or bad.  Lists are sets: the handlers do not keep *)
(* what is already in a list, and compare lists only to save an update.    *)
(***************************************************************************)
EXTENDS Integers

CONSTANTS
  NicId, SgId,    \* ids of NICs and of security groups
  Text,           \* spellings of IP addresses, EmptyText one of them
  EmptyText,      \* the empty string
  Family,         \* Family[t]: what inet_pton makes of t
  Canonical,      \* Canonical[t]: what inet_ntop prints for t
  None,           \* an optional field that is not set
  DefaultPath,    \* DefaultPath[n]: the trace file named after the NIC
  ConfigTrace,    \* app::config.packet_trace
  NicMessages,    \* MessageV0_Nic values clients send
  UpdateMessages, \* MessageV0_NicUpdateReq values clients send
  RuleMessages,   \* MessageV0_Rule values clients send
  SgMessages,     \* MessageV0_Sg values clients send
  MayFail         \* whether Graph::NicAdd may fail

ASSUME ApiAssumption ==
  /\ None \notin Text \cup SgId \cup NicId /\ EmptyText \in Text
  /\ Family \in [Text -> {"v4", "v6", "bad"}] /\ Family[EmptyText] = "bad"
  /\ Canonical \in [Text -> Text]
  /\ \A t \in Text : /\ Canonical[Canonical[t]] = Canonical[t]
                     /\ Family[Canonical[t]] = Family[t]
  /\ ConfigTrace \in BOOLEAN /\ MayFail \in BOOLEAN

(* What the fields of messages may hold: a port, a mask or a VNI is        *)
(* unsigned, a protocol is not, and an optional field may be None.         *)
RuleFields(m) ==
  /\ m.protocol \in Int
  /\ m.port_start \in Nat \cup {None} /\ m.port_end \in Nat \cup {None}
  /\ m.cidr = None \/ m.cidr \in [address : Text, mask_size : Nat]

(* The texts of errors that are the server's own.                          *)
Descriptions ==
  {"Bad NIC format", "Bad Nic update format", "NIC does not exist",
   "Bad Security Group format", "Bad Security Group rule format",
   "Bad IP format", "Internal error", "no description", "not found"}

ASSUME MessageAssumption ==
  /\ None \notin Nat \cup BOOLEAN \cup [address : Text, mask_size : Nat]
  /\ \A n \in NicId : DefaultPath[n] # None
  /\ Descriptions \cap Text = {}
  /\ \A m \in NicMessages : m.id \in NicId /\ m.vni \in Nat /\ m.ip \subseteq Text
  /\ \A m \in UpdateMessages : m.id \in NicId /\ m.ip \subseteq Text
  /\ \A m \in RuleMessages : RuleFields(m)
  /\ \A m \in SgMessages : m.member \subseteq Text /\ \A r \in m.rule : RuleFields(r)

VARIABLES
  nics,         \* app::model.nics: an app::Nic or None for every id
  groups,       \* app::model.security_groups: an app::Sg or None
  api_0_error,  \* the thread's error text, None when it is empty
  req,          \* the last request and its argument
  res           \* the response to it

model == <<nics, groups>>
vars == <<nics, groups, api_0_error, req, res>>

Nics == {n \in NicId : nics[n] # None}
Groups == {s \in SgId : groups[s] # None}
-----------------------------------------------------------------------------
(* Validation.                                                             *)

ValidateIp(t) == Family[t] # "bad"

ValidateCidr(c) ==
  \/ Family[c.address] = "v6" /\ c.mask_size <= 128
  \/ Family[c.address] = "v4" /\ c.mask_size <= 32

MaxPort == 65535
TcpOrUdp(protocol) == protocol \in {6, 17}

(* Mutant of ValidateSgRule: the last port is one too far.                 *)
ValidateSgRuleLoose(m) ==
  /\ m.protocol >= -1 /\ m.protocol <= 255
  /\ TcpOrUdp(m.protocol) =>
       /\ m.port_start # None /\ m.port_end # None
       /\ m.port_start <= MaxPort + 1 /\ m.port_end <= MaxPort + 1
       /\ m.port_start <= m.port_end
  /\ m.security_group = None \/ m.cidr = None
  /\ m.cidr # None => ValidateCidr(m.cidr)

ValidateSgRule(m) ==
  /\ m.protocol >= -1 /\ m.protocol <= 255
  /\ TcpOrUdp(m.protocol) =>
       /\ m.port_start # None /\ m.port_end # None
       /\ m.port_start <= MaxPort /\ m.port_end <= MaxPort
       /\ m.port_start <= m.port_end
  /\ m.security_group = None \/ m.cidr = None
  /\ m.cidr # None => ValidateCidr(m.cidr)

(* The largest 24-bit VNI. *)
MaxVni == 16777215

ValidateNic(m) ==
  /\ m.mac = "good" /\ m.vni <= MaxVni
  /\ \A t \in m.ip : ValidateIp(t)

ValidateNicUpdate(m) ==
  m.ip = {EmptyText} \/ \A t \in m.ip : ValidateIp(t)

ValidateSg(m) ==
  /\ \A t \in m.member : ValidateIp(t)
  /\ \A r \in m.rule : ValidateSgRule(r)
-----------------------------------------------------------------------------
(* Conversion of messages to the model.  An address that cannot be         *)
(* converted leaves its text in api_0_error.                               *)

(* Ip::Set of a valid text: what Ip::Str gives is the canonical spelling.  *)
SetIp(t) == Canonical[t]

(* Mutant of ConvertCidr: the address keeps the client's spelling.         *)
ConvertCidrAsIs(c) == c

ConvertCidr(c) == [address |-> SetIp(c.address), mask_size |-> c.mask_size]
NoCidr == [address |-> EmptyText, mask_size |-> 0]

RuleConverts(m) == m.security_group # None \/ m.cidr # None

(* Fields that are not set are those of Rule::Rule: ports 0, no CIDR and   *)
(* the empty text for a group.  A message that has a security_group may    *)
(* have the empty text there too.                                          *)
ConvertRule(m) ==
  [direction |-> m.direction, protocol |-> m.protocol,
   port_start |-> IF m.port_start = None THEN 0 ELSE m.port_start,
   port_end |-> IF m.port_end = None THEN 0 ELSE m.port_end,
   cidr |-> IF m.security_group = None THEN ConvertCidr(m.cidr) ELSE NoCidr,
   security_group |-> IF m.security_group = None THEN EmptyText
                      ELSE m.security_group]

ConvertSg(m) ==
  [members |-> {SetIp(t) : t \in m.member},
   rules |-> {ConvertRule(r) : r \in m.rule}]

(* The text a failed conversion of a NIC leaves, None when none does.  The *)
(* destination of a bench NIC is not covered by ValidateNic.               *)
BenchSender(m) == m.type = "BENCH" /\ m.btype = "ICMP_SND_LIKE"
NicBadText(m) ==
  IF BenchSender(m) /\ m.dip # None /\ Family[m.dip] = "bad" THEN m.dip
  ELSE None

NicConverts(m) ==
  m.type = "BENCH" =>
    \/ m.btype = "ICMP_RCV_LIKE"
    \/ m.btype = "ICMP_SND_LIKE" /\ m.dip # None /\ Family[m.dip] # "bad"

OrElse(v, default) == IF v = None THEN default ELSE v

ConvertNic(m) ==
  [vni |-> m.vni, ips |-> {SetIp(t) : t \in m.ip}, sgs |-> m.security_group,
   antiSpoof |-> OrElse(m.ip_anti_spoof, FALSE),
   trace |-> OrElse(m.packet_trace, ConfigTrace),
   path |-> OrElse(m.packet_trace_path, DefaultPath[m.id]),
   bypass |-> OrElse(m.bypass_filtering, FALSE),
   type |-> OrElse(m.type, "VHOST_USER_SERVER")]

(* Api::NicUpdate.  packet_trace is read before it is set when the message *)
(* does not have it: any is the value found there.                         *)
ConvertNicUpdate(m, any) ==
  [ip |-> {SetIp(t) : t \in m.ip \ {EmptyText}},
   ip_overwrite |-> m.ip # {},
   sgs |-> m.security_group \ {EmptyText},
   sgs_overwrite |-> m.security_group # {},
   path |-> IF OrElse(m.packet_trace, any)
            THEN OrElse(m.packet_trace_path, DefaultPath[m.id])
            ELSE DefaultPath[m.id]]
-----------------------------------------------------------------------------
(* Conversion of the model to messages.                                    *)

(* Here and in FwBuildRule a rule is on a group when its text is not empty. *)
RuleMessage(r) ==
  [direction |-> r.direction, protocol |-> r.protocol,
   port_start |-> IF TcpOrUdp(r.protocol) THEN r.port_start ELSE None,
   port_end |-> IF TcpOrUdp(r.protocol) THEN r.port_end ELSE None,
   cidr |-> IF r.security_group = EmptyText THEN r.cidr ELSE None,
   security_group |-> IF r.security_group = EmptyText THEN None
                      ELSE r.security_group]

SgMessage(g) ==
  [member |-> g.members, rule |-> {RuleMessage(r) : r \in g.rules}]

(* Mutant of NicMessage: bypass_filtering is left to its default.          *)
NicMessageFiltered(n, nic) ==
  [id |-> n, mac |-> "good", vni |-> nic.vni, ip |-> nic.ips,
   security_group |-> nic.sgs, ip_anti_spoof |-> nic.antiSpoof,
   packet_trace |-> nic.trace, packet_trace_path |-> nic.path,
   bypass_filtering |-> None, type |-> "VHOST_USER_SERVER",
   btype |-> None, dip |-> None]

(* The type is always VHOST_USER_SERVER.                                   *)
NicMessage(n, nic) ==
  [id |-> n, mac |-> "good", vni |-> nic.vni, ip |-> nic.ips,
   security_group |-> nic.sgs, ip_anti_spoof |-> nic.antiSpoof,
   packet_trace |-> nic.trace, packet_trace_path |-> nic.path,
   bypass_filtering |-> nic.bypass, type |-> "VHOST_USER_SERVER",
   btype |-> None, dip |-> None]
-----------------------------------------------------------------------------
(* Responses.  Status is "unset" when the required field of Status is left *)
(* out; error tells what the description is about.  left is what becomes   *)
(* of api_0_error, pending what it was.                                    *)

BuildOkRes(pending) ==
  [res |-> [status |-> "ok", error |-> None], left |-> pending]

(* Mutant of BuildNokText: api_0_error is not emptied.                     *)
BuildNokTextKeeps(pending, text) ==
  [res |-> [status |-> "nok", error |-> OrElse(pending, text)],
   left |-> pending]

(* BuildNokRes with a text: what a conversion has left takes its place.    *)
BuildNokText(pending, text) ==
  [res |-> [status |-> "nok", error |-> OrElse(pending, text)],
   left |-> None]

(* BuildNokRes with an app::Error: BuildNokRes(res) comes last, and sets   *)
(* the status only when nothing is pending.                                *)
BuildNokError(pending, error) ==
  [res |-> IF pending = None THEN [status |-> "nok", error |-> error]
           ELSE [status |-> "unset", error |-> pending],
   left |-> None]

Answer(r) == res' = r.res /\ api_0_error' = r.left
Refuse(text) == Answer(BuildNokText(api_0_error, text)) /\ UNCHANGED model
Accept == Answer(BuildOkRes(api_0_error))
-----------------------------------------------------------------------------
Init ==
  /\ nics = [n \in NicId |-> None] /\ groups = [s \in SgId |-> None]
  /\ api_0_error = None
  /\ req = <<"none", None>>
  /\ res = [status |-> "ok", error |-> None]

(* A NIC that exists is removed before Graph::NicAdd is called.            *)
NicAdd(m) ==
  /\ req' = <<"nic_add", m>>
  /\ \/ ~ ValidateNic(m) /\ Refuse("Bad NIC format")
     \/ /\ ValidateNic(m) /\ ~ NicConverts(m)
        /\ Answer(BuildNokText(OrElse(NicBadText(m), api_0_error),
                               "Internal error"))
        /\ UNCHANGED model
     \/ /\ ValidateNic(m) /\ NicConverts(m)
        /\ nics' = [nics EXCEPT ![m.id] = ConvertNic(m)]
        /\ UNCHANGED groups
        /\ Accept
     \/ /\ ValidateNic(m) /\ NicConverts(m) /\ MayFail
        /\ nics' = [nics EXCEPT ![m.id] = None]
        /\ UNCHANGED groups
        /\ Answer(BuildNokError(api_0_error, "no description"))

(* Api::ActionNicUpdate on the model; the path of an update is never empty. *)
Updated(nic, m, any) ==
  LET u == ConvertNicUpdate(m, any)
      trace == OrElse(m.packet_trace, nic.trace)
  IN  [vni |-> nic.vni,
       ips |-> IF u.ip_overwrite THEN u.ip ELSE nic.ips,
       sgs |-> IF u.sgs_overwrite THEN u.sgs ELSE nic.sgs,
       antiSpoof |-> OrElse(m.ip_anti_spoof, nic.antiSpoof),
       trace |-> trace,
       path |-> IF trace THEN u.path ELSE nic.path,
       bypass |-> nic.bypass, type |-> nic.type]

NicUpdate(m) ==
  /\ req' = <<"nic_update", m>>
  /\ \/ ~ ValidateNicUpdate(m) /\ Refuse("Bad Nic update format")
     \/ /\ ValidateNicUpdate(m) /\ m.id \notin Nics
        /\ Answer(BuildNokError(api_0_error, "NIC does not exist"))
        /\ UNCHANGED model
     \/ /\ ValidateNicUpdate(m) /\ m.id \in Nics
        /\ \E any \in BOOLEAN :
             nics' = [nics EXCEPT ![m.id] = Updated(@, m, any)]
        /\ UNCHANGED groups
        /\ Accept

(* Deleting what does not exist succeeds.                                  *)
NicDel(n) ==
  /\ req' = <<"nic_del", n>>
  /\ nics' = [nics EXCEPT ![n] = None]
  /\ UNCHANGED groups
  /\ Accept

(* Requests that only read: NicList, SgList, AppStatus, AppConfig and      *)
(* AppQuit; NicDetails and SgDetails of all, or of one that must exist.    *)
ReadOnly(what, found) ==
  /\ req' = <<what, None>>
  /\ IF found THEN Accept /\ UNCHANGED model ELSE Refuse("not found")

NicDetails(n) == ReadOnly("nic_details", n = EmptyText \/ n \in Nics)
SgDetails(s) == ReadOnly("sg_details", s = EmptyText \/ s \in Groups)
SgRuleList(s) == ReadOnly("sg_rule_list", s \in Groups)
SgMemberList(s) == ReadOnly("sg_member_list", s \in Groups)

(* NicExport and NicStats.                                                 *)
NicRead(n) ==
  /\ req' = <<"nic_stats", None>>
  /\ IF n \in Nics THEN Accept
     ELSE Answer(BuildNokError(api_0_error, "NIC does not exist"))
  /\ UNCHANGED model
-----------------------------------------------------------------------------
NoSg == [members |-> {}, rules |-> {}]
SgOf(s) == OrElse(groups[s], NoSg)

SgAdd(s, m) ==
  /\ req' = <<"sg_add", m>>
  /\ \/ ~ ValidateSg(m) /\ Refuse("Bad Security Group format")
     \/ /\ ValidateSg(m) /\ \E r \in m.rule : ~ RuleConverts(r)
        /\ Refuse("Internal error")
     \/ /\ ValidateSg(m) /\ \A r \in m.rule : RuleConverts(r)
        /\ groups' = [groups EXCEPT ![s] = ConvertSg(m)]
        /\ UNCHANGED nics
        /\ Accept

SgDel(s) ==
  /\ req' = <<"sg_del", s>>
  /\ groups' = [groups EXCEPT ![s] = None]
  /\ UNCHANGED nics
  /\ Accept

(* SgRuleAdd and SgRuleDel up to the action.                               *)
RuleRefused(m) ==
  \/ ~ ValidateSgRule(m) /\ Refuse("Bad Security Group rule format")
  \/ ValidateSgRule(m) /\ ~ RuleConverts(m) /\ Refuse("Internal error")

(* A missing group is created.                                             *)
SgRuleAdd(s, m) ==
  /\ req' = <<"sg_rule_add", s, m>>
  /\ \/ RuleRefused(m)
     \/ /\ ValidateSgRule(m) /\ RuleConverts(m)
        /\ groups' = [groups EXCEPT ![s] = [SgOf(s) EXCEPT
                        !.rules = @ \cup {ConvertRule(m)}]]
        /\ UNCHANGED nics
        /\ Accept

(* Deleting from a missing group, or a rule it does not have, succeeds.    *)
SgRuleDel(s, m) ==
  /\ req' = <<"sg_rule_del", s, m>>
  /\ \/ RuleRefused(m)
     \/ /\ ValidateSgRule(m) /\ RuleConverts(m)
        /\ groups' = IF s \notin Groups THEN groups
                     ELSE [groups EXCEPT ![s].rules = @ \ {ConvertRule(m)}]
        /\ UNCHANGED nics
        /\ Accept

(* Mutant of SgMemberAdd: the group is created before the member is looked *)
(* at.                                                                     *)
SgMemberAddFirst(s, t) ==
  /\ req' = <<"sg_member_add", s, t>>
  /\ groups' = [groups EXCEPT ![s] = SgOf(s)] /\ UNCHANGED nics
  /\ Answer(IF ValidateIp(t) THEN BuildOkRes(api_0_error)
            ELSE BuildNokText(api_0_error, "Bad IP format"))

SgMemberAdd(s, t) ==
  /\ req' = <<"sg_member_add", s, t>>
  /\ \/ ~ ValidateIp(t) /\ Refuse("Bad IP format")
     \/ /\ ValidateIp(t)
        /\ groups' = [groups EXCEPT ![s] = [SgOf(s) EXCEPT
                        !.members = @ \cup {SetIp(t)}]]
        /\ UNCHANGED nics
        /\ Accept

SgMemberDel(s, t) ==
  /\ req' = <<"sg_member_del", s, t>>
  /\ \/ ~ ValidateIp(t) /\ Refuse("Bad IP format")
     \/ /\ ValidateIp(t)
        /\ groups' = IF s \notin Groups THEN groups
                     ELSE [groups EXCEPT ![s].members = @ \ {SetIp(t)}]
        /\ UNCHANGED nics
        /\ Accept
-----------------------------------------------------------------------------
NicRequest ==
  \/ \E m \in NicMessages : NicAdd(m)
  \/ \E m \in UpdateMessages : NicUpdate(m)
  \/ \E n \in NicId : NicDel(n) \/ NicRead(n)
  \/ \E n \in NicId \cup {EmptyText} : NicDetails(n)

SgRequest ==
  \E s \in SgId :
    \/ \E m \in SgMessages : SgAdd(s, m)
    \/ SgDel(s) \/ SgRuleList(s) \/ SgMemberList(s)
    \/ \E m \in RuleMessages : SgRuleAdd(s, m) \/ SgRuleDel(s, m)
    \/ \E t \in Text : SgMemberAdd(s, t) \/ SgMemberDel(s, t)

(* Api0::Process: what the request has; a MessageV0 without one is refused. *)
Process ==
  \/ NicRequest
  \/ SgRequest
  \/ \E s \in SgId \cup {EmptyText} : SgDetails(s)
  \/ \E what \in {"nic_list", "sg_list", "app_status", "app_quit"} :
       ReadOnly(what, TRUE)
  \/ ReadOnly("app_config", TRUE) \/ ReadOnly("app_config", FALSE)
  \/ ReadOnly("no request", FALSE)

Next == Process

Spec == Init /\ [][Next]_vars
-----------------------------------------------------------------------------
(* Every response carries a status, which protobuf requires, and an error  *)
(* text left by a conversion is told to the client whose request it is     *)
(* about, never to a later one.                                            *)
ResponsesComplete ==
  /\ res.status # "unset"
  /\ res.error \in Text => req[1] = "nic_add" /\ req[2].dip = res.error

(* A request answered with an error changes nothing, except that a NIC     *)
(* that was to be replaced is gone when its replacement cannot be made.    *)
NokChangesNothing ==
  [][res'.status # "ok" =>
       /\ groups' = groups
       /\ \/ nics' = nics
          \/ /\ req'[1] = "nic_add" /\ ValidateNic(req'[2])
             /\ nics' = [nics EXCEPT ![req'[2].id] = None]]_vars

(* Rules that filter the same packets: ports only count for TCP and UDP,   *)
(* and the spelling of an address does not count.                          *)
Effect(r) ==
  LET ports == TcpOrUdp(r.protocol)
  IN  [direction |-> r.direction, protocol |-> r.protocol,
       port_start |-> IF ports THEN r.port_start ELSE 0,
       port_end |-> IF ports THEN r.port_end ELSE 0,
       cidr |-> [address |-> Canonical[r.cidr.address],
                 mask_size |-> r.cidr.mask_size],
       security_group |-> r.security_group]
SgEffect(g) == [members |-> g.members, rules |-> {Effect(r) : r \in g.rules}]

(* A rule sent with an empty text for its group has neither a group nor a  *)
(* CIDR: FwBuildRule makes "ip6" of it, and a dump prints a CIDR without   *)
(* an address.                                                             *)
Sourceless(r) == r.security_group = EmptyText /\ r.cidr = NoCidr

(* What "butterfly dump" prints is accepted by a fresh server and gives it *)
(* the same NICs and groups: nothing that filters is lost on the way.      *)
(* Only the type of a NIC is, which Convert never writes, and a group with *)
(* a sourceless rule, which SgAdd refuses.                                 *)
DumpRestores ==
  /\ \A n \in Nics :
       LET m == NicMessage(n, nics[n])
       IN  /\ ValidateNic(m) /\ NicConverts(m)
           /\ [ConvertNic(m) EXCEPT !.type = nics[n].type] = nics[n]
  /\ \A s \in Groups :
       LET m == SgMessage(groups[s])
       IN  \/ \E r \in groups[s].rules : Sourceless(r)
           \/ /\ ValidateSg(m) /\ \A r \in m.rule : RuleConverts(r)
              /\ SgEffect(ConvertSg(m)) = SgEffect(groups[s])

(* Every rule in the model is one FwBuildRule can make a filter of: it is  *)
(* on a group or on a valid CIDR, unless it is sourceless.                 *)
RulesWellFormed ==
  \A s \in Groups : \A r \in groups[s].rules :
    /\ r.protocol \in -1..255
    /\ TcpOrUdp(r.protocol) => /\ r.port_start \in 0..MaxPort
                               /\ r.port_end \in r.port_start..MaxPort
    /\ r.security_group = EmptyText => ValidateCidr(r.cidr) \/ Sourceless(r)

(* After a rule was deleted the group has no rule left that does the same, *)
(* however the client spelled its address.                                 *)
RuleDelRemoves ==
  [][req'[1] = "sg_rule_del" /\ res'.status = "ok" /\ groups'[req'[2]] # None =>
       Effect(ConvertRule(req'[3]))
         \notin {Effect(r) : r \in groups'[req'[2]].rules}]_vars
-----------------------------------------------------------------------------
(* The inductive invariant of the proofs, in parts.                        *)

(* An address of the model is valid and in its canonical spelling.         *)
IpOk(t) == t \in Text /\ ValidateIp(t) /\ Canonical[t] = t

IsNic(nic) ==
  nic = [vni |-> nic.vni, ips |-> nic.ips, sgs |-> nic.sgs,
         antiSpoof |-> nic.antiSpoof, trace |-> nic.trace, path |-> nic.path,
         bypass |-> nic.bypass, type |-> nic.type]

NicOk(nic) ==
  /\ IsNic(nic) /\ nic.vni <= MaxVni
  /\ \A t \in nic.ips : IpOk(t)
  /\ nic.antiSpoof # None /\ nic.trace # None /\ nic.path # None /\ nic.bypass # None

CidrOk(c) ==
  /\ c \in [address : Text, mask_size : Nat]
  /\ ValidateCidr(c) /\ IpOk(c.address)

RuleOk(r) ==
  /\ r = [direction |-> r.direction, protocol |-> r.protocol,
          port_start |-> r.port_start, port_end |-> r.port_end,
          cidr |-> r.cidr, security_group |-> r.security_group]
  /\ r.protocol \in Int /\ r.protocol >= -1 /\ r.protocol <= 255
  /\ r.port_start \in Nat /\ r.port_end \in Nat
  /\ TcpOrUdp(r.protocol) => r.port_start <= r.port_end /\ r.port_end <= MaxPort
  /\ r.security_group # None
  /\ \/ r.cidr = NoCidr
     \/ r.security_group = EmptyText /\ CidrOk(r.cidr)

SgOk(g) ==
  /\ g = [members |-> g.members, rules |-> g.rules]
  /\ \A t \in g.members : IpOk(t)
  /\ \A r \in g.rules : RuleOk(r)

ModelInv ==
  /\ DOMAIN nics = NicId /\ \A n \in NicId : nics[n] # None => NicOk(nics[n])
  /\ DOMAIN groups = SgId /\ \A s \in SgId : groups[s] # None => SgOk(groups[s])

(* No text is left in api_0_error between two requests.                    *)
Api0Inv == ModelInv /\ api_0_error = None /\ ResponsesComplete

(* Clients that set ports for TCP and UDP only, which is what RuleDel      *)
(* needs to find the rule that was added.                                  *)
TidyRule(m) ==
  ~ TcpOrUdp(m.protocol) => m.port_start = None /\ m.port_end = None
TidyClients ==
  /\ \A m \in RuleMessages : TidyRule(m)
  /\ \A m \in SgMessages : \A r \in m.rule : TidyRule(r)
TidyInv ==
  \A s \in Groups : \A r \in groups[s].rules :
    ~ TcpOrUdp(r.protocol) => r.port_start = 0 /\ r.port_end = 0
=============================================================================
