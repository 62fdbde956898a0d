-------------------------- MODULE RequestsProofs --------------------------
(***************************************************************************)
(* Proofs about Requests, for any clients, keys and requests.              *)
(***************************************************************************)
EXTENDS Requests, SequenceTheorems, TLAPS

-----------------------------------------------------------------------------
(* Sequences.                                                              *)

(* Every element of d is one of q, and different ones are.                 *)
Embeds(d, q) ==
  /\ \A j \in DOMAIN d : \E k \in DOMAIN q : d[j] = q[k]
  /\ \A j, l \in DOMAIN d : j # l =>
       \E k, m \in DOMAIN q : k # m /\ d[j] = q[k] /\ d[l] = q[m]

(* A sequence without its i-th element.                                    *)
LEMMA Dropped ==
  ASSUME NEW S, NEW q \in Seq(S), NEW i \in DOMAIN q, NEW d,
         d = SubSeq(q, 1, i - 1) \o SubSeq(q, i + 1, Len(q))
  PROVE  /\ d \in Seq(S)
         /\ Embeds(d, q)
<1>1. Len(q) \in Nat /\ DOMAIN q = 1..Len(q) /\ \A j \in 1..Len(q) : q[j] \in S
  BY LenProperties, ElementOfSeq
<1>2. i \in 1..Len(q)
  BY <1>1
<1> DEFINE a == SubSeq(q, 1, i - 1)
           b == SubSeq(q, i + 1, Len(q))
<1>3. /\ a \in Seq(S) /\ Len(a) = i - 1
      /\ \A j \in 1..(i - 1) : a[j] = q[j]
  <2>1. \A j \in 1..(i - 1) : q[j] \in S
    BY <1>1, <1>2
  <2> QED BY <1>1, <1>2, <2>1, SubSeqProperties
<1>4. /\ b \in Seq(S) /\ Len(b) = Len(q) - i
      /\ \A j \in 1..(Len(q) - i) : b[j] = q[i + j]
  <2>1. \A j \in (i + 1)..Len(q) : q[j] \in S
    BY <1>1, <1>2
  <2> QED BY <1>1, <1>2, <2>1, SubSeqProperties
<1>5. /\ d \in Seq(S) /\ Len(d) = Len(q) - 1
      /\ \A j \in 1..(Len(q) - 1) :
           d[j] = IF j <= i - 1 THEN a[j] ELSE b[j - (i - 1)]
  <2> HIDE DEF a, b
  <2>1. d = a \o b
    BY DEF a, b
  <2>2. /\ a \o b \in Seq(S) /\ Len(a \o b) = Len(a) + Len(b)
        /\ \A j \in 1..(Len(a) + Len(b)) :
             (a \o b)[j] = IF j <= Len(a) THEN a[j] ELSE b[j - Len(a)]
    BY <1>3, <1>4, ConcatProperties
  <2>3. Len(a) + Len(b) = Len(q) - 1
    BY <1>1, <1>2, <1>3, <1>4
  <2> QED BY <1>1, <1>2, <1>3, <2>1, <2>2, <2>3
<1>6. DOMAIN d = 1..(Len(q) - 1)
  BY <1>5, LenProperties
<1>7. ASSUME NEW j \in DOMAIN d
      PROVE  LET k == IF j < i THEN j ELSE j + 1
             IN  k \in DOMAIN q /\ k # i /\ d[j] = q[k]
  <2>1. CASE j < i
    BY <1>1, <1>2, <1>3, <1>5, <1>6, <2>1
  <2>2. CASE ~ (j < i)
    <3> HIDE DEF a, b
    <3>0. /\ i \in Int /\ j \in Int /\ Len(q) \in Int
          /\ 1 <= i /\ i <= j /\ j <= Len(q) - 1
      BY <1>1, <1>2, <1>6, <2>2
    <3>1. j - (i - 1) \in 1..(Len(q) - i) /\ ~ (j <= i - 1)
      BY <3>0
    <3>2. d[j] = b[j - (i - 1)]
      BY <1>5, <1>6, <3>1
    <3>3. i + (j - (i - 1)) = j + 1
      BY <3>0
    <3>4. d[j] = q[j + 1]
      BY <1>4, <3>1, <3>2, <3>3
    <3>5. j + 1 \in DOMAIN q /\ j + 1 # i
      BY <1>1, <3>0
    <3> QED BY <2>2, <3>4, <3>5
  <2> QED BY <2>1, <2>2
<1>8. \A j \in DOMAIN d : \E k \in DOMAIN q : d[j] = q[k]
  BY <1>7
<1>9. ASSUME NEW j \in DOMAIN d, NEW l \in DOMAIN d, j # l
      PROVE  \E k, m \in DOMAIN q : k # m /\ d[j] = q[k] /\ d[l] = q[m]
  <2> DEFINE k == IF j < i THEN j ELSE j + 1
             m == IF l < i THEN l ELSE l + 1
  <2>1. k # m
    BY <1>1, <1>2, <1>6, <1>9
  <2>2. k \in DOMAIN q /\ d[j] = q[k] /\ m \in DOMAIN q /\ d[l] = q[m]
    BY <1>7
  <2> QED BY <2>1, <2>2
<1> QED BY <1>5, <1>8, <1>9 DEF Embeds

(* A sequence without its first element.                                   *)
LEMMA Shifted ==
  ASSUME NEW S, NEW q \in Seq(S), q # <<>>
  PROVE  /\ Tail(q) \in Seq(S) /\ Head(q) = q[1] /\ 1 \in DOMAIN q
         /\ Len(q) \in Nat /\ Len(Tail(q)) = Len(q) - 1 /\ Len(q) > 0
         /\ Embeds(Tail(q), q)
         /\ \A i \in DOMAIN Tail(q) :
              i \in Nat /\ i + 1 \in DOMAIN q /\ i + 1 # 1 /\ Tail(q)[i] = q[i + 1]
<1>1. Len(q) \in Nat /\ Len(q) > 0 /\ DOMAIN q = 1..Len(q)
  BY EmptySeq, LenProperties
<1>2. Tail(q) \in Seq(S) /\ Head(q) = q[1] /\ DOMAIN Tail(q) = 1..(Len(q) - 1)
      /\ Len(Tail(q)) = Len(q) - 1
      /\ \A i \in 1..(Len(q) - 1) : Tail(q)[i] = q[i + 1]
  BY <1>1
<1>3. \A i \in DOMAIN Tail(q) :
        i \in Nat /\ i + 1 \in DOMAIN q /\ i + 1 # 1 /\ Tail(q)[i] = q[i + 1]
  BY <1>1, <1>2
<1>4. ASSUME NEW i \in DOMAIN Tail(q), NEW j \in DOMAIN Tail(q), i # j
      PROVE  \E k, m \in DOMAIN q : k # m /\ Tail(q)[i] = q[k] /\ Tail(q)[j] = q[m]
  <2>1. i + 1 # j + 1
    BY <1>3, <1>4
  <2> QED BY <1>3, <2>1
<1>5. Embeds(Tail(q), q)
  BY <1>3, <1>4 DEF Embeds
<1> QED BY <1>1, <1>2, <1>3, <1>5

(* A sequence with one more element.                                       *)
LEMMA Appended ==
  ASSUME NEW S, NEW q \in Seq(S), NEW x \in S
  PROVE  /\ Append(q, x) \in Seq(S) /\ Len(Append(q, x)) = Len(q) + 1 /\ Len(q) \in Nat
         /\ DOMAIN q = 1..Len(q) /\ DOMAIN Append(q, x) = 1..(Len(q) + 1)
         /\ \A i \in 1..Len(q) : Append(q, x)[i] = q[i]
         /\ Append(q, x)[Len(q) + 1] = x
BY LenProperties
-----------------------------------------------------------------------------
(* What is dispatched.                                                     *)

(* An answer instead of the messages, and the messages.                    *)
LEMMA Said ==
  ASSUME NEW e \in Errors, NEW sub \in BOOLEAN
  PROVE  /\ Say(e, sub).todo = <<>> /\ Say(e, sub).reply = e
         /\ Say(e, sub).reply # None /\ Say(e, sub).sealed = sub
BY EnvelopeAssumption DEF Say

LEMMA Ran ==
  ASSUME NEW ms, NEW sub \in BOOLEAN
  PROVE  Run(ms, sub).todo = ms /\ Run(ms, sub).reply = None /\ Run(ms, sub).sealed = sub
BY DEF Run

(* Api::ProcessRequest dispatches all messages of a request or none, and   *)
(* with a key only those it has decrypted with it.                         *)
Dispatched(env, p) ==
  /\ p.todo \in Seq(Message) /\ p.sealed \in BOOLEAN
  /\ p.reply \in Errors \cup {None}
  /\ p.reply = None => p.todo = Inner(env).messages
  /\ p.reply # None => p.todo = <<>>
  /\ server_key # None /\ p.todo # <<>> =>
       /\ p.sealed /\ env.encrypted # None
       /\ env.encrypted.key = server_key
       /\ env.encrypted.inner.encrypted = None

LEMMA Processed ==
  ASSUME NEW c \in Client, NEW env \in Requests[c]
  PROVE  Dispatched(env, ProcessRequest(env))
<1>1. /\ env.messages \in Seq(Message)
      /\ env.encrypted # None => env.encrypted.inner.messages \in Seq(Message)
  BY EnvelopeAssumption
<1>2. /\ Bare("PARSE_ERROR") \in Errors /\ Rejected \in Errors
      /\ EncError("NOT_SUPPORTED") \in Errors /\ EncError("REJECTED") \in Errors
  BY DEF Errors
<1>3. ASSUME NEW e \in Errors, NEW sub \in BOOLEAN
      PROVE  Dispatched(env, Say(e, sub))
  <2> DEFINE p == Say(e, sub)
  <2>1. p.todo = <<>> /\ p.reply = e /\ p.reply # None /\ p.sealed = sub
    BY Said
  <2> HIDE DEF p
  <2>2. p.todo \in Seq(Message)
    BY <2>1
  <2>3. Dispatched(env, p)
    BY <2>1, <2>2 DEF Dispatched
  <2> QED BY <2>3 DEF p
<1>4. CASE ~ env.garbage /\ server_key # None /\ env.encrypted # None
  <2> DEFINE enc == env.encrypted
  <2>1. ProcessRequest(env) = ProcessEncrypted(enc)
    BY <1>4 DEF ProcessRequest
  <2>2. CASE enc.key = None
    <3>1. ProcessRequest(env) = Say(EncError("NOT_SUPPORTED"), FALSE)
      BY <2>1, <2>2 DEF ProcessEncrypted
    <3> QED BY <1>2, <1>3, <3>1
  <2>3. CASE enc.key # None /\ ~ Decrypts(server_key, enc.key)
    <3>1. ProcessRequest(env) = Say(EncError("REJECTED"), FALSE)
      BY <2>1, <2>3 DEF ProcessEncrypted
    <3> QED BY <1>2, <1>3, <3>1
  <2>4. CASE enc.key # None /\ Decrypts(server_key, enc.key)
    <3>1. ProcessRequest(env) = ProcessClear(enc.inner, TRUE)
      BY <2>1, <2>4 DEF ProcessEncrypted
    <3>2. enc.key = server_key
      BY <2>4 DEF Decrypts
    <3>3. CASE enc.inner.garbage
      <4>1. ProcessClear(enc.inner, TRUE) = Say(Bare("PARSE_ERROR"), TRUE)
        BY <3>3 DEF ProcessClear
      <4> QED BY <1>2, <1>3, <3>1, <4>1
    <3>4. CASE ~ enc.inner.garbage /\ enc.inner.encrypted = None
      <4>1. ProcessClear(enc.inner, TRUE) = Run(enc.inner.messages, TRUE)
        BY <1>4, <3>4 DEF ProcessClear
      <4>2. Inner(env).messages = enc.inner.messages
        BY <1>4 DEF Inner
      <4>3. /\ ProcessRequest(env).todo = enc.inner.messages
            /\ ProcessRequest(env).reply = None /\ ProcessRequest(env).sealed = TRUE
        <5>1. /\ Run(enc.inner.messages, TRUE).todo = enc.inner.messages
              /\ Run(enc.inner.messages, TRUE).reply = None
          BY Ran
        <5>2. Run(enc.inner.messages, TRUE).sealed = TRUE
          BY DEF Run
        <5> QED BY <3>1, <4>1, <5>1, <5>2
      <4> QED BY <1>1, <1>4, <3>2, <3>4, <4>2, <4>3 DEF Dispatched
    <3>5. CASE ~ enc.inner.garbage /\ enc.inner.encrypted # None
      <4>1. ProcessClear(enc.inner, TRUE) = Say(Rejected, TRUE)
        BY <1>4, <3>5 DEF ProcessClear
      <4> QED BY <1>2, <1>3, <3>1, <4>1
    <3> QED BY <3>3, <3>4, <3>5
  <2> QED BY <2>2, <2>3, <2>4
<1>5. CASE ~ (~ env.garbage /\ server_key # None /\ env.encrypted # None)
  <2>1. ProcessRequest(env) = ProcessClear(env, FALSE)
    BY <1>5 DEF ProcessRequest
  <2>2. CASE env.garbage
    <3>1. ProcessClear(env, FALSE) = Say(Bare("PARSE_ERROR"), FALSE)
      BY <2>2 DEF ProcessClear
    <3> QED BY <1>2, <1>3, <2>1, <3>1
  <2>3. CASE ~ env.garbage /\ server_key # None
    <3>1. ProcessClear(env, FALSE) = Say(Rejected, FALSE)
      BY <2>3 DEF ProcessClear
    <3> QED BY <1>2, <1>3, <2>1, <3>1
  <2>4. CASE ~ env.garbage /\ server_key = None
    <3>1. ProcessClear(env, FALSE) =
            IF env.messages # <<>> THEN Run(env.messages, FALSE) ELSE Say(Rejected, FALSE)
      BY <2>4 DEF ProcessClear
    <3>2. Inner(env).messages = env.messages
      BY <2>4 DEF Inner
    <3>3. CASE env.messages # <<>>
      <4>1. /\ ProcessRequest(env).todo = env.messages
            /\ ProcessRequest(env).reply = None /\ ProcessRequest(env).sealed = FALSE
        <5>1. /\ Run(env.messages, FALSE).todo = env.messages
              /\ Run(env.messages, FALSE).reply = None
          BY Ran
        <5>2. Run(env.messages, FALSE).sealed = FALSE
          BY DEF Run
        <5>3. ProcessRequest(env) = Run(env.messages, FALSE)
          BY <2>1, <3>1, <3>3
        <5> QED BY <5>1, <5>2, <5>3
      <4> QED BY <1>1, <2>4, <3>2, <4>1 DEF Dispatched
    <3>4. CASE env.messages = <<>>
      BY <1>2, <1>3, <2>1, <3>1, <3>4
    <3> QED BY <3>3, <3>4
  <2> QED BY <2>2, <2>3, <2>4
<1> QED BY <1>4, <1>5

(* A client takes no error for a success, encrypted or not.                *)
LEMMA ErrorsFail ==
  ASSUME NEW c \in Client, NEW r \in Errors, NEW e,
         e = r \/ \E k : e = [r EXCEPT !.key = k]
  PROVE  ~ CheckRequestResult(c, e)
<1>1. e.form = r.form /\ e.reps = r.reps
  BY DEF Errors, Bare, EncError, Rejected, Reps
<1>2. r.form # "messages" \/ r = Rejected
  <2>1. /\ Bare("PARSE_ERROR").form = "bare" /\ Bare("INTERNAL_ERROR").form = "bare"
        /\ EncError("NOT_SUPPORTED").form = "encrypted error"
        /\ EncError("REJECTED").form = "encrypted error"
    BY DEF Bare, EncError
  <2> QED BY <2>1 DEF Errors
<1>3. Rejected.reps = <<ErrorRep("REJECTED")>> /\ ErrorRep("REJECTED").result = "REJECTED"
  BY DEF Rejected, Reps, ErrorRep
<1>4. 1 \in DOMAIN Rejected.reps /\ Rejected.reps[1].result # "ok"
  BY <1>3
<1> QED BY <1>1, <1>2, <1>4 DEF CheckRequestResult
-----------------------------------------------------------------------------
(* Types.                                                                  *)

Request == [from : Client, number : Nat, env : Envelopes]
State == [pc : {"idle", "waits", "ok", "failed"}, env : Envelopes, number : Nat]
Job == [from : Client \cup {None}, number : Nat, todo : Seq(Message),
        reps : Seq(Result), sealed : BOOLEAN, reply : Errors \cup {None}]

LEMMA TypesInit == Init => RequestsTypes
<1> SUFFICES ASSUME Init PROVE RequestsTypes
  OBVIOUS
<1>1. NoJob \in Job
  BY DEF NoJob, Job
<1>2. client \in [Client -> State]
  BY DEF Init, State, Envelopes
<1>3. inbox \in Seq(Request)
  BY DEF Init
<1>4. /\ DOMAIN applied = Client /\ applied = [c \in Client |-> applied[c]]
      /\ \A c \in Client : applied[c] \in [1..MaxSends[c] -> Seq(Result)]
  BY DEF Init
<1> QED BY <1>1, <1>2, <1>3, <1>4 DEF Init, RequestsTypes, Job, State, Request

(* What a request in the queue, a message and a client are.                *)
LEMMA Elements ==
  ASSUME RequestsTypes
  PROVE  /\ inbox \in Seq(Request) /\ job \in Job /\ client \in [Client -> State]
         /\ \A i \in DOMAIN inbox : inbox[i] \in Request
         /\ job.todo # <<>> => Head(job.todo) \in Message
<1>1. inbox \in Seq(Request) /\ job \in Job /\ client \in [Client -> State]
  BY DEF RequestsTypes, Request, Job, State
<1>2. \A i \in DOMAIN inbox : inbox[i] \in Request
  BY <1>1, LenProperties, ElementOfSeq
<1>3. ASSUME job.todo # <<>> PROVE Head(job.todo) \in Message
  <2>1. job.todo \in Seq(Message)
    BY <1>1 DEF Job
  <2> QED BY <1>3, <2>1, HeadTailProperties
<1> QED BY <1>1, <1>2, <1>3

(* A step of a client keeps the types.                                     *)
LEMMA TypesClient == RequestsTypes /\ ClientStep => RequestsTypes'
<1> SUFFICES ASSUME RequestsTypes, NEW c \in Client,
                    ClientTimeout(c) \/ \E env \in Requests[c] : ClientSend(c, env)
             PROVE  RequestsTypes'
  BY DEF ClientStep
<1>0. inbox \in Seq(Request) /\ client \in [Client -> State]
  BY Elements
<1>1. ASSUME NEW env \in Requests[c], ClientSend(c, env)
      PROVE  client' \in [Client -> State] /\ inbox' \in Seq(Request)
  <2>1. env \in Envelopes
    BY DEF Envelopes
  <2>2. client[c].number \in Nat
    BY <1>0 DEF State
  <2>3. [pc |-> "waits", env |-> env, number |-> client[c].number + 1] \in State
    BY <2>1, <2>2 DEF State
  <2>4. [from |-> c, number |-> client[c].number + 1, env |-> env] \in Request
    BY <2>1, <2>2 DEF Request
  <2> QED BY <1>0, <1>1, <2>3, <2>4 DEF ClientSend
<1>2. CASE ClientTimeout(c)
  <2>1. client' \in [Client -> State]
    BY <1>0, <1>2 DEF ClientTimeout, State
  <2>2. inbox' \in Seq(Request)
    BY <1>0, <1>2, Dropped DEF ClientTimeout
  <2> QED BY <1>2, <2>1, <2>2 DEF ClientTimeout, RequestsTypes, State, Request
<1>3. ASSUME NEW env \in Requests[c], ClientSend(c, env) PROVE RequestsTypes'
  BY <1>1, <1>3 DEF ClientSend, RequestsTypes, State, Request
<1> QED BY <1>2, <1>3

(* A step of the API thread keeps the types.                               *)
LEMMA TypesApi == RequestsTypes /\ InboxInv /\ JobInv /\ ApiStep => RequestsTypes'
<1> SUFFICES ASSUME RequestsTypes, InboxInv, JobInv, ApiStep PROVE RequestsTypes'
  OBVIOUS
<1>0. inbox \in Seq(Request) /\ client \in [Client -> State] /\ job \in Job
  BY Elements
<1>n. NoJob \in Job
  BY DEF NoJob, Job
<1>1. CASE LoopReceive
  <2> DEFINE r == Head(inbox)
             p == ProcessRequest(r.env)
  <2>1. inbox' \in Seq(Request) /\ r = inbox[1] /\ 1 \in DOMAIN inbox
    BY <1>0, <1>1, Shifted DEF LoopReceive
  <2>2. r.from \in Client /\ r.number \in Nat /\ r.env \in Requests[r.from]
    BY <2>1, Elements DEF InboxInv, Request
  <2>3. Dispatched(r.env, p)
    BY <2>2, Processed
  <2>4. job' = [from |-> r.from, number |-> r.number, todo |-> p.todo,
                reps |-> <<>>, sealed |-> p.sealed, reply |-> p.reply]
    BY <1>1 DEF LoopReceive
  <2> HIDE DEF r, p
  <2>5. job' \in Job
    BY <2>2, <2>3, <2>4 DEF Dispatched, Job
  <2> QED
    BY <1>1, <2>1, <2>5 DEF LoopReceive, RequestsTypes, Request, Job
<1>2. ASSUME NEW o \in {"ok", "nok"}, Dispatch(o) PROVE RequestsTypes'
  <2> DEFINE m == Head(job.todo)
             result == IF m.kind = "other" THEN "VERSION_NOT_MANAGED" ELSE o
             id == IF m.kind = "other" THEN None ELSE m.id
  <2>1. job.todo \in Seq(Message) /\ job.reps \in Seq(Result) /\ job.todo # <<>>
    BY <1>0, <1>2 DEF Job, Dispatch
  <2>2. m \in Message
    BY <2>1, Elements
  <2>3. [id |-> id, result |-> result] \in Result /\ [id |-> m.id, result |-> result] \in Result
    BY <2>2 DEF Message, Result
  <2>4. /\ job' = [job EXCEPT !.todo = Tail(@),
                     !.reps = Append(@, [id |-> id, result |-> result])]
        /\ applied' = [applied EXCEPT ![job.from][job.number] =
                         Append(@, [id |-> m.id, result |-> result])]
        /\ api = "dispatch" /\ UNCHANGED <<client, inbox, api>>
    BY <1>2 DEF Dispatch
  <2> HIDE DEF m, result, id
  <2>5. Tail(job.todo) \in Seq(Message)
    BY <2>1, Shifted
  <2>6. Append(job.reps, [id |-> id, result |-> result]) \in Seq(Result)
    BY <2>1, <2>3, Appended
  <2>7. job' \in Job
    BY <1>0, <2>4, <2>5, <2>6 DEF Job
  <2>8. ASSUME NEW c \in Client PROVE applied'[c] \in [1..MaxSends[c] -> Seq(Result)]
    <3>1. applied[c] \in [1..MaxSends[c] -> Seq(Result)]
      BY DEF RequestsTypes
    <3>2. CASE c # job.from
      BY <2>4, <3>1, <3>2 DEF RequestsTypes
    <3>3. CASE c = job.from
      <4>1. applied'[c] = [applied[c] EXCEPT ![job.number] =
                             Append(@, [id |-> m.id, result |-> result])]
        BY <2>4, <3>3 DEF RequestsTypes
      <4>2. ASSUME job.number \in 1..MaxSends[c]
            PROVE  Append(applied[c][job.number], [id |-> m.id, result |-> result])
                     \in Seq(Result)
        BY <2>3, <3>1, <4>2, Appended
      <4> QED BY <3>1, <4>1, <4>2
    <3> QED BY <3>2, <3>3
  <2>9. DOMAIN applied' = Client /\ applied' = [c \in Client |-> applied'[c]]
    BY <2>4 DEF RequestsTypes
  <2> QED BY <2>4, <2>7, <2>8, <2>9 DEF RequestsTypes, Job
<1>3. CASE DispatchThrows
  <2>0. Bare("INTERNAL_ERROR") \in Errors
    BY DEF Errors
  <2>1. job' = [job EXCEPT !.todo = <<>>, !.reply = Bare("INTERNAL_ERROR")]
    BY <1>3 DEF DispatchThrows
  <2>2. ASSUME NEW e \in Errors PROVE [job EXCEPT !.todo = <<>>, !.reply = e] \in Job
    <3>1. ASSUME NEW t \in Seq(Message) PROVE [job EXCEPT !.todo = t, !.reply = e] \in Job
      BY <1>0 DEF Job
    <3>2. <<>> \in Seq(Message)
      OBVIOUS
    <3> QED BY <3>1, <3>2, Zenon
  <2>3. job' \in Job
    BY <2>0, <2>1, <2>2
  <2> QED BY <1>3, <2>3 DEF DispatchThrows, RequestsTypes, Job
<1>4. CASE LoopSend
  <2>0. \E v \in {"ok", "failed"} :
          client' = client \/ client' = [client EXCEPT ![job.from].pc = v]
    BY <1>4 DEF LoopSend
  <2>1. PICK v \in {"ok", "failed"} :
          client' = client \/ client' = [client EXCEPT ![job.from].pc = v]
    BY <2>0
  <2>2. client' \in [Client -> State]
    BY <1>0, <2>1 DEF State
  <2> QED BY <1>4, <1>n, <2>2 DEF LoopSend, RequestsTypes, Job, State
<1>5. CASE RunEnds
  BY <1>5 DEF RunEnds, RequestsTypes
<1> QED BY <1>1, <1>2, <1>3, <1>4, <1>5 DEF ApiStep

(* Every step keeps the types.                                             *)
LEMMA TypesStep ==
  RequestsTypes /\ InboxInv /\ JobInv /\ [Next]_vars => RequestsTypes'
<1>1. RequestsTypes /\ (Signal \/ MainExits \/ UNCHANGED vars) => RequestsTypes'
  BY DEF Signal, MainExits, vars, RequestsTypes
<1> QED BY <1>1, TypesClient, TypesApi DEF Next
-----------------------------------------------------------------------------
(* Requests on their way.                                                  *)

LEMMA NumbersInit == Init => NumbersInv /\ InboxInv /\ JobInv
BY RequestsAssumption DEF Init, NumbersInv, InboxInv, JobInv

(* What a client's step does to its request.                               *)
LEMMA Sent ==
  ASSUME RequestsTypes, NEW c \in Client, NEW env \in Requests[c], ClientSend(c, env)
  PROVE  /\ client[c].number \in Nat /\ client[c].number < MaxSends[c]
         /\ client'[c].pc = "waits" /\ client'[c].env = env
         /\ client'[c].number = client[c].number + 1
         /\ \A d \in Client : d # c => client'[d] = client[d]
         /\ UNCHANGED <<server_key, api, job, applied>>
         /\ Len(inbox) \in Nat
         /\ DOMAIN inbox = 1..Len(inbox) /\ DOMAIN inbox' = 1..(Len(inbox) + 1)
         /\ \A i \in 1..Len(inbox) : inbox'[i] = inbox[i]
         /\ inbox'[Len(inbox) + 1] =
              [from |-> c, number |-> client[c].number + 1, env |-> env]
<1>0. inbox \in Seq(Request) /\ client \in [Client -> State]
  BY Elements
<1>1. client[c].number \in Nat
  BY <1>0 DEF State
<1>2. [from |-> c, number |-> client[c].number + 1, env |-> env] \in Request
  BY <1>1 DEF Request, Envelopes
<1>3. /\ Len(inbox) \in Nat
      /\ DOMAIN inbox = 1..Len(inbox) /\ DOMAIN inbox' = 1..(Len(inbox) + 1)
      /\ \A i \in 1..Len(inbox) : inbox'[i] = inbox[i]
      /\ inbox'[Len(inbox) + 1] =
           [from |-> c, number |-> client[c].number + 1, env |-> env]
  <2> DEFINE x == [from |-> c, number |-> client[c].number + 1, env |-> env]
  <2>1. inbox' = Append(inbox, x)
    BY DEF ClientSend
  <2> HIDE DEF x
  <2>2. x \in Request
    BY <1>2 DEF x
  <2>3. /\ Len(inbox) \in Nat
        /\ DOMAIN inbox = 1..Len(inbox) /\ DOMAIN inbox' = 1..(Len(inbox) + 1)
        /\ \A i \in 1..Len(inbox) : inbox'[i] = inbox[i]
        /\ inbox'[Len(inbox) + 1] = x
    BY <1>0, <2>1, <2>2, Appended
  <2> QED BY <2>3 DEF x
<1>4. /\ client'[c].pc = "waits" /\ client'[c].env = env
      /\ client'[c].number = client[c].number + 1
      /\ \A d \in Client : d # c => client'[d] = client[d]
  BY <1>0 DEF ClientSend
<1> QED BY <1>1, <1>3, <1>4 DEF ClientSend

LEMMA TimedOut ==
  ASSUME RequestsTypes, NEW c \in Client, ClientTimeout(c)
  PROVE  /\ client[c].pc = "waits" /\ client'[c].pc = "failed"
         /\ client'[c].env = client[c].env /\ client'[c].number = client[c].number
         /\ \A d \in Client : d # c => client'[d] = client[d]
         /\ UNCHANGED <<server_key, api, job, applied>>
         /\ Embeds(inbox', inbox)
<1>0. inbox \in Seq(Request) /\ client \in [Client -> State]
  BY Elements
<1>1. Embeds(inbox', inbox)
  <2>1. CASE inbox' = inbox
    BY <2>1 DEF Embeds
  <2>2. ASSUME NEW n \in DOMAIN inbox,
               inbox' = SubSeq(inbox, 1, n - 1) \o SubSeq(inbox, n + 1, Len(inbox))
        PROVE  Embeds(inbox', inbox)
    BY <1>0, <2>2, Dropped, Zenon
  <2> QED BY <2>1, <2>2 DEF ClientTimeout
<1>2. /\ client'[c].pc = "failed"
      /\ client'[c].env = client[c].env /\ client'[c].number = client[c].number
      /\ \A d \in Client : d # c => client'[d] = client[d]
  BY <1>0 DEF ClientTimeout, State
<1> QED BY <1>1, <1>2 DEF ClientTimeout

LEMMA Ended ==
  ASSUME RequestsTypes, LoopSend
  PROVE  /\ UNCHANGED <<server_key, inbox, applied>> /\ api' # "dispatch"
         /\ \A d \in Client :
              /\ client'[d].env = client[d].env /\ client'[d].number = client[d].number
              /\ \/ client'[d].pc = client[d].pc
                 \/ /\ d = job.from /\ job.number = client[d].number
                    /\ client[d].pc = "waits" /\ client'[d].pc \in {"ok", "failed"}
<1>0. client \in [Client -> State]
  BY Elements
<1>1. \E v \in {"ok", "failed"} :
        IF client[job.from].pc = "waits" /\ client[job.from].number = job.number
        THEN client' = [client EXCEPT ![job.from].pc = v] ELSE client' = client
  BY DEF LoopSend
<1>2. PICK v \in {"ok", "failed"} :
        IF client[job.from].pc = "waits" /\ client[job.from].number = job.number
        THEN client' = [client EXCEPT ![job.from].pc = v] ELSE client' = client
  BY <1>1
<1>3. ASSUME NEW d \in Client
      PROVE  /\ client'[d].env = client[d].env /\ client'[d].number = client[d].number
             /\ \/ client'[d].pc = client[d].pc
                \/ /\ d = job.from /\ job.number = client[d].number
                   /\ client[d].pc = "waits" /\ client'[d].pc \in {"ok", "failed"}
  BY <1>0, <1>2 DEF State
<1> QED BY <1>3 DEF LoopSend

(* What the execution of a message changes.                                *)
LEMMA Executed ==
  ASSUME RequestsTypes, NumbersInv, JobInv, NEW o \in {"ok", "nok"}, Dispatch(o)
  PROVE  /\ UNCHANGED <<server_key, client, inbox, api>> /\ api = "dispatch"
         /\ job.todo # <<>> /\ job.todo \in Seq(Message) /\ job.reps \in Seq(Result)
         /\ job.from \in Client /\ job.number \in 1..MaxSends[job.from]
         /\ job.number <= client[job.from].number
         /\ \A d \in Client : d # job.from => applied'[d] = applied[d]
         /\ \A k \in 1..MaxSends[job.from] :
              k # job.number => applied'[job.from][k] = applied[job.from][k]
         /\ \E x, y \in Result :
              /\ x.result = y.result /\ y.id = Head(job.todo).id
              /\ job' = [job EXCEPT !.todo = Tail(@), !.reps = Append(@, x)]
              /\ applied'[job.from][job.number] = Append(applied[job.from][job.number], y)
<1> DEFINE m == Head(job.todo)
           result == IF m.kind = "other" THEN "VERSION_NOT_MANAGED" ELSE o
           id == IF m.kind = "other" THEN None ELSE m.id
           x == [id |-> id, result |-> result]
           y == [id |-> m.id, result |-> result]
<1>1. /\ UNCHANGED <<server_key, client, inbox, api>> /\ api = "dispatch" /\ job.todo # <<>>
      /\ job' = [job EXCEPT !.todo = Tail(@), !.reps = Append(@, x)]
      /\ applied' = [applied EXCEPT ![job.from][job.number] = Append(@, y)]
  BY DEF Dispatch
<1>2. m \in Message
  BY <1>1, Elements
<1>3. x \in Result /\ y \in Result
  BY <1>2 DEF Message, Result
<1>4. x.result = y.result /\ y.id = m.id
  OBVIOUS
<1> HIDE DEF m, x, y
<1>5. job.from \in Client /\ job.number \in 1..client[job.from].number
  BY <1>1 DEF JobInv
<1>6. client[job.from].number \in Nat /\ client[job.from].number <= MaxSends[job.from]
  BY <1>5, Elements DEF NumbersInv, State
<1>7. job.number \in 1..MaxSends[job.from] /\ job.number <= client[job.from].number
  BY <1>5, <1>6, RequestsAssumption
<1>8. /\ DOMAIN applied = Client
      /\ applied[job.from] \in [1..MaxSends[job.from] -> Seq(Result)]
  BY <1>5 DEF RequestsTypes
<1>9. applied'[job.from] = [applied[job.from] EXCEPT ![job.number] = Append(@, y)]
  BY <1>1, <1>5, <1>8
<1>10. /\ applied'[job.from][job.number] = Append(applied[job.from][job.number], y)
       /\ \A k \in 1..MaxSends[job.from] :
            k # job.number => applied'[job.from][k] = applied[job.from][k]
  BY <1>7, <1>8, <1>9
<1>11. \A d \in Client : d # job.from => applied'[d] = applied[d]
  BY <1>1, <1>8
<1>12. job.todo \in Seq(Message) /\ job.reps \in Seq(Result)
  BY Elements DEF Job
<1> QED BY <1>1, <1>3, <1>4, <1>5, <1>7, <1>10, <1>11, <1>12 DEF m

(* Clients number their requests.                                          *)
LEMMA NumbersStep ==
  RequestsTypes /\ NumbersInv /\ JobInv /\ [Next]_vars => NumbersInv'
<1> SUFFICES ASSUME RequestsTypes, NumbersInv, JobInv, [Next]_vars PROVE NumbersInv'
  OBVIOUS
<1>1. CASE UNCHANGED <<client, applied>>
  BY <1>1 DEF NumbersInv
<1>2. ASSUME NEW c \in Client, NEW env \in Requests[c], ClientSend(c, env)
      PROVE  NumbersInv'
  <2>1. ASSUME NEW d \in Client, d # c PROVE client'[d] = client[d] /\ applied' = applied
    BY <1>2, <2>1, Sent
  <2>2. /\ client'[c].number = client[c].number + 1 /\ client[c].number \in Nat
        /\ client[c].number < MaxSends[c] /\ client'[c].env = env /\ applied' = applied
    BY <1>2, Sent
  <2>3. MaxSends[c] \in Nat
    BY RequestsAssumption
  <2> QED BY <2>1, <2>2, <2>3 DEF NumbersInv
<1>3. ASSUME NEW c \in Client, ClientTimeout(c) PROVE NumbersInv'
  <2>1. ASSUME NEW d \in Client
        PROVE  /\ client'[d].env = client[d].env /\ client'[d].number = client[d].number
               /\ client'[d].pc = client[d].pc \/ client[d].pc = "waits"
               /\ applied' = applied
    BY <1>3, TimedOut
  <2> QED BY <2>1 DEF NumbersInv
<1>4. ASSUME NEW o \in {"ok", "nok"}, Dispatch(o) PROVE NumbersInv'
  <2>1. ASSUME NEW c \in Client, NEW k \in 1..MaxSends[c], client[c].number < k
        PROVE  applied'[c][k] = applied[c][k]
    <3>1. client[c].number \in Nat
      BY Elements DEF State
    <3>2. CASE c # job.from
      BY <1>4, <3>2, Executed
    <3>3. CASE c = job.from
      <4>1. job.number <= client[c].number /\ job.number \in Nat
        BY <1>4, <3>3, Executed, Elements DEF Job
      <4>2. k # job.number
        BY <2>1, <3>1, <4>1
      <4> QED BY <1>4, <3>3, <4>2, Executed
    <3> QED BY <3>2, <3>3
  <2>2. client' = client
    BY <1>4, Executed
  <2> QED BY <2>1, <2>2 DEF NumbersInv
<1>5. CASE LoopSend
  <2>1. ASSUME NEW d \in Client
        PROVE  /\ client'[d].env = client[d].env /\ client'[d].number = client[d].number
               /\ client'[d].pc = client[d].pc \/ client[d].pc = "waits"
               /\ applied' = applied
    BY <1>5, Ended
  <2> QED BY <2>1 DEF NumbersInv
<1> QED
  BY <1>1, <1>2, <1>3, <1>4, <1>5
  DEF Next, ClientStep, ApiStep, LoopReceive, DispatchThrows, RunEnds, Signal, MainExits, vars

(* Requests keep their places, their numbers and their contents.           *)
LEMMA InboxStep ==
  RequestsTypes /\ NumbersInv /\ InboxInv /\ JobInv /\ [Next]_vars => InboxInv'
<1> SUFFICES ASSUME RequestsTypes, NumbersInv, InboxInv, JobInv, [Next]_vars
             PROVE  InboxInv'
  OBVIOUS
<1>0. \A i \in DOMAIN inbox :
        /\ inbox[i].from \in Client /\ inbox[i].number \in Nat
        /\ client[inbox[i].from].number \in Nat
  BY Elements DEF Request, State
<1>1. ASSUME UNCHANGED applied, Embeds(inbox', inbox),
             \A d \in Client :
               /\ client'[d].env = client[d].env /\ client'[d].number = client[d].number
               /\ client'[d].pc = "ok" => client[d].pc = "ok"
      PROVE  InboxInv'
  <2>1. ASSUME NEW i \in DOMAIN inbox'
        PROVE  LET r == inbox'[i]
                   c == r.from
               IN  /\ r.number \in 1..client'[c].number
                   /\ r.number = client'[c].number =>
                        r.env = client'[c].env /\ client'[c].pc # "ok"
                   /\ r.env \in Requests[c]
                   /\ applied'[c][r.number] = <<>>
    <3>1. PICK k \in DOMAIN inbox : inbox'[i] = inbox[k]
      BY <1>1 DEF Embeds
    <3> QED BY <1>0, <1>1, <3>1 DEF InboxInv
  <2>2. ASSUME NEW i \in DOMAIN inbox', NEW j \in DOMAIN inbox',
               inbox'[j].from = inbox'[i].from, inbox'[j].number = inbox'[i].number
        PROVE  i = j
    <3> SUFFICES ASSUME i # j PROVE FALSE
      OBVIOUS
    <3>1. PICK k \in DOMAIN inbox, l \in DOMAIN inbox :
            k # l /\ inbox'[i] = inbox[k] /\ inbox'[j] = inbox[l]
      BY <1>1 DEF Embeds
    <3> QED BY <2>2, <3>1 DEF InboxInv
  <2> QED BY <2>1, <2>2 DEF InboxInv
<1>2. Embeds(inbox, inbox)
  BY DEF Embeds
<1>3. CASE UNCHANGED <<client, applied, inbox>>
  BY <1>1, <1>2, <1>3
<1>4. ASSUME NEW c \in Client, ClientTimeout(c) PROVE InboxInv'
  BY <1>1, <1>4, TimedOut
<1>5. CASE LoopReceive
  <2>1. Embeds(Tail(inbox), inbox)
    BY <1>5, Elements, Shifted DEF LoopReceive
  <2> QED BY <1>1, <1>5, <2>1 DEF LoopReceive
<1>6. ASSUME NEW c \in Client, NEW env \in Requests[c], ClientSend(c, env)
      PROVE  InboxInv'
  <2> DEFINE n == Len(inbox) + 1
             old == client[c].number
  <2>1. /\ old \in Nat /\ old < MaxSends[c] /\ MaxSends[c] \in Nat
        /\ client'[c].pc = "waits" /\ client'[c].env = env /\ client'[c].number = old + 1
        /\ \A d \in Client : d # c => client'[d] = client[d]
        /\ applied' = applied /\ Len(inbox) \in Nat
        /\ DOMAIN inbox = 1..Len(inbox) /\ DOMAIN inbox' = 1..n
        /\ \A i \in 1..Len(inbox) : inbox'[i] = inbox[i]
        /\ inbox'[n].from = c /\ inbox'[n].number = old + 1 /\ inbox'[n].env = env
    <3>1. inbox'[n] = [from |-> c, number |-> old + 1, env |-> env]
      BY <1>6, Sent
    <3>2. inbox'[n].from = c /\ inbox'[n].number = old + 1 /\ inbox'[n].env = env
      BY <3>1
    <3>3. MaxSends[c] \in Nat
      BY RequestsAssumption
    <3> QED BY <1>6, <3>2, <3>3, Sent
  <2> HIDE DEF n, old
  <2>2. applied[c][old + 1] = <<>>
    BY <2>1 DEF NumbersInv, old
  <2>3. ASSUME NEW i \in DOMAIN inbox
        PROVE  inbox[i].from = c =>
                 inbox[i].number # old + 1 /\ inbox[i].number \in 1..(old + 1)
    BY <1>0, <2>1 DEF InboxInv, old
  <2>4. DOMAIN inbox' = DOMAIN inbox \cup {n} /\ n \notin DOMAIN inbox
    BY <2>1 DEF n
  <2>5. ASSUME NEW i \in DOMAIN inbox'
        PROVE  LET r == inbox'[i]
                   d == r.from
               IN  /\ r.number \in 1..client'[d].number
                   /\ r.number = client'[d].number =>
                        r.env = client'[d].env /\ client'[d].pc # "ok"
                   /\ r.env \in Requests[d]
                   /\ applied'[d][r.number] = <<>>
    <3>1. CASE i = n
      BY <2>1, <2>2, <3>1
    <3>2. CASE i \in DOMAIN inbox
      <4>1. inbox'[i] = inbox[i]
        BY <2>1, <3>2
      <4>2. CASE inbox[i].from = c
        BY <2>1, <2>3, <3>2, <4>1, <4>2 DEF InboxInv
      <4>3. CASE inbox[i].from # c
        BY <1>0, <2>1, <3>2, <4>1, <4>3 DEF InboxInv
      <4> QED BY <4>2, <4>3
    <3> QED BY <2>4, <3>1, <3>2
  <2>6. ASSUME NEW i \in DOMAIN inbox', NEW j \in DOMAIN inbox',
               inbox'[j].from = inbox'[i].from, inbox'[j].number = inbox'[i].number
        PROVE  i = j
    <3>1. \A k \in DOMAIN inbox : inbox'[k] = inbox[k]
      BY <2>1
    <3>2. CASE i \in DOMAIN inbox /\ j \in DOMAIN inbox
      BY <2>6, <3>1, <3>2 DEF InboxInv
    <3>3. CASE i = n /\ j \in DOMAIN inbox
      BY <2>1, <2>3, <2>6, <3>1, <3>3
    <3>4. CASE j = n /\ i \in DOMAIN inbox
      BY <2>1, <2>3, <2>6, <3>1, <3>4
    <3> QED BY <2>4, <3>2, <3>3, <3>4
  <2> QED BY <2>5, <2>6 DEF InboxInv
<1>7. ASSUME NEW o \in {"ok", "nok"}, Dispatch(o) PROVE InboxInv'
  <2>1. ASSUME NEW i \in DOMAIN inbox
        PROVE  applied'[inbox[i].from][inbox[i].number] = <<>>
    <3> DEFINE c == inbox[i].from
               k == inbox[i].number
    <3>1. /\ c \in Client /\ k \in 1..client[c].number /\ applied[c][k] = <<>>
          /\ client[c].number \in Nat /\ client[c].number <= MaxSends[c]
      BY <1>0 DEF InboxInv, NumbersInv
    <3>2. k \in 1..MaxSends[c]
      BY <3>1, RequestsAssumption
    <3>3. ~ (c = job.from /\ k = job.number)
      BY <1>7, Executed DEF JobInv
    <3> QED BY <1>7, <3>1, <3>2, <3>3, Executed
  <2>2. UNCHANGED <<client, inbox>>
    BY <1>7, Executed
  <2> QED BY <2>1, <2>2 DEF InboxInv
<1>8. CASE LoopSend
  <2>1. api = "dispatch"
    BY <1>8 DEF LoopSend
  <2>2. ASSUME NEW i \in DOMAIN inbox, inbox[i].number = client[inbox[i].from].number
        PROVE  client'[inbox[i].from].pc # "ok"
    <3>1. ~ (inbox[i].from = job.from /\ inbox[i].number = job.number)
      BY <2>1 DEF JobInv
    <3> QED BY <1>0, <1>8, <2>2, <3>1, Ended DEF InboxInv
  <2>3. /\ UNCHANGED <<inbox, applied>>
        /\ \A d \in Client :
             client'[d].env = client[d].env /\ client'[d].number = client[d].number
    BY <1>8, Ended
  <2> QED BY <1>0, <2>2, <2>3 DEF InboxInv
<1> QED
  BY <1>3, <1>4, <1>5, <1>6, <1>7, <1>8
  DEF Next, ClientStep, ApiStep, DispatchThrows, RunEnds, Signal, MainExits, vars

(* The part of a request that counts is a sequence of messages.            *)
LEMMA InnerSeq ==
  ASSUME NEW c \in Client, NEW env \in Requests[c]
  PROVE  /\ Inner(env).messages \in Seq(Message) /\ Len(Inner(env).messages) \in Nat
         /\ DOMAIN Inner(env).messages = 1..Len(Inner(env).messages)
<1>1. Inner(env).messages \in Seq(Message)
  BY EnvelopeAssumption DEF Inner
<1> QED BY <1>1, LenProperties

(* The request in progress goes on as it came.                             *)
LEMMA JobStep ==
  RequestsTypes /\ NumbersInv /\ InboxInv /\ JobInv /\ [Next]_vars => JobInv'
<1> SUFFICES ASSUME RequestsTypes, NumbersInv, InboxInv, JobInv, [Next]_vars,
                    api' = "dispatch"
             PROVE  JobInv'
  BY DEF JobInv
<1>1. ASSUME UNCHANGED <<server_key, api, job, applied>>, Embeds(inbox', inbox),
             \A d \in Client :
               /\ client'[d].env = client[d].env /\ client'[d].number = client[d].number
               /\ client'[d].pc = "ok" => client[d].pc = "ok"
      PROVE  JobInv'
  <2>1. /\ job.from \in Client /\ api = "dispatch" /\ JobInv
        /\ client'[job.from].number = client[job.from].number
    BY <1>1 DEF JobInv
  <2>2. InProgress(job.from) => InProgress(job.from)'
    BY <1>1, <2>1 DEF InProgress, Inner
  <2>3. ASSUME NEW i \in DOMAIN inbox'
        PROVE  ~ (inbox'[i].from = job.from /\ inbox'[i].number = job.number)
    <3>1. PICK k \in DOMAIN inbox : inbox'[i] = inbox[k]
      BY <1>1 DEF Embeds
    <3> QED BY <2>1, <3>1 DEF JobInv
  <2> QED BY <1>1, <2>1, <2>2, <2>3 DEF JobInv
<1>2. Embeds(inbox, inbox)
  BY DEF Embeds
<1>3. CASE UNCHANGED <<server_key, client, api, job, applied, inbox>>
  BY <1>1, <1>2, <1>3
<1>4. ASSUME NEW c \in Client, ClientTimeout(c) PROVE JobInv'
  BY <1>1, <1>4, TimedOut
<1>5. ASSUME NEW c \in Client, NEW env \in Requests[c], ClientSend(c, env)
      PROVE  JobInv'
  <2> DEFINE n == Len(inbox) + 1
             old == client[c].number
  <2>1. /\ UNCHANGED <<server_key, api, job, applied>> /\ old \in Nat
        /\ \A d \in Client : d # c => client'[d] = client[d]
        /\ client'[c].number = old + 1 /\ Len(inbox) \in Nat
        /\ DOMAIN inbox = 1..Len(inbox) /\ DOMAIN inbox' = 1..n
        /\ \A i \in 1..Len(inbox) : inbox'[i] = inbox[i]
    BY <1>5, Sent
  <2>2. inbox'[n].from = c /\ inbox'[n].number = old + 1
    <3>1. inbox'[n] = [from |-> c, number |-> old + 1, env |-> env]
      BY <1>5, Sent
    <3> QED BY <3>1
  <2>3. /\ job.from \in Client /\ job.number \in 1..client[job.from].number
        /\ \A i \in DOMAIN inbox :
             ~ (inbox[i].from = job.from /\ inbox[i].number = job.number)
        /\ job.reply # None => job.todo = <<>>
        /\ server_key # None /\ job.todo # <<>> => job.sealed
        /\ job.number = client[job.from].number => InProgress(job.from)
    BY <2>1 DEF JobInv
  <2>4. job.from = c => job.number \in 1..(old + 1) /\ job.number # old + 1
    BY <2>1, <2>3
  <2>5. job.number \in 1..client'[job.from].number
    BY <2>1, <2>3, <2>4
  <2>6. ASSUME NEW i \in DOMAIN inbox'
        PROVE  ~ (inbox'[i].from = job.from /\ inbox'[i].number = job.number)
    <3>1. CASE i = n
      BY <2>2, <2>4, <3>1
    <3>2. CASE i \in DOMAIN inbox
      BY <2>1, <2>3, <3>2
    <3> QED BY <2>1, <3>1, <3>2
  <2>7. ASSUME job.number = client'[job.from].number PROVE InProgress(job.from)'
    <3>1. job.from # c /\ client'[job.from] = client[job.from]
      BY <2>1, <2>3, <2>4, <2>7
    <3>2. InProgress(job.from)
      BY <2>3, <2>7, <3>1
    <3> QED BY <2>1, <3>1, <3>2 DEF InProgress, Inner
  <2> HIDE DEF n, old
  <2> QED BY <2>1, <2>3, <2>5, <2>6, <2>7 DEF JobInv
<1>6. CASE LoopReceive
  <2> DEFINE r == Head(inbox)
             p == ProcessRequest(r.env)
  <2>1. /\ r = inbox[1] /\ 1 \in DOMAIN inbox /\ inbox' = Tail(inbox)
        /\ UNCHANGED <<server_key, client, applied>>
        /\ job' = [from |-> r.from, number |-> r.number, todo |-> p.todo,
                   reps |-> <<>>, sealed |-> p.sealed, reply |-> p.reply]
    BY <1>6, Elements, Shifted DEF LoopReceive
  <2>2. /\ r.from \in Client /\ r.number \in 1..client[r.from].number
        /\ r.env \in Requests[r.from] /\ applied[r.from][r.number] = <<>>
        /\ r.number = client[r.from].number =>
             r.env = client[r.from].env /\ client[r.from].pc # "ok"
    BY <2>1, Elements DEF InboxInv, Request
  <2>3. Dispatched(r.env, p)
    BY <2>2, Processed
  <2> HIDE DEF r, p
  <2>4. /\ job'.from = r.from /\ job'.number = r.number /\ job'.todo = p.todo
        /\ job'.reps = <<>> /\ job'.reply = p.reply
    BY <2>1
  <2>5. job'.sealed = p.sealed
    BY <2>1
  <2>6. ASSUME NEW i \in DOMAIN inbox'
        PROVE  ~ (inbox'[i].from = r.from /\ inbox'[i].number = r.number)
    <3>1. i + 1 \in DOMAIN inbox /\ i + 1 # 1 /\ inbox'[i] = inbox[i + 1]
      BY <1>6, <2>1, Elements, Shifted DEF LoopReceive
    <3> QED BY <2>1, <3>1 DEF InboxInv
  <2>7. ASSUME r.number = client[r.from].number PROVE InProgress(job.from)'
    <3> DEFINE ms == Inner(client[r.from].env).messages
    <3>1. Dispatched(client[r.from].env, p) /\ client[r.from].pc # "ok"
      BY <2>2, <2>3, <2>7
    <3>2. Inner(client[job.from].env)' = Inner(client[r.from].env)
      BY <2>1, <2>4 DEF Inner
    <3>3. ms \in Seq(Message) /\ Len(ms) \in Nat
      BY <2>2, <2>7, InnerSeq
    <3>4. p.reply = None => p.todo = ms
      BY <3>1 DEF Dispatched
    <3> HIDE DEF ms
    <3>5. p.reply = None =>
            /\ Len(<<>>) + Len(p.todo) = Len(ms)
            /\ \A i \in 1..Len(p.todo) : p.todo[i] = ms[Len(<<>>) + i]
      BY <3>3, <3>4
    <3>6. server_key # None /\ p.todo # <<>> =>
            /\ client[r.from].env.encrypted # None
            /\ client[r.from].env.encrypted.key = server_key
            /\ client[r.from].env.encrypted.inner.encrypted = None
      BY <3>1 DEF Dispatched
    <3>7. applied'[job'.from][job'.number] = <<>> /\ client'[job'.from] = client[r.from]
      BY <2>1, <2>2, <2>4
    <3> QED BY <2>1, <2>4, <3>1, <3>2, <3>5, <3>6, <3>7 DEF InProgress, ms
  <2>8. /\ p.reply # None => p.todo = <<>>
        /\ server_key # None /\ p.todo # <<>> => p.sealed
    BY <2>3 DEF Dispatched
  <2> QED BY <2>1, <2>2, <2>4, <2>5, <2>6, <2>7, <2>8 DEF JobInv
<1>7. ASSUME NEW o \in {"ok", "nok"}, Dispatch(o) PROVE JobInv'
  <2> DEFINE c == job.from
             k == job.number
             ms == Inner(client[c].env).messages
             done == applied[c][k]
  <2>1. /\ UNCHANGED <<server_key, client, inbox, api>> /\ api = "dispatch"
        /\ job.todo # <<>> /\ job.todo \in Seq(Message) /\ job.reps \in Seq(Result)
        /\ c \in Client /\ k \in 1..MaxSends[c]
    BY <1>7, Executed
  <2>2. PICK x \in Result, y \in Result :
              /\ x.result = y.result /\ y.id = Head(job.todo).id
              /\ job' = [job EXCEPT !.todo = Tail(@), !.reps = Append(@, x)]
              /\ applied'[c][k] = Append(done, y)
    BY <1>7, Executed
  <2>3. /\ job'.from = c /\ job'.number = k /\ job'.reply = job.reply
        /\ job'.todo = Tail(job.todo) /\ job'.reps = Append(job.reps, x)
    BY <2>2, Elements DEF Job
  <2>4. job'.sealed = job.sealed
    BY <2>2, Elements DEF Job
  <2>5. job.reply = None
    BY <2>1 DEF JobInv
  <2>6. ASSUME k = client[c].number PROVE InProgress(job.from)'
    <3>1. InProgress(c)
      BY <2>1, <2>6 DEF JobInv
    <3>2. /\ Len(job.reps) = Len(done) /\ Len(done) + Len(job.todo) = Len(ms)
          /\ \A i \in 1..Len(done) : job.reps[i].result = done[i].result
          /\ \A i \in 1..Len(job.todo) : job.todo[i] = ms[Len(done) + i]
      BY <2>5, <3>1 DEF InProgress
    <3>3. done \in Seq(Result)
      BY <2>1 DEF RequestsTypes
    <3>4. Inner(client[job.from].env)' = Inner(client[c].env)
      BY <2>1, <2>3 DEF Inner
    <3> HIDE DEF ms, done
    <3>5. /\ Len(Append(done, y)) = Len(done) + 1 /\ Len(done) \in Nat
          /\ \A i \in 1..Len(done) : Append(done, y)[i] = done[i]
          /\ Append(done, y)[Len(done) + 1] = y
      BY <3>3, Appended
    <3>6. /\ Len(Append(job.reps, x)) = Len(done) + 1
          /\ \A i \in 1..Len(done) : Append(job.reps, x)[i] = job.reps[i]
          /\ Append(job.reps, x)[Len(done) + 1] = x
      BY <2>1, <3>2, Appended
    <3>7. /\ Len(job.todo) \in Nat /\ Len(Tail(job.todo)) = Len(job.todo) - 1
          /\ DOMAIN Tail(job.todo) = 1..(Len(job.todo) - 1)
          /\ \A i \in 1..(Len(job.todo) - 1) : Tail(job.todo)[i] = job.todo[i + 1]
      <4>1. Tail(job.todo) \in Seq(Message) /\ Len(Tail(job.todo)) = Len(job.todo) - 1
            /\ Len(job.todo) \in Nat
        BY <2>1, Shifted
      <4>2. DOMAIN Tail(job.todo) = 1..(Len(job.todo) - 1)
        BY <4>1, LenProperties
      <4> QED BY <2>1, <4>1, <4>2, Shifted
    <3>8. ASSUME NEW i \in 1..(Len(done) + 1)
          PROVE  Append(job.reps, x)[i].result = Append(done, y)[i].result
      <4>1. CASE i = Len(done) + 1
        BY <2>2, <3>5, <3>6, <4>1
      <4>2. CASE i \in 1..Len(done)
        BY <3>2, <3>5, <3>6, <4>2
      <4>3. i = Len(done) + 1 \/ i \in 1..Len(done)
        BY <3>5
      <4> QED BY <4>1, <4>2, <4>3
    <3>9. ASSUME NEW i \in 1..(Len(job.todo) - 1)
          PROVE  Tail(job.todo)[i] = ms[(Len(done) + 1) + i]
      <4>1. i + 1 \in 1..Len(job.todo) /\ Len(done) + (i + 1) = (Len(done) + 1) + i
        BY <3>5, <3>7
      <4> QED BY <3>2, <3>7, <4>1
    <3>10. (Len(done) + 1) + (Len(job.todo) - 1) = Len(ms)
      <4>1. \A a, b \in Nat : (a + 1) + (b - 1) = a + b
        OBVIOUS
      <4> QED BY <3>2, <3>5, <3>7, <4>1
    <3> DEFINE d1 == Append(done, y)
               r1 == Append(job.reps, x)
               t1 == Tail(job.todo)
    <3> HIDE DEF d1, r1, t1
    <3>11. /\ Len(r1) = Len(d1) /\ Len(d1) + Len(t1) = Len(ms)
           /\ \A i \in 1..Len(d1) : r1[i].result = d1[i].result
           /\ \A i \in 1..Len(t1) : t1[i] = ms[Len(d1) + i]
      BY <3>5, <3>6, <3>7, <3>8, <3>9, <3>10 DEF d1, r1, t1
    <3>12. /\ applied'[job'.from][job'.number] = d1 /\ job'.reps = r1 /\ job'.todo = t1
           /\ Inner(client[job.from].env)'.messages = ms /\ client'[job'.from] = client[c]
      BY <2>1, <2>2, <2>3, <3>4 DEF d1, r1, t1, done, ms
    <3>13. /\ client[c].pc # "ok"
           /\ server_key # None =>
                /\ client[c].env.encrypted # None
                /\ client[c].env.encrypted.key = server_key
                /\ client[c].env.encrypted.inner.encrypted = None
      BY <2>1, <3>1 DEF InProgress
    <3> QED BY <2>1, <3>11, <3>12, <3>13 DEF InProgress
  <2>7. /\ c \in Client /\ k \in 1..client[c].number
        /\ \A i \in DOMAIN inbox : ~ (inbox[i].from = c /\ inbox[i].number = k)
        /\ server_key # None => job.sealed
    BY <2>1 DEF JobInv
  <2> HIDE DEF c, k
  <2> QED BY <2>1, <2>3, <2>4, <2>5, <2>6, <2>7 DEF JobInv
<1>8. CASE DispatchThrows
  <2>1. /\ job' = [job EXCEPT !.todo = <<>>, !.reply = Bare("INTERNAL_ERROR")]
        /\ UNCHANGED <<server_key, client, inbox, applied>> /\ api = "dispatch"
    BY <1>8 DEF DispatchThrows
  <2>2. Bare("INTERNAL_ERROR") # None
    BY EnvelopeAssumption DEF Errors
  <2>3. /\ job'.from = job.from /\ job'.number = job.number /\ job'.todo = <<>>
        /\ job'.reply # None
    BY <2>1, <2>2, Elements DEF Job
  <2>4. InProgress(job.from) => InProgress(job.from)'
    BY <2>1, <2>3 DEF InProgress
  <2> QED BY <2>1, <2>3, <2>4 DEF JobInv
<1> QED
  BY <1>3, <1>4, <1>5, <1>6, <1>7, <1>8, Ended
  DEF Next, ClientStep, ApiStep, RunEnds, Signal, MainExits, vars
-----------------------------------------------------------------------------
(* What is executed.                                                       *)

LEMMA AppliedInit == Init => AppliedOnce /\ SuccessMeansApplied
BY DEF Init, AppliedOnce, SuccessMeansApplied

(* The messages that were executed for the last request of a client are a  *)
(* beginning of that request.                                              *)
LEMMA AppliedStep ==
  RequestsTypes /\ NumbersInv /\ JobInv /\ AppliedOnce /\ [Next]_vars => AppliedOnce'
<1> SUFFICES ASSUME RequestsTypes, NumbersInv, JobInv, AppliedOnce, [Next]_vars
             PROVE  AppliedOnce'
  OBVIOUS
<1>1. ASSUME UNCHANGED <<server_key, applied>>,
             \A d \in Client :
               client'[d].env = client[d].env /\ client'[d].number = client[d].number
      PROVE  AppliedOnce'
  BY <1>1 DEF AppliedOnce, Inner
<1>2. CASE UNCHANGED <<server_key, client, applied>>
  BY <1>1, <1>2
<1>3. ASSUME NEW c \in Client, ClientTimeout(c) PROVE AppliedOnce'
  BY <1>1, <1>3, TimedOut
<1>4. CASE LoopSend
  BY <1>1, <1>4, Ended
<1>5. ASSUME NEW c \in Client, NEW env \in Requests[c], ClientSend(c, env)
      PROVE  AppliedOnce'
  <2>1. /\ client[c].number \in Nat /\ client[c].number < MaxSends[c]
        /\ client'[c].env = env /\ client'[c].number = client[c].number + 1
        /\ \A d \in Client : d # c => client'[d] = client[d]
        /\ UNCHANGED <<server_key, applied>>
    BY <1>5, Sent
  <2>2. applied'[c][client'[c].number] = <<>>
    BY <2>1, RequestsAssumption DEF NumbersInv
  <2>3. Len(Inner(client[c].env)'.messages) \in Nat
    <3>1. Inner(client[c].env)' = Inner(env)
      BY <2>1 DEF Inner
    <3> QED BY <3>1, InnerSeq
  <2>4. ASSUME NEW d \in Client, d # c
        PROVE  client'[d] = client[d] /\ Inner(client[d].env)' = Inner(client[d].env)
    BY <2>1, <2>4 DEF Inner
  <2> DEFINE Begins(d) ==
        LET k == client'[d].number
        IN  k > 0 =>
              LET ms == Inner(client[d].env)'.messages
              IN  /\ Len(applied'[d][k]) <= Len(ms)
                  /\ \A i \in DOMAIN applied'[d][k] : applied'[d][k][i].id = ms[i].id
  <2>5. Begins(c)
    <3>1. Len(applied'[c][client'[c].number]) = 0
      BY <2>2
    <3>2. DOMAIN applied'[c][client'[c].number] = {}
      BY <2>2
    <3> QED BY <2>3, <3>1, <3>2
  <2>6. ASSUME NEW d \in Client, d # c PROVE Begins(d)
    <3>1. client'[d].number = client[d].number /\ applied'[d] = applied[d]
      BY <2>1, <2>6
    <3>2. Inner(client[d].env)' = Inner(client[d].env)
      BY <2>4, <2>6
    <3>3. client[d].number > 0 =>
            /\ Len(applied[d][client[d].number]) <= Len(Inner(client[d].env).messages)
            /\ \A i \in DOMAIN applied[d][client[d].number] :
                 applied[d][client[d].number][i].id = Inner(client[d].env).messages[i].id
      BY <2>6 DEF AppliedOnce
    <3> QED BY <3>1, <3>2, <3>3
  <2>7. \A d \in Client : Begins(d)
    BY <2>5, <2>6
  <2> QED BY <2>7 DEF AppliedOnce
<1>6. ASSUME NEW o \in {"ok", "nok"}, Dispatch(o) PROVE AppliedOnce'
  <2>1. /\ UNCHANGED <<server_key, client>> /\ api = "dispatch" /\ job.todo # <<>>
        /\ job.todo \in Seq(Message)
        /\ job.from \in Client /\ job.number \in 1..MaxSends[job.from]
        /\ \A d \in Client : d # job.from => applied'[d] = applied[d]
        /\ \A k \in 1..MaxSends[job.from] :
             k # job.number => applied'[job.from][k] = applied[job.from][k]
    BY <1>6, Executed
  <2>2. PICK y \in Result :
              /\ y.id = Head(job.todo).id
              /\ applied'[job.from][job.number] = Append(applied[job.from][job.number], y)
    BY <1>6, Executed
  <2> SUFFICES ASSUME NEW c \in Client, client[c].number > 0
               PROVE  LET k == client[c].number
                          ms == Inner(client[c].env).messages
                      IN  /\ Len(applied'[c][k]) <= Len(ms)
                          /\ \A i \in DOMAIN applied'[c][k] : applied'[c][k][i].id = ms[i].id
    BY <2>1 DEF AppliedOnce, Inner
  <2> DEFINE k == client[c].number
             ms == Inner(client[c].env).messages
             done == applied[c][k]
  <2>3. k \in 1..MaxSends[c]
    BY Elements, RequestsAssumption DEF NumbersInv, State
  <2>4. /\ Len(done) <= Len(ms)
        /\ \A i \in DOMAIN done : done[i].id = ms[i].id
    BY DEF AppliedOnce
  <2>5. CASE c = job.from /\ k = job.number
    <3>1. job.reply = None /\ InProgress(c)
      BY <2>1, <2>5 DEF JobInv
    <3>2. /\ Len(done) + Len(job.todo) = Len(ms)
          /\ \A i \in 1..Len(job.todo) : job.todo[i] = ms[Len(done) + i]
      BY <2>5, <3>1 DEF InProgress
    <3>3. done \in Seq(Result) /\ applied'[c][k] = Append(done, y)
      BY <2>2, <2>3, <2>5 DEF RequestsTypes
    <3>4. Len(job.todo) \in Nat /\ Len(job.todo) > 0 /\ Head(job.todo) = job.todo[1]
      BY <2>1, Shifted
    <3> HIDE DEF done, ms, k
    <3>5. /\ Len(Append(done, y)) = Len(done) + 1 /\ Len(done) \in Nat
          /\ DOMAIN done = 1..Len(done) /\ DOMAIN Append(done, y) = 1..(Len(done) + 1)
          /\ \A i \in 1..Len(done) : Append(done, y)[i] = done[i]
          /\ Append(done, y)[Len(done) + 1] = y
      BY <3>3, Appended
    <3>6. ms[Len(done) + 1].id = y.id
      BY <2>2, <3>2, <3>4
    <3>7. Len(done) + 1 <= Len(ms)
      BY <3>2, <3>4, <3>5
    <3>8. ASSUME NEW i \in 1..(Len(done) + 1) PROVE Append(done, y)[i].id = ms[i].id
      <4>1. i = Len(done) + 1 \/ i \in 1..Len(done)
        BY <3>5
      <4>2. CASE i = Len(done) + 1
        BY <3>5, <3>6, <4>2
      <4>3. CASE i \in 1..Len(done)
        BY <2>4, <3>5, <4>3
      <4> QED BY <4>1, <4>2, <4>3
    <3> QED BY <3>3, <3>5, <3>7, <3>8 DEF ms, k
  <2>6. CASE ~ (c = job.from /\ k = job.number)
    <3>1. applied'[c][k] = done
      BY <2>1, <2>3, <2>6
    <3> QED BY <2>4, <3>1
  <2> QED BY <2>5, <2>6
<1> QED
  BY <1>2, <1>3, <1>4, <1>5, <1>6
  DEF Next, ClientStep, ApiStep, LoopReceive, DispatchThrows, RunEnds, Signal, MainExits, vars

(* The client's verdict: every message of its request was executed with    *)
(* success.                                                                *)
LEMMA SuccessStep == RequestsInv /\ [Next]_vars => SuccessMeansApplied'
<1> SUFFICES ASSUME RequestsInv, [Next]_vars PROVE SuccessMeansApplied'
  OBVIOUS
<1> USE DEF RequestsInv
<1>1. ASSUME UNCHANGED <<server_key, applied>>,
             \A d \in Client :
               client'[d].pc = "ok" =>
                 /\ client'[d].env = client[d].env /\ client'[d].number = client[d].number
                 /\ client[d].pc = "ok"
      PROVE  SuccessMeansApplied'
  BY <1>1 DEF SuccessMeansApplied, Inner
<1>2. CASE UNCHANGED <<server_key, client, applied>>
  BY <1>1, <1>2
<1>3. ASSUME NEW c \in Client, ClientTimeout(c) PROVE SuccessMeansApplied'
  BY <1>1, <1>3, TimedOut
<1>4. ASSUME NEW c \in Client, NEW env \in Requests[c], ClientSend(c, env)
      PROVE  SuccessMeansApplied'
  BY <1>1, <1>4, Sent
<1>5. ASSUME NEW o \in {"ok", "nok"}, Dispatch(o) PROVE SuccessMeansApplied'
  <2>1. /\ UNCHANGED <<server_key, client>> /\ api = "dispatch"
        /\ \A d \in Client : d # job.from => applied'[d] = applied[d]
        /\ \A k \in 1..MaxSends[job.from] :
             k # job.number => applied'[job.from][k] = applied[job.from][k]
    BY <1>5, Executed
  <2>2. ASSUME NEW c \in Client, client[c].pc = "ok"
        PROVE  applied'[c][client[c].number] = applied[c][client[c].number]
    <3>1. client[c].number \in 1..MaxSends[c]
      BY <2>2, Elements, RequestsAssumption DEF NumbersInv, State
    <3>2. ~ (c = job.from /\ client[c].number = job.number)
      BY <2>1, <2>2 DEF JobInv, InProgress
    <3> QED BY <2>1, <3>1, <3>2
  <2> QED BY <2>1, <2>2 DEF SuccessMeansApplied, Inner
<1>6. CASE LoopSend
  <2> DEFINE c == job.from
             k == job.number
             r == IF job.reply # None THEN job.reply ELSE Reps(job.reps)
  <2>1. UNCHANGED <<server_key, applied>> /\ api = "dispatch" /\ job.todo = <<>>
    BY <1>6 DEF LoopSend
  <2>2. c \in Client
    BY <2>1 DEF JobInv
  <2>3. ASSUME client'[c].pc = "ok", client[c].pc # "ok"
        PROVE  applied[c][client[c].number] = Ok(Inner(client[c].env).messages)
    <3>0. PICK reply \in Answers(r) :
            client' = IF client[c].pc = "waits" /\ client[c].number = k
                      THEN [client EXCEPT ![c].pc =
                              IF CheckRequestResult(c, reply) THEN "ok" ELSE "failed"]
                      ELSE client
      BY <1>6 DEF LoopSend
    <3>1. /\ client[c].number = k
          /\ CheckRequestResult(c, reply)
      <4>1. client \in [Client -> State]
        BY Elements
      <4> DEFINE v == IF CheckRequestResult(c, reply) THEN "ok" ELSE "failed"
      <4>2. IF client[c].pc = "waits" /\ client[c].number = k
            THEN client' = [client EXCEPT ![c].pc = v] ELSE client' = client
        BY <3>0
      <4>3. v = "ok" => CheckRequestResult(c, reply)
        OBVIOUS
      <4> HIDE DEF v
      <4>4. client' # client
        BY <2>3
      <4>5. client' = [client EXCEPT ![c].pc = v] /\ client[c].number = k
        BY <4>2, <4>4
      <4>6. client'[c].pc = v
        BY <2>2, <4>1, <4>5 DEF State
      <4> QED BY <2>3, <4>3, <4>5, <4>6
    <3>1a. reply = r \/ reply = Seal(r)
      <4>1. ~ CheckRequestResult(c, EncError("INTERNAL_ERROR"))
        BY DEF CheckRequestResult, EncError
      <4> QED BY <3>1, <4>1 DEF Answers
    <3>2. job.reply = None
      <4>1. job.reply \in Errors \cup {None}
        BY Elements DEF Job
      <4>2. ASSUME job.reply \in Errors, job.reply # None PROVE FALSE
        <5>1. reply = job.reply \/ reply = [job.reply EXCEPT !.key = server_key]
          BY <3>1a, <4>2 DEF Seal
        <5> QED BY <2>2, <3>1, <4>2, <5>1, ErrorsFail
      <4> QED BY <4>1, <4>2
    <3>3. /\ reply.reps = job.reps
          /\ \A i \in DOMAIN job.reps : job.reps[i].result = "ok"
      <4>1. Reps(job.reps).reps = job.reps /\ Seal(Reps(job.reps)).reps = job.reps
        BY DEF Reps, Seal
      <4>2. reply.reps = job.reps
        BY <3>1a, <3>2, <4>1
      <4> QED BY <3>1, <4>2 DEF CheckRequestResult
    <3> DEFINE ms == Inner(client[c].env).messages
               done == applied[c][k]
    <3>4. InProgress(c)
      BY <2>1, <3>1 DEF JobInv
    <3>5. /\ Len(job.reps) = Len(done) /\ Len(done) + Len(job.todo) = Len(ms)
          /\ \A i \in 1..Len(done) : job.reps[i].result = done[i].result
      BY <3>2, <3>4 DEF InProgress
    <3>6. client[c].number \in 1..MaxSends[c] /\ client[c].env \in Requests[c]
      BY <2>1, <2>2, <3>1, Elements, RequestsAssumption DEF NumbersInv, JobInv, State
    <3>7. /\ ms \in Seq(Message) /\ Len(ms) \in Nat /\ DOMAIN ms = 1..Len(ms)
      BY <2>2, <3>6, InnerSeq
    <3>8. done \in Seq(Result) /\ \A i \in DOMAIN done : done[i].id = ms[i].id
      <4>1. k \in 1..MaxSends[c] /\ k > 0
        BY <3>1, <3>6, RequestsAssumption
      <4>2. applied[c] \in [1..MaxSends[c] -> Seq(Result)]
        BY <2>2 DEF RequestsTypes
      <4>3. done \in Seq(Result)
        BY <4>1, <4>2
      <4>4. \A i \in DOMAIN applied[c][client[c].number] :
              applied[c][client[c].number][i].id = Inner(client[c].env).messages[i].id
        BY <2>2, <3>1, <4>1 DEF AppliedOnce
      <4> QED BY <3>1, <4>3, <4>4
    <3> HIDE DEF ms, done
    <3>9. Len(done) = Len(ms) /\ DOMAIN done = 1..Len(ms)
      BY <2>1, <3>5, <3>7, <3>8, LenProperties
    <3>10. DOMAIN job.reps = 1..Len(ms)
      BY <3>5, <3>9, Elements, LenProperties DEF Job
    <3>11. ASSUME NEW i \in 1..Len(ms) PROVE done[i] = [id |-> ms[i].id, result |-> "ok"]
      <4>1. done[i] \in Result
        BY <3>8, <3>9, ElementOfSeq
      <4>2. done[i].id = ms[i].id /\ done[i].result = "ok"
        BY <3>3, <3>5, <3>8, <3>9, <3>10
      <4> QED BY <4>1, <4>2 DEF Result
    <3>12. done = [i \in 1..Len(ms) |-> [id |-> ms[i].id, result |-> "ok"]]
      BY <3>8, <3>9, <3>11
    <3> QED BY <3>1, <3>7, <3>12 DEF Ok, done, ms
  <2>4. \A d \in Client :
              /\ client'[d].env = client[d].env /\ client'[d].number = client[d].number
              /\ client'[d].pc = "ok" => client[d].pc = "ok" \/ d = c
    BY <1>6, Ended
  <2>5. ASSUME NEW d \in Client, client'[d].pc = "ok"
        PROVE  applied[d][client[d].number] = Ok(Inner(client[d].env).messages)
    <3>1. CASE client[d].pc = "ok"
      BY <3>1 DEF SuccessMeansApplied
    <3>2. CASE client[d].pc # "ok"
      BY <2>3, <2>4, <2>5, <3>2
    <3> QED BY <3>1, <3>2
  <2>6. \A d \in Client : Inner(client[d].env)' = Inner(client[d].env)
    BY <2>1, <2>4 DEF Inner
  <2> HIDE DEF c, k
  <2> QED BY <2>1, <2>4, <2>5, <2>6 DEF SuccessMeansApplied
<1> QED
  BY <1>2, <1>3, <1>4, <1>5, <1>6
  DEF Next, ClientStep, ApiStep, LoopReceive, DispatchThrows, RunEnds, Signal, MainExits, vars
-----------------------------------------------------------------------------
(* Theorems.                                                               *)

LEMMA RequestsInvariant == Spec => []RequestsInv
<1>1. Init => RequestsInv
  BY TypesInit, NumbersInit, AppliedInit DEF RequestsInv
<1>2. RequestsInv /\ [Next]_vars => RequestsInv'
  BY TypesStep, NumbersStep, InboxStep, JobStep, AppliedStep, SuccessStep DEF RequestsInv
<1> QED BY <1>1, <1>2, PTL DEF Spec

(* For any number of clients, requests and keys, a client that reports     *)
(* success (client/request.cc) has had every message of its request        *)
(* executed, once, in order and with success (server/api.cc, server.cc).   *)
THEOREM RequestsSuccess == Spec => []SuccessMeansApplied
<1>1. RequestsInv => SuccessMeansApplied
  BY DEF RequestsInv
<1> QED BY <1>1, RequestsInvariant, PTL

(* Time-outs, retries of the user, exceptions and the end of the process   *)
(* never make the server execute a message of a request twice, or out of   *)
(* order.                                                                  *)
THEOREM RequestsAppliedOnce == Spec => []AppliedOnce
<1>1. RequestsInv => AppliedOnce
  BY DEF RequestsInv
<1> QED BY <1>1, RequestsInvariant, PTL

(* A server with a key (ApiEncrypted::Process, Api::ProcessRequest) only   *)
(* executes what was encrypted with that key, once.                        *)
THEOREM RequestsOnlyEncrypted == Spec => OnlyEncryptedApplied
<1> DEFINE A == server_key # None =>
                  \A c \in Client : applied'[c] # applied[c] =>
                    /\ job.sealed
                    /\ client[c].number = job.number =>
                         /\ client[c].env.encrypted # None
                         /\ client[c].env.encrypted.key = server_key
                         /\ client[c].env.encrypted.inner.encrypted = None
<1>1. RequestsInv /\ [Next]_vars => [A]_vars
  <2> SUFFICES ASSUME RequestsInv, Next, server_key # None,
                      NEW c \in Client, applied'[c] # applied[c]
               PROVE  /\ job.sealed
                      /\ client[c].number = job.number =>
                           /\ client[c].env.encrypted # None
                           /\ client[c].env.encrypted.key = server_key
                           /\ client[c].env.encrypted.inner.encrypted = None
    OBVIOUS
  <2>1. PICK o \in {"ok", "nok"} : Dispatch(o)
    BY DEF Next, ClientStep, ClientSend, ClientTimeout, ApiStep, LoopReceive,
           DispatchThrows, LoopSend, RunEnds, Signal, MainExits
  <2>2. c = job.from /\ api = "dispatch" /\ job.todo # <<>>
    BY <2>1, Executed DEF RequestsInv
  <2> QED BY <2>2 DEF RequestsInv, JobInv, InProgress
<1> QED BY <1>1, RequestsInvariant, PTL DEF Spec, OnlyEncryptedApplied
=============================================================================
