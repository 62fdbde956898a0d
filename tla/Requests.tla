------------------------------ MODULE Requests ------------------------------
(***************************************************************************)
(* The way of a request: a client (api/client/request.cc) sends Messages   *)
(* over a ZeroMQ REQ socket, encrypted or not; the API thread              *)
(* (api/server/server.cc) takes one request at a time, ProcessRequest and  *)
(* ApiEncrypted::Process decide whether its messages are dispatched, and   *)
(* the reply goes back to the client, which judges it.  The main thread    *)
(* (api/server/app.cc) ends the process when a request asked for it.       *)
(*                                                                         *)
(* What a message does is left to Api0: here it ends in "ok" or "nok".     *)
(* ZeroMQ delivers a request once and keeps a reply for the socket that    *)
(* sent the request; a client that gave up has closed its socket.          *)
(***************************************************************************)
EXTENDS Naturals, Sequences

CONSTANTS
  Client,
  Id,          \* ids of messages
  Requests,    \* Requests[c]: what client c may send (see Envelope)
  ClientKey,   \* ClientKey[c]: option -k of client c, None without it
  ServerKeys,  \* keys a server may have been started with, or None
  None,
  Timeout,     \* whether clients use --timeout
  MayThrow,    \* whether a handler may throw a std::exception, or an answer
               \* cannot be encrypted
  MaySignal,   \* whether the process gets a signal to end
  MaxSends     \* bound: MaxSends[c] requests of client c

ASSUME RequestsAssumption ==
  /\ Timeout \in BOOLEAN /\ MayThrow \in BOOLEAN
  /\ MaySignal \in BOOLEAN /\ MaxSends \in [Client -> Nat]

VARIABLES
  server_key,  \* app::config.encryption_key, None when it is empty
  client,   \* client[c]: its state, its last request, how many it made
  inbox,    \* requests that the API thread has not received yet
  api,      \* where the API thread is
  job,      \* the request it is processing
  exit,     \* app::request_exit
  main,     \* "runs", or "gone" with the whole process
  applied   \* history: outcomes of the messages of each request

vars == <<server_key, client, inbox, api, job, exit, main, applied>>

(* A message; "other" is of no version the server knows.                   *)
Message == [id : Id, kind : {"v0", "quit", "other"}]

(* A Messages on the wire: its messages and what it has encrypted, None if *)
(* nothing.  Garbage cannot be parsed.                                     *)
Garbage == [garbage |-> TRUE, messages |-> <<>>, encrypted |-> None]
Clear(ms) == [garbage |-> FALSE, messages |-> ms, encrypted |-> None]
(* aes256cbc_sha512 made with key; key None: another format.               *)
Enc(key, inner) ==
  [garbage |-> FALSE, messages |-> <<>>,
   encrypted |-> [key |-> key, inner |-> inner]]

(* Crypto::DecAes256CbcSha512: the hash only fits under the key that the   *)
(* data was encrypted with.                                                *)
Decrypts(key, sealedWith) == key # None /\ key = sealedWith

(* Replies.  A bare reply is a proto::Message instead of a Messages.       *)
Reps(rs) == [form |-> "messages", reps |-> rs, key |-> None]
Bare(code) == [form |-> "bare", reps |-> <<code>>, key |-> None]
EncError(code) == [form |-> "encrypted error", reps |-> <<code>>, key |-> None]
Seal(r) == [r EXCEPT !.key = server_key]
ErrorRep(code) == [id |-> None, result |-> code]
Rejected == Reps(<<ErrorRep("REJECTED")>>)
Errors == {Bare("PARSE_ERROR"), Bare("INTERNAL_ERROR"), EncError("NOT_SUPPORTED"),
           EncError("REJECTED"), Rejected}

(* Clients send sequences of messages, in clear, encrypted or both; no     *)
(* reply is None.                                                          *)
ASSUME EnvelopeAssumption ==
  /\ \A c \in Client : \A env \in Requests[c] :
       /\ env.messages \in Seq(Message)
       /\ env.encrypted # None => env.encrypted.inner.messages \in Seq(Message)
  /\ None \notin Errors

NoJob == [from |-> None, number |-> 0, todo |-> <<>>, reps |-> <<>>,
          sealed |-> FALSE, reply |-> None]
-----------------------------------------------------------------------------
(* Api::ProcessRequest before it dispatches: either the messages to run or *)
(* the reply that is sent instead.  sub: called by ApiEncrypted::Process,  *)
(* which encrypts the answer to what it has decrypted.                     *)
Run(ms, sub) == [todo |-> ms, reply |-> None, sealed |-> sub]
Say(r, sub) == [todo |-> <<>>, reply |-> r, sealed |-> sub]

(* Mutant of ProcessClear: messages are dispatched without a check.        *)
ProcessClearAlways(env, sub) ==
  IF env.garbage THEN Say(Bare("PARSE_ERROR"), sub)
  ELSE IF env.messages # <<>> THEN Run(env.messages, sub) ELSE Say(Rejected, sub)

ProcessClear(env, sub) ==
  CASE env.garbage -> Say(Bare("PARSE_ERROR"), sub)
    [] ~ env.garbage /\ server_key # None ->
         IF env.encrypted = None /\ sub THEN Run(env.messages, sub)
         ELSE Say(Rejected, sub)
    [] ~ env.garbage /\ server_key = None ->
         IF env.messages # <<>> THEN Run(env.messages, sub) ELSE Say(Rejected, sub)

(* ApiEncrypted::Process: a key that is not the server's gives a hash that *)
(* does not fit.                                                           *)
ProcessEncrypted(enc) ==
  IF enc.key = None THEN Say(EncError("NOT_SUPPORTED"), FALSE)
  ELSE IF ~ Decrypts(server_key, enc.key) THEN Say(EncError("REJECTED"), FALSE)
  ELSE ProcessClear(enc.inner, TRUE)

ProcessRequest(env) ==
  IF ~ env.garbage /\ server_key # None /\ env.encrypted # None
  THEN ProcessEncrypted(env.encrypted)
  ELSE ProcessClear(env, FALSE)
-----------------------------------------------------------------------------
(* Mutant of CheckRequestResult: the last message decides.                 *)
CheckLastResult(c, r) ==
  /\ r.key # None => Decrypts(ClientKey[c], r.key)
  /\ r.form = "messages" /\ r.reps # <<>>
  /\ r.reps[Len(r.reps)].result = "ok"

(* The client's verdict on a reply.  A bare reply parses as a Messages     *)
(* with an encrypted part that holds nothing.                              *)
CheckRequestResult(c, r) ==
  /\ r.key # None => Decrypts(ClientKey[c], r.key)
  /\ r.form = "messages" /\ r.reps # <<>>
  /\ \A i \in DOMAIN r.reps : r.reps[i].result = "ok"

Init ==
  /\ server_key \in ServerKeys
  /\ client = [c \in Client |-> [pc |-> "idle", env |-> None, number |-> 0]]
  /\ inbox = <<>> /\ api = "receive" /\ job = NoJob
  /\ exit = FALSE /\ main = "runs"
  /\ applied = [c \in Client |-> [k \in 1..MaxSends[c] |-> <<>>]]

(* Request() up to its receive.  Every request is made by a new process    *)
(* with a socket of its own.                                               *)
ClientSend(c, env) ==
  /\ client[c].pc # "waits" /\ client[c].number < MaxSends[c]
  /\ client' = [client EXCEPT ![c] = [pc |-> "waits", env |-> env,
                                      number |-> @.number + 1]]
  /\ inbox' = Append(inbox, [from |-> c, number |-> client[c].number + 1,
                             env |-> env])
  /\ UNCHANGED <<server_key, api, job, exit, main, applied>>

(* The client gives up; its request may be lost with its socket.           *)
ClientTimeout(c) ==
  /\ Timeout /\ client[c].pc = "waits"
  /\ client' = [client EXCEPT ![c].pc = "failed"]
  /\ \/ UNCHANGED inbox
     \/ \E i \in DOMAIN inbox :
          /\ inbox[i].from = c /\ inbox[i].number = client[c].number
          /\ inbox' = SubSeq(inbox, 1, i - 1) \o SubSeq(inbox, i + 1, Len(inbox))
  /\ UNCHANGED <<server_key, api, job, exit, main, applied>>

(* Mutant of LoopReceive: a reply of one message only goes out when it is  *)
(* an error of the encryption.                                             *)
LoopReceiveSilent ==
  /\ main = "runs" /\ api = "receive" /\ inbox # <<>>
  /\ LET r == Head(inbox)
         p == ProcessRequest(r.env)
     IN  /\ job' = [from |-> r.from, number |-> r.number, todo |-> p.todo,
                    reps |-> <<>>, sealed |-> p.sealed, reply |-> p.reply]
         /\ api' = IF p.reply = Rejected THEN "receive" ELSE "dispatch"
  /\ inbox' = Tail(inbox)
  /\ UNCHANGED <<server_key, client, exit, main, applied>>

(* ApiServer::Loop takes a request.                                        *)
LoopReceive ==
  /\ main = "runs" /\ api = "receive" /\ inbox # <<>>
  /\ LET r == Head(inbox)
         p == ProcessRequest(r.env)
     IN  /\ job' = [from |-> r.from, number |-> r.number, todo |-> p.todo,
                    reps |-> <<>>, sealed |-> p.sealed, reply |-> p.reply]
  /\ inbox' = Tail(inbox) /\ api' = "dispatch"
  /\ UNCHANGED <<server_key, client, exit, main, applied>>

(* Mutant of Dispatch: a message that fails is tried again.                *)
DispatchRetries(outcome) ==
  LET m == Head(job.todo)
  IN  /\ main = "runs" /\ api = "dispatch" /\ job.todo # <<>>
      /\ job' = IF outcome = "nok" THEN job
                ELSE [job EXCEPT !.todo = Tail(@),
                        !.reps = Append(@, [id |-> m.id, result |-> outcome])]
      /\ exit' = (exit \/ m.kind = "quit")
      /\ applied' = [applied EXCEPT ![job.from][job.number] =
                       Append(@, [id |-> m.id, result |-> outcome])]
      /\ UNCHANGED <<server_key, client, inbox, api, main>>

(* Api::Dispatch of the next message.                                      *)
Dispatch(outcome) ==
  LET m == Head(job.todo)
      result == IF m.kind = "other" THEN "VERSION_NOT_MANAGED" ELSE outcome
      id == IF m.kind = "other" THEN None ELSE m.id
  IN  /\ main = "runs" /\ api = "dispatch" /\ job.todo # <<>>
      /\ job' = [job EXCEPT !.todo = Tail(@),
                   !.reps = Append(@, [id |-> id, result |-> result])]
      /\ exit' = (exit \/ m.kind = "quit")
      /\ applied' = [applied EXCEPT ![job.from][job.number] =
                       Append(@, [id |-> m.id, result |-> result])]
      /\ UNCHANGED <<server_key, client, inbox, api, main>>

(* A handler throws: what was done stays, the answers so far are lost.     *)
DispatchThrows ==
  /\ MayThrow /\ main = "runs" /\ api = "dispatch" /\ job.todo # <<>>
  /\ job' = [job EXCEPT !.todo = <<>>, !.reply = Bare("INTERNAL_ERROR")]
  /\ UNCHANGED <<server_key, client, inbox, api, exit, main, applied>>

(* What is sent for the answer r: ApiEncrypted::Process encrypts it, and   *)
(* replaces it by an error when it cannot, whatever was executed.          *)
Answers(r) ==
  IF ~ job.sealed THEN {r}
  ELSE {Seal(r)} \cup IF MayThrow THEN {EncError("INTERNAL_ERROR")} ELSE {}

(* ApiServer::Loop sends the reply, and Run goes round, or ends when the   *)
(* process is to exit.                                                     *)
LoopSend ==
  LET r == IF job.reply # None THEN job.reply ELSE Reps(job.reps)
      c == job.from
  IN  /\ main = "runs" /\ api = "dispatch" /\ job.todo = <<>>
      /\ \E reply \in Answers(r) :
           client' = IF client[c].pc = "waits" /\ client[c].number = job.number
                     THEN [client EXCEPT ![c].pc =
                             IF CheckRequestResult(c, reply) THEN "ok"
                             ELSE "failed"]
                     ELSE client
      /\ job' = NoJob
      /\ api' = IF exit THEN "ended" ELSE "receive"
      /\ UNCHANGED <<server_key, inbox, exit, main, applied>>

(* The loop finds nothing to do and the process is to exit.                *)
RunEnds ==
  /\ main = "runs" /\ api = "receive" /\ exit
  /\ api' = "ended"
  /\ UNCHANGED <<server_key, client, inbox, job, exit, main, applied>>

(* main() sees request_exit, stops the graph and returns: the detached API *)
(* thread goes with it wherever it is.                                     *)
MainExits ==
  /\ main = "runs" /\ exit
  /\ main' = "gone"
  /\ UNCHANGED <<server_key, client, inbox, api, job, exit, applied>>

(* The handler of SIGINT and the like.                                     *)
Signal ==
  /\ MaySignal /\ main = "runs" /\ ~ exit
  /\ exit' = TRUE
  /\ UNCHANGED <<server_key, client, inbox, api, job, main, applied>>

ClientStep ==
  \E c \in Client : ClientTimeout(c)
                      \/ \E env \in Requests[c] : ClientSend(c, env)
ApiStep ==
  \/ LoopReceive \/ \E o \in {"ok", "nok"} : Dispatch(o)
  \/ DispatchThrows \/ LoopSend \/ RunEnds

Next == ClientStep \/ ApiStep \/ Signal \/ MainExits

Spec == Init /\ [][Next]_vars

(* The API thread and the main thread keep running.                        *)
FairSpec == Spec /\ WF_vars(ApiStep) /\ WF_vars(MainExits)
-----------------------------------------------------------------------------
(* The part of a request that counts: what it has encrypted, unless the    *)
(* server cannot decrypt anything.                                         *)
Inner(env) ==
  IF server_key = None \/ env.encrypted = None THEN env ELSE env.encrypted.inner
Ok(ms) == [i \in DOMAIN ms |-> [id |-> ms[i].id, result |-> "ok"]]

(* A client that exits with success has had all messages of its request    *)
(* executed, once each, in their order and with success: the replies of    *)
(* other clients, and of its own earlier requests, are not taken for it.   *)
SuccessMeansApplied ==
  \A c \in Client :
    client[c].pc = "ok" =>
      applied[c][client[c].number] = Ok(Inner(client[c].env).messages)

(* With a key, only what was encrypted with that key is executed: neither  *)
(* clear messages, nor encryption within encryption.                       *)
OnlyEncryptedApplied ==
  [][server_key # None =>
       \A c \in Client : applied'[c] # applied[c] =>
         /\ job.sealed
         /\ client[c].number = job.number =>
              /\ client[c].env.encrypted # None
              /\ client[c].env.encrypted.key = server_key
              /\ client[c].env.encrypted.inner.encrypted = None]_vars

(* Whatever happens to clients and handlers, a message is never executed   *)
(* twice for one request: what was executed is a beginning of the request. *)
AppliedOnce ==
  \A c \in Client :
    LET k == client[c].number
    IN  k > 0 =>
          LET ms == Inner(client[c].env).messages
          IN  /\ Len(applied[c][k]) <= Len(ms)
              /\ \A i \in DOMAIN applied[c][k] : applied[c][k][i].id = ms[i].id

(* A client that waits gets its answer, unless the server is told to quit. *)
ClientsAnswered ==
  \A c \in Client : (client[c].pc = "waits") ~> (client[c].pc # "waits" \/ exit)
-----------------------------------------------------------------------------
(* The inductive invariant of the proofs, in parts.                        *)

Result == [id : Id \cup {None}, result : {"ok", "nok", "VERSION_NOT_MANAGED"}]
Envelopes == {None} \cup UNION {Requests[c] : c \in Client}

RequestsTypes ==
  /\ client \in [Client -> [pc : {"idle", "waits", "ok", "failed"},
                            env : Envelopes, number : Nat]]
  /\ inbox \in Seq([from : Client, number : Nat, env : Envelopes])
  /\ api \in {"receive", "dispatch", "ended"}
  /\ job \in [from : Client \cup {None}, number : Nat, todo : Seq(Message),
              reps : Seq(Result), sealed : BOOLEAN, reply : Errors \cup {None}]
  /\ DOMAIN applied = Client /\ applied = [c \in Client |-> applied[c]]
  /\ \A c \in Client : applied[c] \in [1..MaxSends[c] -> Seq(Result)]

(* A client's requests are numbered; nothing has been done for the next.   *)
NumbersInv ==
  \A c \in Client :
    /\ client[c].number <= MaxSends[c]
    /\ client[c].number > 0 => client[c].env \in Requests[c]
    /\ client[c].pc # "idle" => client[c].number > 0
    /\ \A k \in 1..MaxSends[c] : client[c].number < k => applied[c][k] = <<>>

(* A request waits once, with nothing done for it and no verdict on it.    *)
InboxInv ==
  \A i \in DOMAIN inbox :
    LET r == inbox[i]
        c == r.from
    IN  /\ r.number \in 1..client[c].number
        /\ r.number = client[c].number => r.env = client[c].env /\ client[c].pc # "ok"
        /\ r.env \in Requests[c]
        /\ applied[c][r.number] = <<>>
        /\ \A j \in DOMAIN inbox :
             inbox[j].from = c /\ inbox[j].number = r.number => i = j

(* The request in progress: what is done and what is to do make up the     *)
(* request, and the answers so far are the outcomes of what is done.       *)
InProgress(c) ==
  LET ms == Inner(client[c].env).messages
      done == applied[c][job.number]
  IN  /\ client[c].pc # "ok"
      /\ job.reply = None =>
           /\ Len(job.reps) = Len(done) /\ Len(done) + Len(job.todo) = Len(ms)
           /\ \A i \in 1..Len(done) : job.reps[i].result = done[i].result
           /\ \A i \in 1..Len(job.todo) : job.todo[i] = ms[Len(done) + i]
      /\ server_key # None /\ job.todo # <<>> =>
           LET enc == client[c].env.encrypted
           IN  enc # None /\ enc.key = server_key /\ enc.inner.encrypted = None

JobInv ==
  api = "dispatch" =>
    /\ job.from \in Client /\ job.number \in 1..client[job.from].number
    /\ \A i \in DOMAIN inbox :
         ~ (inbox[i].from = job.from /\ inbox[i].number = job.number)
    /\ job.reply # None => job.todo = <<>>
    /\ server_key # None /\ job.todo # <<>> => job.sealed
    /\ job.number = client[job.from].number => InProgress(job.from)

RequestsInv ==
  /\ RequestsTypes /\ NumbersInv /\ InboxInv /\ JobInv
  /\ AppliedOnce /\ SuccessMeansApplied
=============================================================================
