---------------------------- MODULE Enforcement ----------------------------
(***************************************************************************)
(* What the security groups promise, without rule tables, bricks, a queue  *)
(* or a worklist: every NIC has a policy, the set of incoming sources its  *)
(* groups admit, and enforces some set of sources.  Requests are served    *)
(* one at a time.  While one is served a NIC enforces its previous policy, *)
(* its new one, or lets nothing in; once it is answered the only change    *)
(* left to a NIC is to take up the new policy.  A NIC whose rules were     *)
(* refused is outside the promise until it is rewritten as a whole.        *)
(***************************************************************************)
CONSTANTS
  Nic,      \* NICs
  Source    \* what a policy may admit

VARIABLES
  serving,  \* a request is being served
  policy,   \* policy[n]: what the model asks of n
  previous, \* previous[n]: what it asked of n before the request
  enforced, \* enforced[n]: what n lets in
  due,      \* NICs that are going to take up what was last asked of them
  refused   \* NICs whose rules could not be installed

vars == <<serving, policy, previous, enforced, due, refused>>

Closed == [n \in Nic |-> {}]

TypeOK ==
  /\ serving \in BOOLEAN
  /\ policy \in [Nic -> SUBSET Source]
  /\ previous \in [Nic -> SUBSET Source]
  /\ enforced \in [Nic -> SUBSET Source]
  /\ due \subseteq Nic
  /\ refused \subseteq Nic

Init ==
  /\ serving = FALSE
  /\ policy = Closed /\ previous = Closed /\ enforced = Closed
  /\ due = {} /\ refused = {}

(* A request changes what is asked of any number of NICs.                  *)
Begin ==
  /\ ~ serving /\ serving' = TRUE
  /\ policy' \in [Nic -> SUBSET Source]
  /\ UNCHANGED <<previous, enforced, due, refused>>

(* The request attaches or detaches a NIC that lets nothing in.            *)
Attach(n) ==
  /\ serving /\ enforced[n] = {}
  /\ policy' \in [Nic -> SUBSET Source]
  /\ \A m \in Nic \ {n} : policy'[m] = policy[m]
  /\ refused' = refused \ {n}
  /\ UNCHANGED <<serving, previous, enforced, due>>

(* The rules of n are ready.                                               *)
Prepare(n) ==
  /\ serving
  /\ due' = due \cup {n}
  /\ refused' \in {refused, refused \ {n}}
  /\ UNCHANGED <<serving, policy, previous, enforced>>

Refuse(n) ==
  /\ refused' = refused \cup {n}
  /\ due' \in {due, due \ {n}}
  /\ UNCHANGED <<serving, policy, previous, enforced>>

(* n stops letting anything in: it is being made or removed.               *)
Close(n) ==
  /\ serving
  /\ enforced' = [enforced EXCEPT ![n] = {}]
  /\ UNCHANGED <<serving, policy, previous, due, refused>>

(* What n may come to enforce.                                             *)
Allowed(n) ==
  IF n \in refused THEN SUBSET Source
  ELSE IF serving THEN {{}, previous[n], policy[n]}
  ELSE {policy[n]}

TakeUp(n) ==
  /\ n \in due /\ due' \in {due, due \ {n}}
  /\ enforced'[n] \in Allowed(n)
  /\ enforced' \in [Nic -> SUBSET Source]
  /\ \A m \in Nic \ {n} : enforced'[m] = enforced[m]
  /\ UNCHANGED <<serving, policy, previous, refused>>

(* The answer: every NIC enforces what is asked of it or is about to.      *)
Kept(n) == enforced[n] = policy[n] \/ n \in due \/ n \in refused
Answer ==
  /\ serving /\ serving' = FALSE
  /\ \A n \in Nic : Kept(n)
  /\ previous' = policy
  /\ UNCHANGED <<policy, enforced, due, refused>>

(* The answer to the removal of n.                                         *)
Detach(n) ==
  /\ serving /\ serving' = FALSE
  /\ enforced[n] = {}
  /\ \A m \in Nic \ {n} : Kept(m)
  /\ policy' = [policy EXCEPT ![n] = {}] /\ previous' = policy'
  /\ refused' = refused \ {n}
  /\ UNCHANGED <<enforced, due>>

Next ==
  \/ Begin \/ Answer
  \/ \E n \in Nic : \/ Attach(n) \/ Prepare(n) \/ Refuse(n) \/ Close(n)
                    \/ TakeUp(n) \/ Detach(n)

Spec == Init /\ [][Next]_vars
-----------------------------------------------------------------------------
(* What follows for whoever relies on it: between two requests a NIC that  *)
(* has nothing left to take up, and was not refused its rules, enforces    *)
(* exactly its policy.                                                     *)
EnforcedAtRest ==
  ~ serving => \A n \in Nic : Kept(n)
=============================================================================
