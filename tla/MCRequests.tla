----------------------------- MODULE MCRequests -----------------------------
(* Small instances of Requests for TLC.                                    *)
EXTENDS Requests

CONSTANTS c1, c2, key, other, m1, m2

Msg(id, kind) == [id |-> id, kind |-> kind]
One == <<Msg(m1, "v0")>>
Two == <<Msg(m1, "v0"), Msg(m2, "v0")>>
Old == <<Msg(m1, "v0"), Msg(m2, "other")>>
Quit == <<Msg(m1, "quit")>>

(* c1 has the key, c2 another one.                                         *)
TwoKeys == [c \in Client |-> IF c = c1 THEN key ELSE other]

(* c1 may send again after its first request, or a time-out.               *)
Sends == [c \in Client |-> IF c = c1 THEN 2 ELSE 1]

(* Requests of the client program, and of others that do not follow it.    *)
Mixed ==
  [c \in Client |->
     IF c = c1
     THEN {Enc(key, Clear(Two)), Clear(One), Enc(None, Clear(One)),
           Enc(key, Enc(key, Clear(One))), Enc(key, Clear(<<>>)),
           Enc(key, Garbage), Garbage, Clear(Old), Clear(<<>>),
           [Enc(key, Clear(One)) EXCEPT !.messages = Two]}
     ELSE {Enc(other, Clear(Two)), Enc(key, Clear(Two)), Clear(Two), Clear(Quit)}]
=============================================================================
