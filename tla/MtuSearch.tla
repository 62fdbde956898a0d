----------------------------- MODULE MtuSearch -----------------------------
(***************************************************************************)
(* Graph::SetConfigMtu (api/server/graph.cc): the MTU of the physical NIC  *)
(* is set from the option nic-mtu, which is empty, a number, or "max".     *)
(* For "max" the largest MTU that the NIC accepts is searched by           *)
(* bisection.  The NIC is any device that accepts exactly the MTUs from 1  *)
(* to a limit of its own; a refused MTU leaves the current one in place.   *)
(***************************************************************************)
EXTENDS Integers

CONSTANTS
  Limits,      \* the largest MTUs that the NICs at hand accept
  Numbers,     \* numbers given as nic-mtu
  DefaultMtu   \* the MTU a NIC has before it is configured

ASSUME MtuAssumption ==
  /\ Limits \subseteq Nat /\ Numbers \subseteq Int
  /\ DefaultMtu \in Nat

VARIABLES
  limit,   \* the largest MTU this NIC accepts
  arg,     \* app::config.nic_mtu: a "number", "max", "empty" or "bad"
  number,  \* the value of arg when it is a number
  min,     \* the local variables of the search
  max,
  mtu,     \* the MTU of the NIC
  pc

vars == <<limit, arg, number, min, max, mtu, pc>>

MtuLow == 1400
MtuHigh == 65536

(* pg_nic_set_mtu.                                                         *)
Accepts(m) == 0 < m /\ m <= limit
SetMtu(m) == mtu' = IF Accepts(m) THEN m ELSE mtu

Init ==
  /\ limit \in Limits
  /\ arg \in {"empty", "max", "bad", "number"} /\ number \in Numbers
  /\ min = MtuLow /\ max = MtuHigh
  /\ mtu = DefaultMtu
  /\ pc = "start"

(* No search: nothing to set, a number that is set if it is positive, or   *)
(* an argument std::stoi refuses.                                          *)
SetNumber ==
  /\ pc = "start" /\ arg # "max"
  /\ IF arg = "number" /\ number > 0
     THEN SetMtu(number)
     ELSE UNCHANGED mtu
  /\ pc' = "done"
  /\ UNCHANGED <<limit, arg, number, min, max>>

StartSearch ==
  /\ pc = "start" /\ arg = "max"
  /\ pc' = "search"
  /\ UNCHANGED <<limit, arg, number, min, max, mtu>>

(* One round of the loop.                                                  *)
Probe ==
  LET m == (min + max) \div 2
  IN  /\ pc = "search" /\ min # max - 1
      /\ SetMtu(m)
      /\ IF Accepts(m)
         THEN min' = m /\ UNCHANGED max
         ELSE max' = m /\ UNCHANGED min
      /\ UNCHANGED <<limit, arg, number, pc>>

(* Mutant of Settle: the upper bound is set.                               *)
SettleHigh ==
  /\ pc = "search" /\ min = max - 1
  /\ SetMtu(max)
  /\ pc' = "done"
  /\ UNCHANGED <<limit, arg, number, min, max>>

(* The loop ends: the best MTU is set once more.                           *)
Settle ==
  /\ pc = "search" /\ min = max - 1
  /\ SetMtu(min)
  /\ pc' = "done"
  /\ UNCHANGED <<limit, arg, number, min, max>>

Done == pc = "done" /\ UNCHANGED vars

Next == SetNumber \/ StartSearch \/ Probe \/ Settle \/ Done

Spec == Init /\ [][Next]_vars
-----------------------------------------------------------------------------
TypeOK ==
  /\ limit \in Limits
  /\ arg \in {"empty", "max", "bad", "number"} /\ number \in Int
  /\ min \in Nat /\ MtuLow <= min
  /\ max \in Nat /\ max <= MtuHigh
  /\ mtu \in Nat
  /\ pc \in {"start", "search", "done"}

(* What the bisection keeps: min is accepted unless it is the bound it     *)
(* started from, max is refused unless it is, and the NIC's MTU is the     *)
(* last one it accepted.                                                   *)
SearchInv ==
  /\ min < max
  /\ min = MtuLow \/ Accepts(min)
  /\ max = MtuHigh \/ ~ Accepts(max)
  /\ arg = "max" /\ limit < MtuLow => mtu = DefaultMtu
  /\ pc = "done" /\ arg = "max" =>
       min = max - 1 /\ (Accepts(min) => mtu = min)

(* The NIC ends up with the largest MTU it accepts, as the option promises *)
(* for "max", within the 16 bits an MTU has; a NIC that accepts nothing    *)
(* from MtuLow up keeps the MTU it had.                                    *)
FindsMaximum ==
  pc = "done" /\ arg = "max" =>
    /\ limit >= MtuHigh => mtu = MtuHigh - 1
    /\ MtuLow <= limit /\ limit < MtuHigh => mtu = limit
    /\ limit < MtuLow => mtu = DefaultMtu
=============================================================================
