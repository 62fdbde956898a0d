-------------------------- MODULE LifecycleProofs --------------------------
(***************************************************************************)
(* Proofs about Lifecycle, for any NICs, options, files and NIC limits.    *)
(***************************************************************************)
EXTENDS Lifecycle, SequenceTheorems, TLAPS

-----------------------------------------------------------------------------
(* The bisection of Graph::SetConfigMtu is right for every NIC limit.      *)

(* The inductive invariant: types and the invariant of the bisection.      *)
MtuInv == TypeOK /\ SearchInv

(* The middle of an interval with at least one number inside is inside.    *)
LEMMA MiddleInside ==
  ASSUME NEW a \in Int, NEW b \in Int, a < b, a # b - 1
  PROVE  /\ (a + b) \div 2 \in Int
         /\ a < (a + b) \div 2
         /\ (a + b) \div 2 < b
  BY SMT

(* The search invariant holds at the start.                                *)
LEMMA MtuInitInv == Init => MtuInv
  BY MtuAssumption
  DEF Init, MtuInv, TypeOK, SearchInv, MtuLow, MtuHigh, Accepts

(* A probe keeps the invariant: the middle lies strictly between min and   *)
(* max, and takes the place of the one its answer agrees with.             *)
LEMMA MtuProbeInv == MtuInv /\ Probe => MtuInv'
  <1> SUFFICES ASSUME MtuInv, Probe PROVE MtuInv'
    OBVIOUS
  <1> DEFINE m == (min + max) \div 2
  <1>0. limit' = limit /\ min # max - 1
    BY DEF Probe
  <1>1. /\ limit \in Nat
        /\ min \in Int /\ max \in Int /\ min < max
        /\ MtuLow <= min /\ max <= MtuHigh
    BY MtuAssumption DEF MtuInv, TypeOK, SearchInv, MtuLow, MtuHigh
  <1>2. m \in Int /\ min < m /\ m < max
    BY <1>0, <1>1, MiddleInside
  <1>3. /\ arg' = arg /\ number' = number /\ pc' = pc /\ pc = "search"
        /\ IF Accepts(m) THEN min' = m /\ max' = max /\ mtu' = m
                         ELSE min' = min /\ max' = m /\ mtu' = mtu
    BY DEF Probe, SetMtu
  <1> HIDE DEF m
  <1>4. m \in Nat /\ MtuLow < m /\ m < MtuHigh
    BY <1>1, <1>2 DEF MtuLow, MtuHigh
  <1>5. TypeOK'
    BY <1>0, <1>1, <1>2, <1>3, <1>4 DEF MtuInv, TypeOK, MtuLow, MtuHigh
  <1>6. Accepts(m) <=> m <= limit
    BY <1>1, <1>4 DEF Accepts, MtuLow
  <1>7. SearchInv'
    <2>1. CASE Accepts(m)
      BY <1>0, <1>1, <1>2, <1>3, <1>4, <1>6, <2>1
      DEF MtuInv, SearchInv, Accepts, MtuLow, MtuHigh
    <2>2. CASE ~ Accepts(m)
      BY <1>0, <1>1, <1>2, <1>3, <1>4, <1>6, <2>2
      DEF MtuInv, SearchInv, Accepts, MtuLow, MtuHigh
    <2>3. QED
      BY <2>1, <2>2
  <1>8. QED
    BY <1>5, <1>7 DEF MtuInv

(* Every step keeps the search invariant: the low end is accepted, or is   *)
(* the first bound, and the high end is refused, or is the last.           *)
LEMMA MtuNextInv == MtuInv /\ [Next]_vars => MtuInv'
  <1> SUFFICES ASSUME MtuInv, [Next]_vars PROVE MtuInv'
    OBVIOUS
  <1>1. /\ limit \in Nat /\ DefaultMtu \in Nat
        /\ min \in Int /\ max \in Int /\ mtu \in Nat /\ number \in Int
    BY MtuAssumption DEF MtuInv, TypeOK, MtuLow, MtuHigh
  <1>2. CASE SetNumber
    <2>1. mtu' \in Nat
      BY <1>1, <1>2 DEF SetNumber, SetMtu, Accepts
    <2>2. QED
      BY <1>1, <1>2, <2>1 DEF MtuInv, TypeOK, SearchInv, SetNumber, Accepts
  <1>3. CASE StartSearch
    BY <1>3 DEF MtuInv, TypeOK, SearchInv, StartSearch, Accepts
  <1>4. CASE Probe
    BY <1>4, MtuProbeInv
  <1>5. CASE Settle
    <2>1. /\ UNCHANGED <<limit, arg, number, min, max>> /\ pc' = "done"
          /\ min = max - 1
          /\ mtu' = IF Accepts(min) THEN min ELSE mtu
      BY <1>5 DEF Settle, SetMtu
    <2>2. Accepts(min) <=> min <= limit
      BY <1>1 DEF MtuInv, TypeOK, Accepts, MtuLow
    <2>3. TypeOK'
      BY <1>1, <2>1 DEF MtuInv, TypeOK, MtuLow
    <2>4. SearchInv'
      BY <1>1, <2>1, <2>2 DEF MtuInv, TypeOK, SearchInv, Accepts, MtuLow
    <2>5. QED
      BY <2>3, <2>4 DEF MtuInv
  <1>6. CASE Done \/ UNCHANGED vars
    BY <1>6 DEF MtuInv, TypeOK, SearchInv, Done, vars, Accepts
  <1>7. QED
    BY <1>2, <1>3, <1>4, <1>5, <1>6 DEF Next

(* Whatever limit the NIC has, the search ends with the largest MTU it     *)
(* accepts between 1400 and 65535 (graph.cc, SetConfigMtu).                *)
THEOREM MtuFindsMaximum == Spec => []FindsMaximum
  <1>1. MtuInv => FindsMaximum
    <2> SUFFICES ASSUME MtuInv, pc = "done", arg = "max"
                 PROVE  /\ limit >= MtuHigh => mtu = MtuHigh - 1
                        /\ MtuLow <= limit /\ limit < MtuHigh => mtu = limit
                        /\ limit < MtuLow => mtu = DefaultMtu
      BY DEF FindsMaximum
    <2>1. /\ limit \in Nat /\ min \in Int /\ max \in Int
          /\ 1400 <= min /\ max <= 65536
      BY MtuAssumption DEF MtuInv, TypeOK, MtuLow, MtuHigh
    <2>2. /\ min = max - 1
          /\ min = 1400 \/ min <= limit
          /\ max = 65536 \/ limit < max
          /\ min <= limit => mtu = min
          /\ limit < 1400 => mtu = DefaultMtu
      BY <2>1 DEF MtuInv, SearchInv, Accepts, MtuLow, MtuHigh
    <2>3. QED
      BY <2>1, <2>2 DEF MtuLow, MtuHigh
  <1>2. QED
    BY <1>1, MtuInitInv, MtuNextInv, PTL DEF Spec

-----------------------------------------------------------------------------
(* The rest is about Lifecycle.                                            *)

USE DEF lvars, config_vars, graph_vars, server_vars, vars
-----------------------------------------------------------------------------
(* Sequences.                                                              *)

(* Where things are in a queue after calls were pushed.                    *)
LEMMA Joined ==
  ASSUME NEW S, NEW q \in Seq(S), NEW c \in Seq(S)
  PROVE  /\ Len(q) \in Nat /\ DOMAIN q = 1..Len(q)
         /\ Len(q \o c) = Len(q) + Len(c)
         /\ DOMAIN (q \o c) = 1..(Len(q) + Len(c))
         /\ \A i \in 1..(Len(q) + Len(c)) :
              (q \o c)[i] = IF i <= Len(q) THEN q[i] ELSE c[i - Len(q)]
<1>1. /\ q \o c \in Seq(S) /\ Len(q \o c) = Len(q) + Len(c)
      /\ \A i \in 1..(Len(q) + Len(c)) :
           (q \o c)[i] = IF i <= Len(q) THEN q[i] ELSE c[i - Len(q)]
  BY ConcatProperties
<1> QED BY <1>1, LenProperties

(* What a queue holds after calls were pushed.                             *)
LEMMA Pushed ==
  ASSUME NEW S, NEW q \in Seq(S), NEW c \in Seq(S)
  PROVE  /\ q \o c \in Seq(S)
         /\ q # <<>> => q \o c # <<>> /\ Head(q \o c) = Head(q)
         /\ \A i \in DOMAIN q : i \in DOMAIN (q \o c) /\ (q \o c)[i] = q[i]
         /\ \A i \in DOMAIN (q \o c) :
              \/ i \in DOMAIN q /\ (q \o c)[i] = q[i]
              \/ \E j \in DOMAIN c : (q \o c)[i] = c[j]
         /\ \A j \in DOMAIN c : \E i \in DOMAIN (q \o c) : (q \o c)[i] = c[j]
<1>1. /\ q \o c \in Seq(S) /\ Len(q \o c) = Len(q) + Len(c)
      /\ \A i \in 1..(Len(q) + Len(c)) :
           (q \o c)[i] = IF i <= Len(q) THEN q[i] ELSE c[i - Len(q)]
  BY ConcatProperties
<1>2. /\ Len(q) \in Nat /\ DOMAIN q = 1..Len(q)
      /\ Len(c) \in Nat /\ DOMAIN c = 1..Len(c)
      /\ DOMAIN (q \o c) = 1..(Len(q) + Len(c))
  BY <1>1, LenProperties
<1>3. q # <<>> => q \o c # <<>> /\ Head(q \o c) = Head(q)
  <2> SUFFICES ASSUME q # <<>> PROVE q \o c # <<>> /\ Head(q \o c) = Head(q)
    OBVIOUS
  <2>1. Len(q) > 0
    BY EmptySeq, <1>2
  <2>2. q \o c # <<>>
    BY <1>1, <1>2, <2>1, EmptySeq
  <2> QED BY <1>1, <1>2, <2>1, <2>2
<1>4. ASSUME NEW i \in DOMAIN q
      PROVE  i \in DOMAIN (q \o c) /\ (q \o c)[i] = q[i]
  BY <1>1, <1>2
<1>5. ASSUME NEW i \in DOMAIN (q \o c)
      PROVE  \/ i \in DOMAIN q /\ (q \o c)[i] = q[i]
             \/ \E j \in DOMAIN c : (q \o c)[i] = c[j]
  <2>1. CASE i <= Len(q) BY <1>1, <1>2, <2>1
  <2>2. CASE ~ (i <= Len(q))
    <3>1. i - Len(q) \in DOMAIN c /\ (q \o c)[i] = c[i - Len(q)]
      BY <1>1, <1>2, <2>2
    <3> QED BY <3>1
  <2> QED BY <2>1, <2>2
<1>6. ASSUME NEW j \in DOMAIN c
      PROVE  \E i \in DOMAIN (q \o c) : (q \o c)[i] = c[j]
  <2>1. Len(q) + j \in DOMAIN (q \o c) /\ (q \o c)[Len(q) + j] = c[j]
    BY <1>1, <1>2
  <2> QED BY <2>1
<1> QED BY <1>1, <1>3, <1>4, <1>5, <1>6

(* What a queue holds after its first call was taken.                      *)
LEMMA Taken ==
  ASSUME NEW S, NEW q \in Seq(S), q # <<>>
  PROVE  /\ Tail(q) \in Seq(S) /\ Head(q) \in S
         /\ \A i \in DOMAIN Tail(q) : \E j \in DOMAIN q : Tail(q)[i] = q[j]
         /\ \E i \in DOMAIN q : Head(q) = q[i]
         /\ \A j \in DOMAIN q :
              q[j] = Head(q) \/ \E i \in DOMAIN Tail(q) : Tail(q)[i] = q[j]
<1>1. /\ Len(q) \in Nat /\ Len(q) > 0 /\ DOMAIN q = 1..Len(q)
      /\ \A i \in 1..Len(q) : q[i] \in S
  BY EmptySeq, LenProperties, ElementOfSeq
<1>2. /\ Tail(q) \in Seq(S) /\ Head(q) = q[1] /\ DOMAIN Tail(q) = 1..(Len(q) - 1)
      /\ \A i \in 1..(Len(q) - 1) : Tail(q)[i] = q[i + 1]
  BY <1>1
<1>3. ASSUME NEW i \in DOMAIN Tail(q) PROVE \E j \in DOMAIN q : Tail(q)[i] = q[j]
  <2>1. i + 1 \in DOMAIN q /\ Tail(q)[i] = q[i + 1] BY <1>1, <1>2
  <2> QED BY <2>1
<1>4. ASSUME NEW j \in DOMAIN q, q[j] # Head(q)
      PROVE  \E i \in DOMAIN Tail(q) : Tail(q)[i] = q[j]
  <2>1. j - 1 \in DOMAIN Tail(q) /\ Tail(q)[j - 1] = q[j] BY <1>1, <1>2, <1>4
  <2> QED BY <2>1
<1> QED BY <1>1, <1>2, <1>3, <1>4

(* What is pushed at the different places is a sequence of calls.          *)
LEMMA CallTypes ==
  /\ <<Call("VHOST_START", None)>> \in Seq(Calls)
  /\ <<Call("VHOST_STOP", None), Call("EXIT", None)>> \in Seq(Calls)
  /\ \A n \in NicId :
       /\ <<Call("BRICK_DESTROY", n), Call("NOTHING", None)>> \in Seq(Calls)
       /\ <<Call("FW_NEW", n), Call("NOTHING", None)>> \in Seq(Calls)
       /\ <<Call("FW_RELOAD", n)>> \in Seq(Calls)
BY DEF Call, Calls

-----------------------------------------------------------------------------
(* Types.                                                                  *)

LEMMA TypesInit == LifecycleInit => LifecycleTypes
<1> SUFFICES ASSUME LifecycleInit PROVE LifecycleTypes
  OBVIOUS
<1>1. api \in ApiPlace \X (NicId \cup {None})
  BY DEF LifecycleInit, ApiPlace
<1>2. queue \in Seq(Calls)
  BY DEF LifecycleInit
<1>3. main \in Booting
  BY DEF LifecycleInit, Booting, Early
<1> QED BY <1>1, <1>2, <1>3 DEF LifecycleInit, LifecycleTypes

(* Every step keeps the types.                                             *)
LEMMA TypesStep == LifecycleTypes /\ [LifecycleNext]_lvars => LifecycleTypes'
<1> SUFFICES ASSUME LifecycleTypes, [LifecycleNext]_lvars PROVE LifecycleTypes'
  OBVIOUS
<1> DEFINE Place == ApiPlace \X (NicId \cup {None})
<1> USE DEF LifecycleTypes, Early, Booting, Stopping, Over
<1>0. \A w \in ApiPlace, n \in NicId \cup {None} : <<w, n>> \in Place
  OBVIOUS
<1> HIDE DEF Place
<1>a. api \in Place
  BY DEF Place
<1>b. ASSUME NEW calls \in Seq(Calls), Push(calls) PROVE queue' \in Seq(Calls)
  BY <1>b, Pushed DEF Push
<1>1. CASE ParseCmd \/ LoadConfigFile \/ LoadKey \/ MissingMandatory
  BY <1>1 DEF ParseCmd, LoadConfigFile, LoadKey, MissingMandatory
<1>2. CASE SetConfigMtu \/ Leave
  BY <1>2 DEF SetConfigMtu, Leave
<1>3. CASE Serve
  <2>1. api' \in Place
    BY <1>0, <1>a, <1>3 DEF Serve, ApiPlace
  <2> QED BY <1>3, <2>1 DEF Serve, Place
<1>4. CASE StartPg
  <2>1. queue' \in Seq(Calls)
    BY <1>b, <1>4, CallTypes DEF StartPg
  <2> QED BY <1>4, <2>1 DEF StartPg, StartFails
<1>5. CASE StartBricks
  BY <1>5 DEF StartBricks, StartFails
<1>6. CASE StopBegin \/ StopNicDone \/ PgStop
  BY <1>6 DEF StopBegin, StopNicDone, PgStop
<1>6a. CASE Join
  BY <1>6a DEF Join
<1>7. CASE StopPoller
  <2>1. queue' \in Seq(Calls)
    BY <1>b, <1>7, CallTypes DEF StopPoller
  <2> QED BY <1>7, <2>1 DEF StopPoller
<1>8. ASSUME NEW n \in NicId, StopNic(n) PROVE LifecycleTypes'
  <2>1. queue' \in Seq(Calls)
    BY <1>b, <1>8, CallTypes DEF StopNic
  <2> QED BY <1>8, <2>1 DEF StopNic
<1>9. CASE ApiIdle \/ AppQuit \/ ApiCheck
  <2>1. api' \in Place
    BY <1>0, <1>9 DEF ApiIdle, AppQuit, ApiCheck, ApiGoes, ApiPlace
  <2> QED BY <1>9, <2>1 DEF ApiIdle, AppQuit, ApiCheck, ApiGoes, Place
<1>10. ASSUME NEW n \in NicId,
              ActionNicAdd(n) \/ ActionNicDel(n) \/ NicDelDone(n) \/ NicAddDone(n)
       PROVE  LifecycleTypes'
  <2> USE DEF ActionNicAdd, ActionNicDel, NicDelDone, NicAddDone
  <2>1. queue' \in Seq(Calls)
    BY <1>b, <1>10, CallTypes
  <2>2. api' \in Place
    BY <1>0, <1>10 DEF ApiGoes, ApiPlace
  <2>3. branches' \subseteq NicId /\ nics' \subseteq NicId
    BY <1>10
  <2> QED
    BY <1>10, <2>1, <2>2, <2>3 DEF ApiGoes, Place
<1>11. CASE PollerStep
  <2>1. queue' \in Seq(Calls) /\ Head(queue) \in Calls
    BY <1>11, Taken DEF PollerStep
  <2>2. Head(queue)[1] = "FW_NEW" => Head(queue)[2] \in NicId
    BY <2>1 DEF Calls
  <2>3. /\ live' \subseteq NicId /\ poller' \in {"none", "run", "gone"}
        /\ vhost' \in {"none", "started", "refused", "stopped"}
    BY <1>11, <2>2 DEF PollerStep
  <2> QED BY <1>11, <2>1, <2>3 DEF PollerStep
<1>12. CASE SignalHandler
  BY <1>12 DEF SignalHandler
<1>12a. CASE Crash
  BY <1>12a DEF Crash
<1>13. CASE UNCHANGED lvars
  BY <1>13
<1> QED
  BY <1>1, <1>2, <1>3, <1>4, <1>5, <1>6, <1>6a, <1>7, <1>8, <1>9, <1>10, <1>11, <1>12, <1>12a, <1>13
  DEF LifecycleNext, MainStep, ApiStep, Ended
-----------------------------------------------------------------------------
(* Configuration.                                                          *)

LEMMA ConfigInit == LifecycleInit => ConfigInv
BY DEF LifecycleInit, ConfigInv

(* Only main() reads options, in one order.                                *)
LEMMA ConfigStep == ConfigInv /\ [LifecycleNext]_lvars => ConfigInv'
<1> SUFFICES ASSUME ConfigInv, [LifecycleNext]_lvars PROVE ConfigInv'
  OBVIOUS
<1> USE DEF ConfigInv
<1>0. ASSUME UNCHANGED <<cmd, file>> PROVE FromCmd' = FromCmd /\ Chosen' = Chosen
  BY <1>0 DEF FromCmd, Chosen
<1>1. CASE ParseCmd
  BY <1>0, <1>1 DEF ParseCmd
<1>2. CASE LoadConfigFile
  <2>1. file' = file /\ cmd' = cmd /\ main' \in {"key", "exited", "stop"}
    BY <1>2 DEF LoadConfigFile
  <2>2. main' = "key" => config' = Chosen
    <3>1. CASE file = NoFile
      BY <1>2, <3>1 DEF LoadConfigFile, Chosen, FromFile
    <3>2. CASE file # NoFile
      BY <1>2, <3>2 DEF LoadConfigFile, Chosen, FromFile
    <3> QED BY <3>1, <3>2
  <2> QED BY <1>0, <2>1, <2>2
<1>3. CASE LoadKey
  BY <1>0, <1>3 DEF LoadKey
<1>4. ASSUME UNCHANGED config_vars,
             \/ main' = main
             \/ main' \in {"stop", "nics", "nic_del", "join", "pg_stop", "exited", "crashed"}
             \/ /\ main \in {"check", "pg_start", "mtu", "bricks", "server"}
                /\ main' \in {"pg_start", "mtu", "bricks", "server", "loop"}
      PROVE  ConfigInv'
  BY <1>0, <1>4
<1>5. CASE MissingMandatory \/ SetConfigMtu \/ Serve \/ Leave
  BY <1>4, <1>5 DEF MissingMandatory, SetConfigMtu, Serve, Leave
<1>6. CASE StartPg \/ StartBricks
  BY <1>4, <1>6 DEF StartPg, StartBricks, StartFails
<1>7. CASE StopBegin \/ StopNicDone \/ StopPoller \/ Join \/ PgStop
  BY <1>4, <1>7 DEF StopBegin, StopNicDone, StopPoller, Join, PgStop
<1>8. ASSUME NEW n \in NicId, StopNic(n) PROVE ConfigInv'
  BY <1>4, <1>8 DEF StopNic
<1>9. CASE ApiStep \/ PollerStep \/ SignalHandler
  BY <1>4, <1>9
  DEF ApiStep, ApiIdle, AppQuit, ApiCheck, ActionNicAdd, ActionNicDel, NicDelDone,
      NicAddDone, PollerStep, SignalHandler
<1>10. CASE Crash
  BY <1>4, <1>10 DEF Crash
<1>11. CASE UNCHANGED lvars
  BY <1>4, <1>11
<1> QED
  BY <1>1, <1>2, <1>3, <1>5, <1>6, <1>7, <1>8, <1>9, <1>10, <1>11
  DEF LifecycleNext, MainStep, Ended

(* An option is the file's, else the command line's, else the default.     *)
LEMMA ConfigIsOptions == ConfigInv => OptionsApply
<1> SUFFICES ASSUME ConfigInv,
                    main \in {"pg_start", "mtu", "bricks", "server", "loop"}
             PROVE  OptionsApply
  BY DEF OptionsApply
<1>1. config = Chosen /\ config["key"] # "bad"
  BY DEF ConfigInv
<1>2. ASSUME NEW o \in Option,
             FromCmd[o] = OrElse(cmd[o], Default[o])
      PROVE  config[o] = OrElse(Given(o), Default[o])
  <2>1. config[o] = IF file = NoFile THEN FromCmd[o] ELSE OrElse(file[o], FromCmd[o])
    BY <1>1 DEF Chosen, FromCmd
  <2> QED BY <1>2, <2>1 DEF Given, OrElse
<1>3. ASSUME NEW o \in Option, o \notin {"dpdk_port", "nic_mtu"}
      PROVE  FromCmd[o] = OrElse(cmd[o], Default[o])
  BY <1>3 DEF FromCmd, Option
<1>4. ASSUME cmd["dpdk_port"] = None, NEW o \in {"dpdk_port", "nic_mtu"}
      PROVE  FromCmd[o] = OrElse(cmd[o], Default[o])
  BY <1>4 DEF FromCmd, Option, OrElse
<1>5. Default["key"] = None
  BY DEF Default, Option
<1>6. Given("key") # "bad"
  <2>1. config["key"] = OrElse(Given("key"), None)
    BY <1>2, <1>3, <1>5 DEF Option
  <2> QED BY <1>1, <2>1 DEF OrElse
<1> QED BY <1>2, <1>3, <1>4, <1>6 DEF OptionsApply, Option
-----------------------------------------------------------------------------
(* The MTU.                                                                *)

LEMMA BootMtuInit == LifecycleInit => BootMtuInv
BY MtuAssumption
DEF LifecycleInit, Init, BootMtuInv, SearchInv, Accepts, MtuLow, MtuHigh, Early

(* The search keeps its invariant, whatever text and number were given.    *)
LEMMA BootSearchStep ==
  ASSUME BootMtuInv, SetNumber \/ StartSearch \/ Probe \/ Settle,
         main \notin Early, main' = main
  PROVE  BootMtuInv'
<1>1. /\ limit \in Nat /\ limit' = limit /\ limit \in Limits /\ arg' = arg
      /\ min \in Int /\ max \in Int /\ 1400 <= min /\ max <= 65536 /\ min < max
  BY MtuAssumption
  DEF BootMtuInv, SearchInv, MtuLow, MtuHigh, SetNumber, StartSearch, Probe, Settle
<1>2. CASE SetNumber \/ StartSearch
  BY <1>1, <1>2
  DEF BootMtuInv, SearchInv, SetNumber, StartSearch, Accepts, MtuLow, MtuHigh
<1>3. CASE Probe
  <2> DEFINE m == (min + max) \div 2
  <2>1. m \in Int /\ min < m /\ m < max
    BY <1>1, <1>3, MiddleInside DEF Probe
  <2>2. /\ pc' = pc /\ pc = "search"
        /\ IF Accepts(m) THEN min' = m /\ max' = max /\ mtu' = m
                         ELSE min' = min /\ max' = m /\ mtu' = mtu
    BY <1>3 DEF Probe, SetMtu
  <2> HIDE DEF m
  <2>3. Accepts(m) <=> m <= limit
    BY <1>1, <2>1 DEF Accepts
  <2>4. CASE m <= limit
    BY <1>1, <2>1, <2>2, <2>3, <2>4
    DEF BootMtuInv, SearchInv, Accepts, MtuLow, MtuHigh
  <2>5. CASE ~ (m <= limit)
    BY <1>1, <2>1, <2>2, <2>3, <2>5
    DEF BootMtuInv, SearchInv, Accepts, MtuLow, MtuHigh
  <2> QED BY <2>4, <2>5
<1>4. CASE Settle
  <2>1. /\ min' = min /\ max' = max /\ pc' = "done" /\ min = max - 1
        /\ mtu' = IF Accepts(min) THEN min ELSE mtu
    BY <1>4 DEF Settle, SetMtu
  <2>2. Accepts(min) <=> min <= limit
    BY <1>1 DEF Accepts
  <2>3. arg = "max" /\ limit < MtuLow => mtu' = DefaultMtu
    BY <1>1, <2>1, <2>2 DEF BootMtuInv, SearchInv, MtuLow
  <2>4. Accepts(min)' => mtu' = min
    BY <1>1, <2>1 DEF Accepts
  <2>5. /\ (min = MtuLow \/ Accepts(min))'
        /\ (max = MtuHigh \/ ~ Accepts(max))'
    BY <1>1, <2>1 DEF BootMtuInv, SearchInv, Accepts, MtuLow, MtuHigh
  <2>6. (min < max)' /\ (min = max - 1)'
    BY <1>1, <2>1
  <2>7. SearchInv'
    <3>1. (arg = "max" /\ limit < MtuLow => mtu = DefaultMtu)'
      BY <1>1, <2>3 DEF MtuLow
    <3>2. (Accepts(min) => mtu = min)'
      BY <2>1, <2>4 DEF Accepts
    <3> QED BY <2>5, <2>6, <3>1, <3>2 DEF SearchInv
  <2> QED
    BY <1>1, <2>1, <2>7 DEF BootMtuInv, Early
<1> QED BY <1>2, <1>3, <1>4

(* The MTU is only set by the search, after the options are read.          *)
LEMMA BootMtuStep == BootMtuInv /\ [LifecycleNext]_lvars => BootMtuInv'
<1> SUFFICES ASSUME BootMtuInv, [LifecycleNext]_lvars PROVE BootMtuInv'
  OBVIOUS
<1>1. ASSUME UNCHANGED vars, main' \in Early => main \in Early PROVE BootMtuInv'
  BY <1>1 DEF BootMtuInv, SearchInv, Accepts
<1>2. CASE ParseCmd \/ LoadConfigFile \/ MissingMandatory \/ Serve \/ Leave
  BY <1>1, <1>2 DEF ParseCmd, LoadConfigFile, MissingMandatory, Serve, Leave, Early
<1>3. CASE LoadKey
  <2>1. /\ pc = "start" /\ main \in Early
        /\ UNCHANGED <<limit, min, max, mtu, pc>>
    BY <1>3 DEF LoadKey, BootMtuInv, Early
  <2> QED
    BY <2>1 DEF BootMtuInv, SearchInv, Accepts
<1>4. CASE StartPg \/ StartBricks
  BY <1>1, <1>4 DEF StartPg, StartBricks, StartFails, Early
<1>5. CASE SetConfigMtu
  <2>1. CASE SetNumber \/ StartSearch \/ Probe \/ Settle
    <3>1. main' = main \/ UNCHANGED vars
      BY <1>5 DEF SetConfigMtu
    <3>2. main = "mtu" /\ main' \notin Early
      BY <1>5, <3>1 DEF SetConfigMtu, Early
    <3> QED
      BY <1>1, <2>1, <3>1, <3>2, BootSearchStep DEF Early
  <2>2. CASE UNCHANGED vars /\ main' = "bricks"
    BY <1>1, <2>2 DEF Early
  <2> QED BY <1>5, <2>1, <2>2 DEF SetConfigMtu
<1>6. CASE StopBegin \/ StopNicDone \/ StopPoller \/ Join \/ PgStop
  BY <1>1, <1>6 DEF StopBegin, StopNicDone, StopPoller, Join, PgStop, Early
<1>7. ASSUME NEW n \in NicId, StopNic(n) PROVE BootMtuInv'
  BY <1>1, <1>7 DEF StopNic, Early
<1>8. CASE ApiStep \/ PollerStep \/ SignalHandler
  BY <1>1, <1>8
  DEF ApiStep, ApiIdle, AppQuit, ApiCheck, ActionNicAdd, ActionNicDel, NicDelDone,
      NicAddDone, PollerStep, SignalHandler
<1>9. CASE Crash
  BY <1>1, <1>9 DEF Crash, Early
<1>10. CASE UNCHANGED lvars
  BY <1>1, <1>10
<1> QED
  BY <1>2, <1>3, <1>4, <1>5, <1>6, <1>7, <1>8, <1>9, <1>10
  DEF LifecycleNext, MainStep, Ended

(* At the end of the search the MTU is the largest one.                    *)
LEMMA BootMtuMaximum == BootMtuInv => FindsMaximum
<1> SUFFICES ASSUME BootMtuInv, pc = "done", arg = "max"
             PROVE  /\ limit >= MtuHigh => mtu = MtuHigh - 1
                    /\ MtuLow <= limit /\ limit < MtuHigh => mtu = limit
                    /\ limit < MtuLow => mtu = DefaultMtu
  BY DEF FindsMaximum
<1>1. /\ limit \in Nat /\ min \in Int /\ max \in Int
      /\ 1400 <= min /\ max <= 65536
  BY MtuAssumption DEF BootMtuInv, MtuLow, MtuHigh
<1>2. /\ min = max - 1
      /\ min = 1400 \/ min <= limit
      /\ max = 65536 \/ limit < max
      /\ min <= limit => mtu = min
      /\ limit < 1400 => mtu = DefaultMtu
  BY <1>1 DEF BootMtuInv, SearchInv, Accepts, MtuLow, MtuHigh
<1> QED BY <1>1, <1>2 DEF MtuLow, MtuHigh
-----------------------------------------------------------------------------
(* The threads.                                                            *)

LEMMA ThreadsInit == LifecycleInit => ThreadsInv
BY DEF LifecycleInit, ThreadsInv, Early, Booting, Stopping

(* The API thread is left behind when main() is past its loop, and nothing *)
(* brings a thread back.                                                   *)
LEMMA ThreadsStep ==
  LifecycleTypes /\ ThreadsInv /\ [LifecycleNext]_lvars => ThreadsInv'
<1> SUFFICES ASSUME LifecycleTypes, ThreadsInv, [LifecycleNext]_lvars
             PROVE  ThreadsInv'
  OBVIOUS
<1> USE DEF ThreadsInv, Early, Booting, Stopping
<1>1. CASE ParseCmd \/ LoadConfigFile \/ LoadKey \/ MissingMandatory
  BY <1>1 DEF ParseCmd, LoadConfigFile, LoadKey, MissingMandatory
<1>2. CASE StartPg
  BY <1>2 DEF StartPg, StartFails
<1>3. CASE SetConfigMtu
  BY <1>3 DEF SetConfigMtu
<1>4. CASE StartBricks
  BY <1>4 DEF StartBricks, StartFails
<1>5. CASE Serve
  BY <1>5 DEF Serve
<1>6. CASE Leave
  BY <1>6 DEF Leave
<1>7. CASE StopBegin
  BY <1>7 DEF StopBegin
<1>8. CASE StopNicDone \/ StopPoller
  BY <1>8 DEF StopNicDone, StopPoller
<1>9. ASSUME NEW n \in NicId, StopNic(n) PROVE ThreadsInv'
  BY <1>9 DEF StopNic
<1>10. CASE Join
  BY <1>10 DEF Join
<1>11. CASE PgStop
  BY <1>11 DEF PgStop, LifecycleTypes
<1>12. CASE ApiIdle \/ AppQuit \/ ApiCheck
  BY <1>12 DEF ApiIdle, AppQuit, ApiCheck, ApiGoes
<1>13. ASSUME NEW n \in NicId, ActionNicAdd(n) \/ ActionNicDel(n) PROVE ThreadsInv'
  BY <1>13 DEF ActionNicAdd, ActionNicDel, ApiGoes
<1>14. ASSUME NEW n \in NicId, NicDelDone(n) \/ NicAddDone(n) PROVE ThreadsInv'
  BY <1>14 DEF NicDelDone, NicAddDone, ApiGoes
<1>15. CASE PollerStep
  BY <1>15 DEF PollerStep
<1>16. CASE SignalHandler
  BY <1>16 DEF SignalHandler
<1>17. CASE Crash
  BY <1>17 DEF Crash
<1>18. CASE UNCHANGED lvars
  BY <1>18
<1> QED
  BY <1>1, <1>2, <1>3, <1>4, <1>5, <1>6, <1>7, <1>8, <1>9, <1>10, <1>11, <1>12,
     <1>13, <1>14, <1>15, <1>16, <1>17, <1>18
  DEF LifecycleNext, MainStep, ApiStep, Ended
-----------------------------------------------------------------------------
(* The queue.                                                              *)

(* What is queued after a push.                                            *)
LEMMA PushQueued ==
  ASSUME LifecycleTypes, NEW calls \in Seq(Calls), Push(calls)
  PROVE  /\ queue # <<>> => queue' # <<>> /\ Head(queue') = Head(queue)
         /\ \A a : Queued(a)' =>
              Queued(a) \/ \E j \in DOMAIN calls : calls[j][1] = a
<1>1. queue \in Seq(Calls) /\ queue' = queue \o calls
  BY DEF LifecycleTypes, Push
<1>2. /\ queue # <<>> => queue' # <<>> /\ Head(queue') = Head(queue)
      /\ \A i \in DOMAIN queue' :
           \/ i \in DOMAIN queue /\ queue'[i] = queue[i]
           \/ \E j \in DOMAIN calls : queue'[i] = calls[j]
  BY <1>1, Pushed
<1>3. ASSUME NEW a, Queued(a)'
      PROVE  Queued(a) \/ \E j \in DOMAIN calls : calls[j][1] = a
  <2>1. PICK i \in DOMAIN queue' : queue'[i][1] = a
    BY <1>3 DEF Queued
  <2> QED BY <1>2, <2>1 DEF Queued
<1> QED BY <1>2, <1>3

(* What is queued after a push of one call, or of two.                     *)
LEMMA PushOne ==
  ASSUME LifecycleTypes, NEW x, NEW m,
         <<Call(x, m)>> \in Seq(Calls), Push(<<Call(x, m)>>)
  PROVE  /\ queue # <<>> => queue' # <<>> /\ Head(queue') = Head(queue)
         /\ \A a : a # x /\ Queued(a)' => Queued(a)
<1>1. ASSUME NEW j \in DOMAIN <<Call(x, m)>> PROVE <<Call(x, m)>>[j][1] = x
  BY DEF Call
<1> QED BY <1>1, PushQueued

LEMMA PushTwo ==
  ASSUME LifecycleTypes, NEW x, NEW m, NEW y, NEW n,
         <<Call(x, m), Call(y, n)>> \in Seq(Calls), Push(<<Call(x, m), Call(y, n)>>)
  PROVE  /\ queue # <<>> => queue' # <<>> /\ Head(queue') = Head(queue)
         /\ \A a : a \notin {x, y} /\ Queued(a)' => Queued(a)
<1>1. ASSUME NEW j \in DOMAIN <<Call(x, m), Call(y, n)>>
      PROVE  <<Call(x, m), Call(y, n)>>[j][1] \in {x, y}
  BY DEF Call
<1> QED BY <1>1, PushQueued

(* What is queued after the poller took a call.                            *)
LEMMA TakeQueued ==
  ASSUME LifecycleTypes, PollerStep
  PROVE  Queued(Head(queue)[1]) /\ \A a : Queued(a)' => Queued(a)
<1>1. queue \in Seq(Calls) /\ queue # <<>> /\ queue' = Tail(queue)
  BY DEF LifecycleTypes, PollerStep
<1>2. /\ \A i \in DOMAIN queue' : \E j \in DOMAIN queue : queue'[i] = queue[j]
      /\ \E i \in DOMAIN queue : Head(queue) = queue[i]
  BY <1>1, Taken
<1>3. ASSUME NEW a, Queued(a)' PROVE Queued(a)
  <2>1. PICK i \in DOMAIN queue' : queue'[i][1] = a
    BY <1>3 DEF Queued
  <2> QED BY <1>2, <2>1 DEF Queued
<1>4. Queued(Head(queue)[1])
  BY <1>2 DEF Queued
<1> QED BY <1>3, <1>4

LEMMA QueueInit == LifecycleInit => QueueInv
BY DEF LifecycleInit, QueueInv, Queued, Early, Over

(* VHOST_START comes first and VHOST_STOP last; FW_NEW is waited for.      *)
LEMMA QueueStep ==
  LifecycleTypes /\ ThreadsInv /\ QueueInv /\ [LifecycleNext]_lvars => QueueInv'
<1> SUFFICES ASSUME LifecycleTypes, ThreadsInv, QueueInv, [LifecycleNext]_lvars
             PROVE  QueueInv'
  OBVIOUS
<1>0. UNCHANGED queue => \A a : Queued(a)' = Queued(a)
  BY DEF Queued
<1>a. ASSUME queue = <<>>, NEW a PROVE ~ Queued(a)
  BY <1>a DEF Queued
<1>b. ASSUME NEW n \in NicId,
             \/ Push(<<Call("BRICK_DESTROY", n), Call("NOTHING", None)>>)
             \/ Push(<<Call("FW_RELOAD", n)>>)
      PROVE  /\ queue # <<>> => queue' # <<>> /\ Head(queue') = Head(queue)
             /\ Queued("VHOST_STOP")' => Queued("VHOST_STOP")
             /\ Queued("FW_NEW")' => Queued("FW_NEW")
  <2>1. CASE Push(<<Call("BRICK_DESTROY", n), Call("NOTHING", None)>>)
    BY <2>1, PushTwo, CallTypes
  <2>2. CASE Push(<<Call("FW_RELOAD", n)>>)
    BY <2>2, PushOne, CallTypes
  <2> QED BY <1>b, <2>1, <2>2
<1>c. ASSUME NEW n \in NicId, Push(<<Call("FW_NEW", n), Call("NOTHING", None)>>)
      PROVE  /\ queue # <<>> => queue' # <<>> /\ Head(queue') = Head(queue)
             /\ Queued("VHOST_STOP")' => Queued("VHOST_STOP")
  BY <1>c, PushTwo, CallTypes
<1> USE DEF QueueInv, Early, Over
<1>1. CASE ParseCmd \/ LoadConfigFile \/ LoadKey \/ MissingMandatory
  BY <1>0, <1>1
  DEF ParseCmd, LoadConfigFile, LoadKey, MissingMandatory, ThreadsInv, Booting
<1>2. CASE StartPg
  <2>1. ~ started' /\ ~ raced' /\ main' \in {"server", "mtu", "bricks"}
    BY <1>2 DEF StartPg, StartFails, ThreadsInv, Booting, LifecycleTypes
  <2>2. \/ queue' = <<>> /\ main' = "server"
        \/ queue' = <<Call("VHOST_START", None)>>
    <3>1. queue = <<>> BY <1>2 DEF StartPg
    <3> QED BY <1>2, <3>1 DEF StartPg, StartFails, Push
  <2>3. ~ Queued("VHOST_STOP")' /\ ~ Queued("FW_NEW")'
    BY <2>2 DEF Queued, Call
  <2> QED BY <2>1, <2>2, <2>3
<1>3. CASE SetConfigMtu
  BY <1>0, <1>3 DEF SetConfigMtu
<1>4. CASE StartBricks
  <2>1. queue = <<Call("VHOST_START", None)>> /\ queue' = queue
    BY <1>4 DEF StartBricks
  <2>2. queue' # <<>> /\ Head(queue')[1] = "VHOST_START"
    BY <2>1 DEF Call
  <2> QED BY <1>0, <1>4, <2>2 DEF StartBricks, StartFails
<1>5. CASE Serve
  BY <1>0, <1>5 DEF Serve, ThreadsInv, Booting
<1>6. CASE Leave
  BY <1>0, <1>6 DEF Leave, ThreadsInv
<1>7. CASE StopBegin
  BY <1>0, <1>7 DEF StopBegin
<1>8. CASE StopNicDone
  BY <1>0, <1>8 DEF StopNicDone
<1>9. CASE StopPoller
  <2>1. Queued("FW_NEW")' => Queued("FW_NEW")
    BY <1>9, PushTwo, CallTypes DEF StopPoller
  <2> QED BY <1>9, <2>1 DEF StopPoller
<1>10. ASSUME NEW n \in NicId, StopNic(n) PROVE QueueInv'
  <2>1. CASE n \in branches
    BY <1>b, <1>10, <2>1 DEF StopNic
  <2>2. CASE n \notin branches
    BY <1>0, <1>10, <2>2 DEF StopNic
  <2> QED BY <2>1, <2>2
<1>11. CASE Join
  BY <1>11 DEF Join, Queued
<1>12. CASE PgStop
  BY <1>0, <1>12 DEF PgStop
<1>13. CASE ApiIdle \/ AppQuit \/ ApiCheck
  BY <1>0, <1>13 DEF ApiIdle, AppQuit, ApiCheck, ApiGoes
<1>14. ASSUME NEW n \in NicId,
              ActionNicAdd(n) \/ ActionNicDel(n) \/ NicDelDone(n) \/ NicAddDone(n)
       PROVE  QueueInv'
  <2> USE DEF ActionNicAdd, ActionNicDel, NicDelDone, NicAddDone
  <2>1. UNCHANGED <<main, raced, started, vhost>>
    BY <1>14 DEF ApiGoes
  <2>2. main \notin Early \cup {"pg_start", "mtu", "bricks"}
    BY <1>14 DEF ThreadsInv, Booting
  <2>3. api[1] = "fw_new" => queue = <<>>
    BY <1>14
  <2>4. CASE UNCHANGED queue
    BY <1>0, <1>a, <2>1, <2>2, <2>3, <2>4
  <2>5. CASE \/ Push(<<Call("BRICK_DESTROY", n), Call("NOTHING", None)>>)
             \/ Push(<<Call("FW_RELOAD", n)>>)
    BY <1>a, <1>b, <2>1, <2>2, <2>3, <2>5
  <2>6. CASE /\ Push(<<Call("FW_NEW", n), Call("NOTHING", None)>>)
             /\ api' = <<"fw_new", n>>
    BY <1>c, <2>1, <2>2, <2>6
  <2> QED BY <1>14, <2>4, <2>5, <2>6 DEF ApiGoes
<1>15. CASE PollerStep
  <2>1. main \notin Booting
    BY <1>15 DEF PollerStep, ThreadsInv
  <2>2. Head(queue)[1] # "VHOST_START" => vhost' = vhost \/ Head(queue)[1] = "VHOST_STOP"
    BY <1>15 DEF PollerStep
  <2>3. Head(queue)[1] = "VHOST_START" => vhost' \in {"started", "refused"}
    BY <1>15 DEF PollerStep
  <2>4. started /\ main \notin Over => vhost' \in {"started", "refused"}
    BY <1>15, <2>2, <2>3, TakeQueued
  <2> QED BY <1>15, <2>1, <2>4, TakeQueued DEF PollerStep, Booting
<1>16. CASE SignalHandler
  BY <1>0, <1>16 DEF SignalHandler
<1>17. CASE Crash
  BY <1>0, <1>17 DEF Crash
<1>18. CASE UNCHANGED lvars
  BY <1>0, <1>18
<1> QED
  BY <1>1, <1>2, <1>3, <1>4, <1>5, <1>6, <1>7, <1>8, <1>9, <1>10, <1>11, <1>12,
     <1>13, <1>14, <1>15, <1>16, <1>17, <1>18
  DEF LifecycleNext, MainStep, ApiStep, Ended
-----------------------------------------------------------------------------
(* The end of the poller.                                                  *)

LEMMA ExitInit == LifecycleInit => ExitInv /\ StopDropsNoCall
BY DEF LifecycleInit, ExitInv, StopDropsNoCall, Queued

(* Nothing is queued after EXIT, so that the poller leaves an empty queue. *)
LEMMA ExitStep ==
  LifecycleInv /\ [LifecycleNext]_lvars => ExitInv' /\ StopDropsNoCall'
<1> SUFFICES ASSUME LifecycleInv, [LifecycleNext]_lvars
             PROVE  ExitInv' /\ StopDropsNoCall'
  OBVIOUS
<1>0. LifecycleTypes /\ ThreadsInv /\ ExitInv /\ StopDropsNoCall
  BY DEF LifecycleInv
<1>1. ASSUME UNCHANGED <<queue, poller, raced>>, main' \notin Over => main \notin Over
      PROVE  ExitInv' /\ StopDropsNoCall'
  BY <1>0, <1>1 DEF ExitInv, StopDropsNoCall, Queued
<1>2. CASE ParseCmd \/ LoadConfigFile \/ LoadKey \/ MissingMandatory \/ SetConfigMtu \/ Serve
  BY <1>1, <1>2
  DEF ParseCmd, LoadConfigFile, LoadKey, MissingMandatory, SetConfigMtu, Serve, Over
<1>3. CASE StopBegin \/ StopNicDone \/ PgStop
  BY <1>1, <1>3 DEF StopBegin, StopNicDone, PgStop, Over
<1>4. CASE ApiIdle \/ AppQuit \/ ApiCheck \/ SignalHandler \/ Crash \/ UNCHANGED lvars
  BY <1>1, <1>4 DEF ApiIdle, AppQuit, ApiCheck, ApiGoes, SignalHandler, Crash, Over
<1>5. CASE Leave
  BY <1>0, <1>5 DEF Leave, ThreadsInv, ExitInv, StopDropsNoCall, Queued, Over
<1>6. ASSUME ~ Queued("EXIT")', poller' # "gone" PROVE ExitInv' /\ StopDropsNoCall'
  BY <1>6 DEF ExitInv, StopDropsNoCall, Queued
<1>7. CASE StartPg
  <2>1. main \in Booting /\ poller = "none" /\ poller' = poller
    BY <1>0, <1>7 DEF StartPg, Booting, ThreadsInv
  <2>2. UNCHANGED queue \/ Push(<<Call("VHOST_START", None)>>)
    BY <1>7 DEF StartPg
  <2>3. ~ Queued("EXIT")
    BY <1>0, <1>7 DEF StartPg, ExitInv, Over
  <2>4. ~ Queued("EXIT")'
    <3>1. CASE UNCHANGED queue
      BY <2>3, <3>1 DEF Queued
    <3>2. CASE Push(<<Call("VHOST_START", None)>>)
      BY <1>0, <2>3, <3>2, PushOne, CallTypes
    <3> QED BY <2>2, <3>1, <3>2
  <2> QED BY <1>6, <2>1, <2>4
<1>8. CASE StartBricks
  <2>1. ~ Queued("EXIT")' /\ poller' # "gone"
    BY <1>0, <1>8 DEF StartBricks, StartFails, ThreadsInv, ExitInv, Queued, Over, Booting
  <2> QED BY <1>6, <2>1
<1>9. CASE Join
  BY <1>9 DEF Join, ExitInv, StopDropsNoCall, Queued, Over
<1>10. ASSUME NEW n \in NicId,
              \/ UNCHANGED queue
              \/ Push(<<Call("BRICK_DESTROY", n), Call("NOTHING", None)>>)
              \/ Push(<<Call("FW_NEW", n), Call("NOTHING", None)>>)
              \/ Push(<<Call("FW_RELOAD", n)>>),
              main \notin Over, UNCHANGED poller
       PROVE  ExitInv' /\ StopDropsNoCall'
  <2>1. ~ Queued("EXIT") /\ poller' # "gone"
    BY <1>0, <1>10 DEF ExitInv
  <2>2. Queued("EXIT")' => Queued("EXIT")
    <3>1. CASE UNCHANGED queue
      BY <3>1 DEF Queued
    <3>2. CASE \/ Push(<<Call("BRICK_DESTROY", n), Call("NOTHING", None)>>)
               \/ Push(<<Call("FW_NEW", n), Call("NOTHING", None)>>)
      BY <1>0, <3>2, PushTwo, CallTypes
    <3>3. CASE Push(<<Call("FW_RELOAD", n)>>)
      BY <1>0, <3>3, PushOne, CallTypes
    <3> QED BY <1>10, <3>1, <3>2, <3>3
  <2> QED BY <1>6, <2>1, <2>2
<1>11. ASSUME NEW n \in NicId, StopNic(n) PROVE ExitInv' /\ StopDropsNoCall'
  BY <1>10, <1>11 DEF StopNic, Over
<1>12. ASSUME NEW n \in NicId,
              ActionNicAdd(n) \/ ActionNicDel(n) \/ NicDelDone(n) \/ NicAddDone(n)
       PROVE  ExitInv' /\ StopDropsNoCall'
  <2> USE DEF ActionNicAdd, ActionNicDel, NicDelDone, NicAddDone
  <2>1. /\ UNCHANGED <<main, poller, raced>>
        /\ \/ UNCHANGED queue
           \/ Push(<<Call("BRICK_DESTROY", n), Call("NOTHING", None)>>)
           \/ Push(<<Call("FW_NEW", n), Call("NOTHING", None)>>)
           \/ Push(<<Call("FW_RELOAD", n)>>)
    BY <1>12 DEF ApiGoes
  <2>2. CASE main \notin Over
    BY <1>10, <2>1, <2>2
  <2>3. CASE main \in Over
    <3>1. raced
      BY <1>0, <1>12, <2>3 DEF ThreadsInv, LifecycleTypes, Over
    <3> QED BY <2>1, <2>3, <3>1 DEF ExitInv, StopDropsNoCall
  <2> QED BY <2>2, <2>3
<1>13. CASE StopPoller
  <2>1. ~ Queued("EXIT") /\ poller' # "gone" /\ main' \in Over
    BY <1>0, <1>13 DEF StopPoller, ExitInv, Over
  <2> DEFINE c == <<Call("VHOST_STOP", None), Call("EXIT", None)>>
  <2>2. queue \in Seq(Calls) /\ c \in Seq(Calls) /\ queue' = queue \o c
    BY <1>0, <1>13, CallTypes DEF StopPoller, Push, LifecycleTypes
  <2>3. Len(c) = 2 /\ c[1][1] = "VHOST_STOP" /\ c[2][1] = "EXIT"
    BY DEF Call
  <2> HIDE DEF c
  <2>4. PICK q \in Seq(Calls) : q = queue
    BY <2>2
  <2>5. /\ Len(q) \in Nat /\ DOMAIN q = 1..Len(q)
        /\ Len(q \o c) = Len(q) + Len(c)
        /\ DOMAIN (q \o c) = 1..(Len(q) + Len(c))
        /\ \A i \in 1..(Len(q) + Len(c)) :
             (q \o c)[i] = IF i <= Len(q) THEN q[i] ELSE c[i - Len(q)]
    BY <2>2, Joined
  <2>6. /\ Len(queue) \in Nat /\ DOMAIN queue = 1..Len(queue)
        /\ Len(queue') = Len(queue) + 2 /\ DOMAIN queue' = 1..(Len(queue) + 2)
        /\ \A i \in 1..(Len(queue) + 2) :
             queue'[i] = IF i <= Len(queue) THEN queue[i] ELSE c[i - Len(queue)]
    BY <2>2, <2>3, <2>4, <2>5
  <2>7. ASSUME NEW i \in DOMAIN queue', queue'[i][1] = "EXIT" PROVE i = Len(queue')
    <3>1. ~ (i <= Len(queue))
      BY <2>1, <2>6, <2>7 DEF Queued
    <3>2. i # Len(queue) + 1
      BY <2>3, <2>6, <2>7
    <3> QED BY <2>6, <2>7, <3>1, <3>2
  <2> QED BY <2>1, <2>7 DEF ExitInv, StopDropsNoCall
<1>14. CASE PollerStep
  <2>1. /\ queue \in Seq(Calls) /\ queue # <<>> /\ queue' = Tail(queue)
        /\ poller = "run" /\ UNCHANGED <<main, raced>>
        /\ poller' = "gone" <=> Head(queue)[1] = "EXIT"
    BY <1>0, <1>14 DEF PollerStep, LifecycleTypes
  <2>2. /\ Len(queue) \in Nat /\ Len(queue) > 0 /\ DOMAIN queue = 1..Len(queue)
        /\ Head(queue) = queue[1] /\ Len(queue') = Len(queue) - 1
        /\ DOMAIN queue' = 1..(Len(queue) - 1)
        /\ \A i \in 1..(Len(queue) - 1) : queue'[i] = queue[i + 1]
    BY <2>1, EmptySeq, LenProperties
  <2>3. Queued("EXIT")' => Queued("EXIT")
    BY <1>0, <1>14, TakeQueued
  <2>4. poller' = "gone" => Queued("EXIT")
    BY <1>0, <1>14, <2>1, TakeQueued
  <2>5. ASSUME ~ raced, NEW i \in DOMAIN queue', queue'[i][1] = "EXIT"
        PROVE  i = Len(queue')
    <3>1. i + 1 \in DOMAIN queue /\ queue[i + 1][1] = "EXIT"
      BY <2>2, <2>5
    <3>2. i + 1 = Len(queue)
      BY <1>0, <2>5, <3>1 DEF ExitInv
    <3> QED BY <2>2, <3>2
  <2>6. ASSUME ~ raced, poller' = "gone" PROVE queue' = <<>>
    <3>1. 1 = Len(queue)
      BY <1>0, <2>1, <2>2, <2>6 DEF ExitInv
    <3>2. LifecycleTypes'
      BY <1>0, TypesStep
    <3>3. queue' \in Seq(Calls)
      BY <3>2 DEF LifecycleTypes
    <3>4. Len(queue') = Len(queue) - 1
      BY <2>2
    <3>5. Len(queue') = 0
      BY <3>1, <3>4
    <3> QED BY <3>3, <3>5, EmptySeq
  <2> QED BY <1>0, <2>1, <2>3, <2>4, <2>5, <2>6 DEF ExitInv, StopDropsNoCall
<1> QED
  BY <1>2, <1>3, <1>4, <1>5, <1>7, <1>8, <1>9, <1>11, <1>12, <1>13, <1>14
  DEF LifecycleNext, MainStep, ApiStep, Ended
-----------------------------------------------------------------------------
(* NICs and their shutdown.                                                *)

LEMMA NicsInit == LifecycleInit => NicsInv /\ VhostSpansNics
BY DEF LifecycleInit, NicsInv, VhostSpansNics, Stopping, Over

(* A branch is made once vhost runs, and vhost is stopped once no branch   *)
(* is left.                                                                *)
LEMMA VhostStep ==
  LifecycleInv /\ [LifecycleNext]_lvars => VhostSpansNics'
<1> SUFFICES ASSUME LifecycleInv, [LifecycleNext]_lvars,
                    branches' # {}, ~ raced'
             PROVE  vhost' \in {"started", "refused"}
  BY DEF VhostSpansNics
<1> USE DEF LifecycleInv
<1>1. CASE UNCHANGED <<vhost, raced>> /\ branches' \subseteq branches
  BY <1>1 DEF VhostSpansNics
<1>2. CASE Leave
  BY <1>2 DEF Leave, VhostSpansNics, ThreadsInv
<1>3. ASSUME NEW n \in NicId, NicAddDone(n) PROVE vhost' \in {"started", "refused"}
  <2>1. api[1] = "fw_new" /\ queue = <<>> /\ UNCHANGED <<main, vhost, raced>>
    BY <1>3 DEF NicAddDone, ApiGoes
  <2>2. started /\ main = "loop"
    BY <2>1 DEF ThreadsInv, LifecycleTypes
  <2> QED BY <2>1, <2>2 DEF QueueInv, Over
<1>4. CASE PollerStep /\ main \notin {"exited", "crashed"}
  <2>1. UNCHANGED <<branches, raced, main>> /\ vhost \in {"started", "refused"}
    BY <1>4 DEF PollerStep, VhostSpansNics
  <2>2. main \notin {"join", "pg_stop", "exited", "crashed"}
    BY <1>4, <2>1 DEF NicsInv
  <2>3. Head(queue)[1] # "VHOST_STOP"
    BY <1>4, <2>2, TakeQueued DEF QueueInv, Over
  <2> QED BY <1>4, <2>1, <2>3 DEF PollerStep
<1>5. CASE ParseCmd \/ LoadConfigFile \/ LoadKey \/ MissingMandatory \/ StartPg
           \/ SetConfigMtu \/ StartBricks \/ Serve
  BY <1>1, <1>5
  DEF ParseCmd, LoadConfigFile, LoadKey, MissingMandatory, StartPg, SetConfigMtu,
      StartBricks, Serve, StartFails
<1>6. CASE StopBegin \/ StopNicDone \/ StopPoller \/ Join \/ PgStop
  BY <1>1, <1>6 DEF StopBegin, StopNicDone, StopPoller, Join, PgStop
<1>7. ASSUME NEW n \in NicId,
             StopNic(n) \/ ActionNicAdd(n) \/ ActionNicDel(n) \/ NicDelDone(n)
      PROVE  vhost' \in {"started", "refused"}
  BY <1>1, <1>7 DEF StopNic, ActionNicAdd, ActionNicDel, NicDelDone, ApiGoes
<1>8. CASE ApiIdle \/ AppQuit \/ ApiCheck \/ SignalHandler \/ Crash \/ UNCHANGED lvars
  BY <1>1, <1>8 DEF ApiIdle, AppQuit, ApiCheck, ApiGoes, SignalHandler, Crash
<1> QED
  BY <1>2, <1>3, <1>4, <1>5, <1>6, <1>7, <1>8
  DEF LifecycleNext, MainStep, ApiStep, Ended

(* Stop() comes to every NIC of the model, and leaves a NIC when the       *)
(* poller has destroyed its firewall.                                      *)
LEMMA NicsStep == LifecycleInv /\ [LifecycleNext]_lvars => NicsInv'
<1> SUFFICES ASSUME LifecycleInv, [LifecycleNext]_lvars, ~ raced' PROVE NicsInv'
  BY DEF NicsInv
<1> USE DEF LifecycleInv
<1>0. ~ raced
  BY DEF LifecycleNext, MainStep, ApiStep, Ended, ParseCmd, LoadConfigFile, LoadKey,
         MissingMandatory, StartPg, SetConfigMtu, StartBricks, StartFails, Serve, Leave,
         StopBegin, StopNicDone, StopPoller, Join, PgStop, StopNic, ActionNicAdd,
         ActionNicDel, NicDelDone, NicAddDone, ApiIdle, AppQuit, ApiCheck, ApiGoes,
         PollerStep, SignalHandler, Crash, ThreadsInv
<1>1. ASSUME UNCHANGED <<branches, nics, queue, live, left, cur>>,
             \/ main' = main
             \/ main' \in {"exited", "crashed"}
             \/ main \notin Stopping \cup Over /\ main' \notin Stopping \cup Over
      PROVE  NicsInv'
  BY <1>0, <1>1 DEF NicsInv, Stopping, Over
<1>2. CASE ParseCmd \/ LoadConfigFile \/ LoadKey \/ MissingMandatory
           \/ SetConfigMtu \/ Serve \/ Leave
  BY <1>1, <1>2
  DEF ParseCmd, LoadConfigFile, LoadKey, MissingMandatory, SetConfigMtu, Serve, Leave,
      Stopping, Over
<1>3. CASE StartPg \/ StartBricks
  BY <1>0, <1>3 DEF StartPg, StartBricks, StartFails, NicsInv, Stopping, Over
<1>4. CASE ApiIdle \/ AppQuit \/ ApiCheck \/ SignalHandler \/ Crash
  BY <1>1, <1>4 DEF ApiIdle, AppQuit, ApiCheck, SignalHandler, Crash
<1>5. CASE UNCHANGED lvars
  BY <1>1, <1>5
<1>6. CASE StopBegin
  BY <1>0, <1>1, <1>6 DEF StopBegin, NicsInv, Stopping, Over
<1>7. ASSUME NEW n \in NicId, StopNic(n) PROVE NicsInv'
  <2>1. CASE n \notin branches
    BY <1>0, <1>7, <2>1 DEF StopNic, NicsInv, Stopping, Over
  <2>2. CASE n \in branches
    <3>1. /\ main = "nics" /\ main' = "nic_del" /\ cur' = n /\ left' = left \ {n}
          /\ UNCHANGED <<branches, nics, live>>
          /\ queue' = queue \o <<Call("BRICK_DESTROY", n), Call("NOTHING", None)>>
      BY <1>7, <2>2 DEF StopNic, Push
    <3>2. \E i \in DOMAIN queue' : queue'[i] = Call("BRICK_DESTROY", n)
      <4> DEFINE c == <<Call("BRICK_DESTROY", n), Call("NOTHING", None)>>
      <4>1. queue \in Seq(Calls) /\ c \in Seq(Calls)
        BY CallTypes DEF LifecycleTypes
      <4>2. 1 \in DOMAIN c /\ c[1] = Call("BRICK_DESTROY", n)
        OBVIOUS
      <4> HIDE DEF c
      <4>3. \E i \in DOMAIN (queue \o c) : (queue \o c)[i] = c[1]
        BY <4>1, <4>2, Pushed
      <4> QED BY <3>1, <4>2, <4>3 DEF c
    <3> QED BY <1>0, <3>1, <3>2 DEF NicsInv, Stopping, Over
  <2> QED BY <2>1, <2>2
<1>8. CASE StopNicDone
  <2>1. cur \notin live
    BY <1>0, <1>8 DEF StopNicDone, NicsInv
  <2> QED BY <1>0, <1>8, <2>1 DEF StopNicDone, NicsInv, Stopping, Over
<1>9. CASE StopPoller
  BY <1>0, <1>9 DEF StopPoller, NicsInv, Stopping, Over
<1>10. CASE Join
  BY <1>0, <1>10 DEF Join, NicsInv, Stopping, Over
<1>11. CASE PgStop
  BY <1>0, <1>11 DEF PgStop, NicsInv, Stopping, Over
<1>12. ASSUME NEW n \in NicId,
              ActionNicAdd(n) \/ ActionNicDel(n) \/ NicDelDone(n) \/ NicAddDone(n)
       PROVE  NicsInv'
  <2>1. main = "loop" /\ main' = main
    BY <1>0, <1>12
    DEF ActionNicAdd, ActionNicDel, NicDelDone, NicAddDone, ThreadsInv, LifecycleTypes
  <2>2. branches' = nics'
    BY <1>0, <1>12, <2>1
    DEF ActionNicAdd, ActionNicDel, NicDelDone, NicAddDone, NicsInv, Stopping, Over
  <2> QED BY <2>1, <2>2 DEF NicsInv, Stopping, Over
<1>13. CASE PollerStep
  <2>1. UNCHANGED <<main, branches, nics, left, cur>>
    BY <1>13 DEF PollerStep
  <2>2. ASSUME main \in Stopping PROVE Head(queue)[1] # "FW_NEW"
    <3>1. api[1] # "fw_new"
      BY <1>0, <2>2 DEF ThreadsInv, LifecycleTypes, Stopping
    <3> QED BY <1>0, <1>13, <3>1, TakeQueued DEF QueueInv
  <2>3. ASSUME main \in Stopping
        PROVE  live' \subseteq live /\ (Head(queue) = Call("BRICK_DESTROY", cur) => cur \notin live')
    BY <1>13, <2>2, <2>3 DEF PollerStep, Call
  <2>4. ASSUME main = "nic_del", cur \in live'
        PROVE  \E i \in DOMAIN queue' : queue'[i] = Call("BRICK_DESTROY", cur)
    <3>1. PICK j \in DOMAIN queue : queue[j] = Call("BRICK_DESTROY", cur)
      BY <1>0, <2>3, <2>4 DEF NicsInv, Stopping
    <3>2. queue[j] # Head(queue)
      BY <2>3, <2>4, <3>1 DEF Stopping
    <3>3. queue \in Seq(Calls) /\ queue # <<>> /\ queue' = Tail(queue)
      BY <1>13 DEF PollerStep, LifecycleTypes
    <3> QED BY <3>1, <3>2, <3>3, Taken
  <2> QED BY <1>0, <2>1, <2>3, <2>4 DEF NicsInv, Stopping
<1> QED
  BY <1>2, <1>3, <1>4, <1>5, <1>6, <1>7, <1>8, <1>9, <1>10, <1>11, <1>12, <1>13
  DEF LifecycleNext, MainStep, ApiStep, Ended
-----------------------------------------------------------------------------
(* Theorems.                                                               *)

LEMMA LifecycleInvariant == LifecycleSpec => []LifecycleInv
<1>1. LifecycleInit => LifecycleInv
  BY TypesInit, ConfigInit, BootMtuInit, ThreadsInit, QueueInit, ExitInit, NicsInit
  DEF LifecycleInv
<1>2. LifecycleInv /\ [LifecycleNext]_lvars => LifecycleInv'
  BY TypesStep, ConfigStep, BootMtuStep, ThreadsStep, QueueStep, ExitStep,
     NicsStep, VhostStep
  DEF LifecycleInv
<1> QED BY <1>1, <1>2, PTL DEF LifecycleSpec

(* With the options, files and devices at hand, whatever the configuration *)
(* says, the search that Graph::Start runs in main() finds the largest MTU.*)
THEOREM StartFindsMaximum == LifecycleSpec => []FindsMaximum
<1>1. LifecycleInv => FindsMaximum
  BY BootMtuMaximum DEF LifecycleInv
<1> QED BY <1>1, LifecycleInvariant, PTL

(* Config::parse_cmd and LoadConfigFile: once the graph is started, every  *)
(* option but --dpdk-port is the file's, else the command line's, else the *)
(* default, and no unreadable key was passed over.                         *)
THEOREM LifecycleOptionsApply == LifecycleSpec => []OptionsApply
<1>1. LifecycleInv => OptionsApply
  BY ConfigIsOptions DEF LifecycleInv
<1> QED BY <1>1, LifecycleInvariant, PTL

(* Graph::Stop throws no call away: when the poller has ended it has       *)
(* executed every call that any thread queued, for any number of NICs and  *)
(* any requests before, unless main() left the API thread running.         *)
THEOREM LifecycleStopDropsNoCall == LifecycleSpec => []StopDropsNoCall
<1>1. LifecycleInv => StopDropsNoCall
  BY DEF LifecycleInv
<1> QED BY <1>1, LifecycleInvariant, PTL

(* For any number of NICs, a vhost socket only exists between              *)
(* pg_vhost_start, refused or not, and pg_vhost_stop, though NicAdd and    *)
(* Stop() run in threads other than the poller's.                          *)
THEOREM LifecycleVhostSpansNics == LifecycleSpec => []VhostSpansNics
<1>1. LifecycleInv => VhostSpansNics
  BY DEF LifecycleInv
<1> QED BY <1>1, LifecycleInvariant, PTL

(* Graph::Stop has destroyed the branch and the firewall of every NIC of   *)
(* the model before packetgraph is stopped.                                *)
THEOREM LifecycleStopDestroys == LifecycleSpec => []StopDestroysNics
<1>1. LifecycleInv => StopDestroysNics
  BY DEF LifecycleInv, NicsInv, StopDestroysNics, Stopping
<1> QED BY <1>1, LifecycleInvariant, PTL
=============================================================================
