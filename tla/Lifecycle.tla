----------------------------- MODULE Lifecycle -----------------------------
(***************************************************************************)
(* The life of butterflyd: main() with its configuration (api/server/      *)
(* app.cc), Graph::Start, Graph::Stop and Graph::Poller (graph.cc), and    *)
(* the thread of ApiServer (server.cc).  The main thread reads the         *)
(* configuration, starts the graph, whose MTU module MtuSearch sets, and   *)
(* the API thread, and waits for request_exit.  It then destroys the       *)
(* ApiServer object, which the detached API thread may still be using, and *)
(* stops the graph, which the API thread may still be changing: raced is   *)
(* TRUE when that happens, and whatever follows may crash.                 *)
(*                                                                         *)
(* A NIC is reduced to its firewall, which the poller makes and destroys,  *)
(* and its branch in vnis_; modules BrickGraph and Firewall have the rest. *)
(***************************************************************************)
EXTENDS MtuSearch, Sequences

CONSTANTS
  NicId,       \* ids of NICs
  CmdLines,    \* options on the command line: functions from Option
  Files,       \* options in a configuration file, or one of the next two
  NoFile, Unreadable,
  None,        \* an option that is not given
  NotANumber   \* a text std::stoi refuses

ASSUME LifecycleAssumption ==
  0 \in Numbers /\ None \notin NicId

VARIABLES
  main,          \* what the main thread does
  cmd, file,     \* the options given
  config,        \* app::config
  request_exit,  \* app::request_exit
  server,        \* the ApiServer object: "none", "up" or "down"
  raced,         \* the API thread was running when main() left it
  api,           \* what the API thread does, and on which NIC
  started,       \* Graph::started
  queue,         \* the calls to the poller
  poller,        \* the poller thread: "none", "run" or "gone"
  vhost,         \* what the poller did of vhost: "none", "started", "refused"
                 \* by packetgraph, or "stopped"
  live,          \* NICs whose firewall exists
  branches,      \* NICs in vnis_
  nics,          \* app::model.nics
  left, cur      \* NICs Stop() has not come to; the one it deletes, or None

config_vars == <<cmd, file, config>>
graph_vars == <<started, queue, poller, vhost, live, branches, nics, left, cur>>
server_vars == <<request_exit, server, raced, api>>
lvars == <<vars, main, config_vars, graph_vars, server_vars>>

Option == {"ip", "socket_dir", "nic_mtu", "dpdk_port", "key"}
OrElse(v, default) == IF v = None THEN default ELSE v
-----------------------------------------------------------------------------
(* Configuration.  The text of nic-mtu is a kind and a number, see arg.    *)

Default == [o \in Option |-> CASE o = "nic_mtu" -> <<"empty", 0>>
                               [] o = "dpdk_port" -> 0
                               [] OTHER -> None]

(* std::string::operator=(char): the option --dpdk-port becomes a text of  *)
(* one character, which is a number when it is a digit.                    *)
CharText(n) ==
  LET c == n % 256
  IN  IF c \in 48..57 THEN <<"number", c - 48>> ELSE <<"bad", 0>>

(* Config::parse_cmd.                                                      *)
FromCmd ==
  [o \in Option |->
     CASE o = "nic_mtu" /\ cmd["dpdk_port"] # None -> CharText(cmd["dpdk_port"])
       [] o = "dpdk_port" -> Default[o]
       [] OTHER -> OrElse(cmd[o], Default[o])]

(* Mutant of FromFile: the command line goes before the file.              *)
FromFileLast == [o \in Option |-> OrElse(cmd[o], OrElse(file[o], config[o]))]

(* LoadConfigFile: what is in the file replaces what was given.            *)
FromFile == [o \in Option |-> OrElse(file[o], config[o])]

LifecycleInit ==
  /\ Init /\ arg = "empty" /\ number = 0
  /\ main = "parse" /\ cmd \in CmdLines /\ file \in Files /\ config = Default
  /\ request_exit = FALSE /\ server = "none" /\ raced = FALSE
  /\ api = <<"none", None>>
  /\ started = FALSE /\ queue = <<>> /\ poller = "none"
  /\ vhost = "none" /\ live = {} /\ branches = {} /\ nics = {} /\ left = {} /\ cur = None

(* Help, the version or an unknown option end the process.                 *)
ParseCmd ==
  /\ main = "parse"
  /\ \/ main' = "exited" /\ UNCHANGED config
     \/ main' = "file" /\ config' = FromCmd
  /\ UNCHANGED <<vars, cmd, file, graph_vars, server_vars>>

(* A file that cannot be read ends the process; a number that is none      *)
(* throws, and main() goes on to Stop().                                   *)
LoadConfigFile ==
  /\ main = "file"
  /\ \/ file = NoFile /\ main' = "key" /\ UNCHANGED config
     \/ file = Unreadable /\ main' = "exited" /\ UNCHANGED config
     \/ /\ file \notin {NoFile, Unreadable}
        /\ config' = FromFile
        /\ main' = IF file["dpdk_port"] = NotANumber THEN "stop" ELSE "key"
  /\ UNCHANGED <<vars, cmd, file, graph_vars, server_vars>>

(* A key that is configured and cannot be read ends the process.           *)
LoadKey ==
  /\ main = "key"
  /\ main' = IF config["key"] = "bad" THEN "exited" ELSE "check"
  /\ arg' = config["nic_mtu"][1] /\ number' = config["nic_mtu"][2]
  /\ UNCHANGED <<limit, min, max, mtu, pc, config_vars, graph_vars, server_vars>>

MissingMandatory ==
  /\ main = "check"
  /\ main' = IF None \in {config["ip"], config["socket_dir"]}
             THEN "exited" ELSE "pg_start"
  /\ UNCHANGED <<vars, config_vars, graph_vars, server_vars>>
-----------------------------------------------------------------------------
(* Graph::Start.                                                           *)

Push(calls) == queue' = queue \o calls
Call(action, n) == <<action, n>>

(* Start() returns false: main() asks for the end, and still runs the API. *)
StartFails ==
  /\ request_exit' = TRUE /\ main' = "server"
  /\ UNCHANGED <<server, raced, api>>

(* packetgraph, VHOST_START, and the physical NIC or a tap in its place.   *)
StartPg ==
  /\ main = "pg_start"
  /\ \/ StartFails /\ UNCHANGED queue
     \/ StartFails /\ Push(<<Call("VHOST_START", None)>>)
     \/ /\ config["dpdk_port"] >= 0
        /\ main' \in {"mtu", "bricks"}
        /\ Push(<<Call("VHOST_START", None)>>)
        /\ UNCHANGED server_vars
  /\ UNCHANGED <<vars, config_vars, started, poller, vhost, live,
                 branches, nics, left, cur>>

SetConfigMtu ==
  /\ main = "mtu"
  /\ \/ /\ SetNumber \/ StartSearch \/ Probe \/ Settle
        /\ UNCHANGED main
     \/ pc = "done" /\ main' = "bricks" /\ UNCHANGED vars
  /\ UNCHANGED <<config_vars, graph_vars, server_vars>>

(* The sniffer, the vtep and the poller.  The type of the vtep is read     *)
(* before it is known that there is one.                                   *)
StartBricks ==
  /\ main = "bricks"
  /\ \/ StartFails /\ UNCHANGED <<started, poller>>
     \/ /\ main' = "crashed"
        /\ UNCHANGED <<started, poller, server_vars>>
     \/ /\ config["ip"] = "good"
        /\ poller' = "run" /\ started' = TRUE
        /\ main' = "server"
        /\ UNCHANGED server_vars
  /\ UNCHANGED <<vars, config_vars, queue, vhost, live, branches, nics, left, cur>>

(* The constructor of ApiServer throws when it cannot bind.                *)
Serve ==
  /\ main = "server"
  /\ \/ main' = "stop" /\ UNCHANGED server_vars
     \/ /\ main' = "loop" /\ server' = "up" /\ api' = <<"loop", None>>
        /\ UNCHANGED <<request_exit, raced>>
  /\ UNCHANGED <<vars, config_vars, graph_vars>>

(* The end of the try block destroys the ApiServer.                        *)
Leave ==
  /\ main = "loop" /\ request_exit
  /\ main' = "stop" /\ server' = "down"
  /\ raced' = (api[1] # "gone")
  /\ UNCHANGED <<vars, config_vars, graph_vars, request_exit, api>>
-----------------------------------------------------------------------------
(* Graph::Stop.                                                            *)

(* Mutant of StopBegin: Stop() starts with the poller, as if the NICs were *)
(* gone.                                                                   *)
StopBeginAtExit ==
  /\ main = "stop"
  /\ main' = IF started THEN "nics" ELSE "exited"
  /\ UNCHANGED <<vars, config_vars, graph_vars, server_vars>>

StopBegin ==
  /\ main = "stop"
  /\ IF started THEN main' = "nics" /\ left' = nics
                ELSE main' = "exited" /\ UNCHANGED left
  /\ UNCHANGED <<vars, config_vars, started, queue, poller, vhost, live,
                 branches, nics, cur, server_vars>>

(* NicDel on a NIC of the model, up to its WaitEmptyQueue.                 *)
StopNic(n) ==
  /\ main = "nics" /\ n \in left
  /\ left' = left \ {n}
  /\ IF n \in branches
     THEN /\ Push(<<Call("BRICK_DESTROY", n), Call("NOTHING", None)>>)
          /\ main' = "nic_del" /\ cur' = n
     ELSE UNCHANGED <<main, queue, cur>>
  /\ UNCHANGED <<vars, config_vars, started, poller, vhost, live,
                 branches, nics, server_vars>>

(* It returns: the poller has destroyed the firewall, the branch goes.     *)
StopNicDone ==
  /\ main = "nic_del" /\ queue = <<>>
  /\ branches' = branches \ {cur} /\ cur' = None
  /\ main' = "nics"
  /\ UNCHANGED <<vars, config_vars, started, queue, poller, vhost, live,
                 nics, left, server_vars>>

(* Mutant of StopPoller: the poller is told to exit before it stops vhost. *)
StopPollerExitFirst ==
  /\ main = "nics" /\ left = {}
  /\ Push(<<Call("EXIT", None), Call("VHOST_STOP", None)>>)
  /\ main' = "join"
  /\ UNCHANGED <<vars, config_vars, started, poller, vhost, live,
                 branches, nics, left, cur, server_vars>>

StopPoller ==
  /\ main = "nics" /\ left = {}
  /\ Push(<<Call("VHOST_STOP", None), Call("EXIT", None)>>)
  /\ main' = "join"
  /\ UNCHANGED <<vars, config_vars, started, poller, vhost, live,
                 branches, nics, left, cur, server_vars>>

(* Mutant of Join: the API thread is waited for as well.                   *)
JoinApi ==
  /\ main = "join" /\ poller = "gone" /\ api[1] \in {"none", "gone"}
  /\ queue' = <<>> /\ main' = "pg_stop"
  /\ UNCHANGED <<vars, config_vars, started, poller, vhost, live, branches,
                 nics, left, cur, server_vars>>

(* pthread_join, then what is left in the queue is thrown away and the     *)
(* last reference to it dropped: the poller has dropped its own.  Only an  *)
(* API thread that main() left running can use the queue after, see Crash. *)
Join ==
  /\ main = "join" /\ poller = "gone"
  /\ queue' = <<>> /\ main' = "pg_stop"
  /\ UNCHANGED <<vars, config_vars, started, poller, vhost, live, branches,
                 nics, left, cur, server_vars>>

PgStop ==
  /\ main = "pg_stop"
  /\ branches' = {} /\ started' = FALSE /\ main' = "exited"
  /\ UNCHANGED <<vars, config_vars, queue, poller, vhost, live, nics,
                 left, cur, server_vars>>

MainStep ==
  \/ ParseCmd \/ LoadConfigFile \/ LoadKey \/ MissingMandatory
  \/ StartPg \/ SetConfigMtu \/ StartBricks \/ Serve \/ Leave
  \/ StopBegin \/ StopPoller \/ Join \/ PgStop
  \/ StopNicDone \/ \E n \in NicId : StopNic(n)
-----------------------------------------------------------------------------
(* The API thread: Loop(), a sleep and a look at request_exit.  Once the   *)
(* ApiServer is destroyed no request can come, and what is read instead of *)
(* request_exit is anything.                                               *)
ApiGoes(where, n) == api' = <<where, n>> /\ UNCHANGED <<server, raced>>

(* No message, or a request that leaves the graph alone.                   *)
ApiIdle ==
  /\ api[1] = "loop"
  /\ ApiGoes("check", None)
  /\ UNCHANGED <<vars, main, config_vars, graph_vars, request_exit>>

AppQuit ==
  /\ api[1] = "loop" /\ server = "up"
  /\ ApiGoes("check", None) /\ request_exit' = TRUE
  /\ UNCHANGED <<vars, main, config_vars, graph_vars>>

(* ActionNicAdd deletes the NIC it replaces.  Without a graph, Graph::     *)
(* NicAdd fails and the request with it.                                   *)
ActionNicAdd(n) ==
  /\ api[1] = "loop" /\ server = "up"
  /\ IF ~ started THEN ApiGoes("check", None) /\ UNCHANGED queue
     ELSE IF n \in nics
     THEN /\ ApiGoes("replace", n)
          /\ Push(<<Call("BRICK_DESTROY", n), Call("NOTHING", None)>>)
     ELSE /\ ApiGoes("fw_new", n)
          /\ Push(<<Call("FW_NEW", n), Call("NOTHING", None)>>)
  /\ UNCHANGED <<vars, main, config_vars, request_exit, started, poller,
                 vhost, live, branches, nics, left, cur>>

ActionNicDel(n) ==
  /\ api[1] = "loop" /\ server = "up" /\ n \in nics
  /\ ApiGoes("nic_del", n)
  /\ Push(<<Call("BRICK_DESTROY", n), Call("NOTHING", None)>>)
  /\ UNCHANGED <<vars, main, config_vars, request_exit, started, poller,
                 vhost, live, branches, nics, left, cur>>

(* WaitEmptyQueue returns in NicDel.                                       *)
NicDelDone(n) ==
  /\ api \in {<<"nic_del", n>>, <<"replace", n>>} /\ queue = <<>>
  /\ branches' = branches \ {n} /\ nics' = nics \ {n}
  /\ IF api[1] = "replace"
     THEN ApiGoes("fw_new", n) /\ Push(<<Call("FW_NEW", n), Call("NOTHING", None)>>)
     ELSE ApiGoes("check", None) /\ UNCHANGED queue
  /\ UNCHANGED <<vars, main, config_vars, request_exit, started, poller,
                 vhost, live, left, cur>>

(* Mutant of NicAddDone: NicAdd does not wait for the poller.              *)
NicAddDoneNoWait(n) ==
  /\ api = <<"fw_new", n>>
  /\ branches' = branches \cup {n} /\ nics' = nics \cup {n}
  /\ Push(<<Call("FW_RELOAD", n)>>) /\ ApiGoes("check", None)
  /\ UNCHANGED <<vars, main, config_vars, request_exit, started, poller,
                 vhost, live, left, cur>>

(* WaitEmptyQueue returns in NicAdd: the other bricks are made, vhost among *)
(* them, and the firewall is filled, which the poller does later; or a     *)
(* brick cannot be made.                                                   *)
NicAddDone(n) ==
  /\ api = <<"fw_new", n>> /\ queue = <<>>
  /\ \/ /\ n \in live
        /\ branches' = branches \cup {n} /\ nics' = nics \cup {n}
        /\ Push(<<Call("FW_RELOAD", n)>>)
     \/ UNCHANGED <<branches, nics, queue>>
  /\ ApiGoes("check", None)
  /\ UNCHANGED <<vars, main, config_vars, request_exit, started, poller,
                 vhost, live, left, cur>>

ApiCheck ==
  /\ api[1] = "check"
  /\ \/ request_exit /\ ApiGoes("gone", None)
     \/ (~ request_exit \/ server = "down") /\ ApiGoes("loop", None)
  /\ UNCHANGED <<vars, main, config_vars, graph_vars, request_exit>>

ApiStep ==
  \/ ApiIdle \/ AppQuit \/ ApiCheck
  \/ \E n \in NicId : ActionNicAdd(n) \/ ActionNicDel(n) \/ NicDelDone(n) \/ NicAddDone(n)
-----------------------------------------------------------------------------
(* Graph::PollerUpdate takes a call and executes it.  packetgraph may      *)
(* refuse VHOST_START and FW_NEW, which is logged.                         *)
PollerStep ==
  /\ poller = "run" /\ queue # <<>>
  /\ queue' = Tail(queue)
  /\ LET action == Head(queue)[1]
         n == Head(queue)[2]
     IN  /\ poller' = IF action = "EXIT" THEN "gone" ELSE poller
         /\ \/ action = "VHOST_START" /\ vhost' \in {"started", "refused"}
            \/ action = "VHOST_STOP" /\ vhost' = "stopped"
            \/ action \notin {"VHOST_START", "VHOST_STOP"} /\ UNCHANGED vhost
         /\ \/ action = "FW_NEW" /\ live' = live \cup {n}
            \/ action = "BRICK_DESTROY" /\ live' = live \ {n}
            \/ action # "BRICK_DESTROY" /\ UNCHANGED live
  /\ UNCHANGED <<vars, main, config_vars, server_vars, started,
                 branches, nics, left, cur>>

SignalHandler ==
  /\ main \notin {"exited", "crashed"} /\ ~ request_exit
  /\ request_exit' = TRUE
  /\ UNCHANGED <<vars, main, config_vars, graph_vars, server, raced, api>>

(* The API thread uses what main() has destroyed or is destroying.         *)
Crash ==
  /\ raced /\ api[1] # "gone"
  /\ main' = "crashed"
  /\ UNCHANGED <<vars, config_vars, graph_vars, server_vars>>

Ended == main \in {"exited", "crashed"} /\ UNCHANGED lvars

(* No thread does anything once the process has ended.                     *)
LifecycleNext ==
  \/ Ended
  \/ /\ main \notin {"exited", "crashed"}
     /\ MainStep \/ ApiStep \/ PollerStep \/ SignalHandler \/ Crash

LifecycleSpec == LifecycleInit /\ [][LifecycleNext]_lvars

(* Every thread is scheduled.                                              *)
LifecycleFairSpec ==
  /\ LifecycleSpec
  /\ WF_lvars(main \notin {"exited", "crashed"} /\ MainStep)
  /\ WF_lvars(main \notin {"exited", "crashed"} /\ ApiStep)
  /\ WF_lvars(main \notin {"exited", "crashed"} /\ PollerStep)
-----------------------------------------------------------------------------
(* Properties.  An option is what the file says, else what the command     *)
(* line says, else the default; a configured key is read, or nothing is    *)
(* started.  The option --dpdk-port is not among them: the code gives its  *)
(* number to nic_mtu.                                                      *)
Given(o) == IF file = NoFile THEN cmd[o] ELSE OrElse(file[o], cmd[o])
OptionsApply ==
  main \in {"pg_start", "mtu", "bricks", "server", "loop"} =>
    /\ \A o \in Option \ {"dpdk_port", "nic_mtu"} :
         config[o] = OrElse(Given(o), Default[o])
    /\ cmd["dpdk_port"] = None =>
         \A o \in {"dpdk_port", "nic_mtu"} : config[o] = OrElse(Given(o), Default[o])
    /\ Given("key") # "bad"

(* Stop() throws away what is left in the queue once the poller has ended. *)
(* That is nothing, unless main() left the API thread running: every call  *)
(* a thread has queued, for a NIC, a firewall or vhost, is executed first. *)
StopDropsNoCall == poller = "gone" /\ ~ raced => queue = <<>>

(* A NIC has a vhost socket only between pg_vhost_start, which packetgraph *)
(* may have refused, and pg_vhost_stop.  The poller executes both, NicAdd  *)
(* and Stop() run in other threads.                                        *)
VhostSpansNics == branches # {} /\ ~ raced => vhost \in {"started", "refused"}

(* When packetgraph is stopped nothing of a NIC of the model is left in    *)
(* it, neither its branch nor its firewall.                                *)
StopDestroysNics ==
  main = "pg_stop" /\ ~ raced => branches = {} /\ live \cap nics = {}

(* Once the end is asked for, by a signal, a request, or because the graph *)
(* could not be started, the process ends, whatever the API thread does.   *)
ShutdownEnds == request_exit ~> main \in {"exited", "crashed"}
-----------------------------------------------------------------------------
(* The inductive invariant of the proofs, in parts.                        *)

Early == {"parse", "file", "key", "check"}
Booting == Early \cup {"pg_start", "mtu", "bricks"}
Stopping == {"nics", "nic_del", "join", "pg_stop"}
Over == {"join", "pg_stop", "exited", "crashed"}
Calls == ({"FW_NEW", "FW_RELOAD", "BRICK_DESTROY"} \X NicId)
         \cup ({"VHOST_START", "VHOST_STOP", "NOTHING", "EXIT"} \X {None})

ApiPlace == {"none", "loop", "check", "replace", "nic_del", "fw_new", "gone"}

LifecycleTypes ==
  /\ main \in Booting \cup {"server", "loop", "stop"} \cup Stopping \cup Over
  /\ request_exit \in BOOLEAN /\ raced \in BOOLEAN /\ started \in BOOLEAN
  /\ vhost \in {"none", "started", "refused", "stopped"}
  /\ server \in {"none", "up", "down"} /\ poller \in {"none", "run", "gone"}
  /\ api \in ApiPlace \X (NicId \cup {None})
  /\ queue \in Seq(Calls)
  /\ live \subseteq NicId /\ branches \subseteq NicId /\ nics \subseteq NicId
  /\ left \subseteq NicId /\ cur \in NicId \cup {None}

(* The options as they are read, and a key that is not kept unread.        *)
Chosen == IF file = NoFile THEN FromCmd
          ELSE [o \in Option |-> OrElse(file[o], FromCmd[o])]
ConfigInv ==
  /\ main = "file" => config = FromCmd
  /\ main \in {"key", "check", "pg_start", "mtu", "bricks", "server", "loop"} =>
       config = Chosen
  /\ main \in {"check", "pg_start", "mtu", "bricks", "server", "loop"} =>
       config["key"] # "bad"

(* The MTU is searched from the bounds the code starts from, with an       *)
(* option that no longer changes.                                          *)
BootMtuInv ==
  /\ limit \in Limits /\ SearchInv
  /\ min \in Nat /\ MtuLow <= min /\ max \in Nat /\ max <= MtuHigh
  /\ pc = "start" => min = MtuLow /\ max = MtuHigh /\ mtu = DefaultMtu
  /\ main \in Early => pc = "start"

(* The API thread lives from Serve on, and past Leave only if it raced;    *)
(* the poller from StartBricks to Join.                                    *)
ThreadsInv ==
  /\ main = "loop" <=> server = "up"
  /\ main \in Booting \cup {"server"} => server = "none"
  /\ server = "none" => api[1] = "none"
  /\ server = "down" /\ ~ raced => api[1] = "gone"
  /\ raced => server = "down"
  /\ main \in Booting => poller = "none" /\ ~ started
  /\ main \in Stopping => started
  /\ ~ raced /\ api[1] \in {"fw_new", "replace"} => started

Queued(action) == \E i \in DOMAIN queue : queue[i][1] = action

(* The poller starts vhost before anything else and stops it when no more  *)
(* NICs can come; a firewall is made while NicAdd waits for it.            *)
QueueInv ==
  /\ main \in Early \cup {"pg_start"} => queue = <<>>
  /\ main \in {"mtu", "bricks"} => queue = <<Call("VHOST_START", None)>>
  /\ started /\ main \notin Over =>
       \/ vhost \in {"started", "refused"}
       \/ queue # <<>> /\ Head(queue)[1] = "VHOST_START"
  /\ main \notin Over => ~ Queued("VHOST_STOP")
  /\ ~ raced /\ Queued("FW_NEW") => api[1] = "fw_new"

(* The poller lives until Stop() queues EXIT, which nothing comes after.   *)
ExitInv ==
  /\ main \notin Over => poller # "gone" /\ ~ Queued("EXIT")
  /\ ~ raced => \A i \in DOMAIN queue : queue[i][1] = "EXIT" => i = Len(queue)

(* Unless the API thread raced, the model and the graph have the same NICs *)
(* until Stop(), which leaves none of the NICs it has passed.              *)
NicsInv ==
  ~ raced =>
    /\ main \notin Stopping \cup Over => branches = nics
    /\ main = "nics" => branches \subseteq left
    /\ main = "nic_del" => branches \subseteq left \cup {cur}
    /\ main = "nic_del" /\ cur \in live =>
         \E i \in DOMAIN queue : queue[i] = Call("BRICK_DESTROY", cur)
    /\ main \in {"join", "pg_stop"} => branches = {}
    /\ main \in Stopping => live \cap (nics \ branches) = {}

LifecycleInv ==
  /\ LifecycleTypes /\ ConfigInv /\ BootMtuInv /\ ThreadsInv /\ QueueInv
  /\ ExitInv /\ NicsInv /\ VhostSpansNics /\ StopDropsNoCall
=============================================================================
