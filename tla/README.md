# Butterfly in TLA+

Butterfly connects virtual machines: each virtual NIC lives in a VXLAN network
(VNI) and its traffic is filtered by security groups. This directory models the
server (`api/server`) and the command line client (`api/client`), checks the
models with TLC on small instances, and proves with TLAPS, for instances of any
size, that firewalls follow the security groups, that the brick graph connects NICs
and keeps networks apart, and that requests, conversions, start and end of the
server do what they promise.

## 1. The system

### Processes and threads

* The **main thread** (`app.cc`) reads the configuration, starts the graph and
  the API server, polls `app::request_exit`, stops the graph and returns.
* The **API thread** (`server.cc`, detached) takes one request at a time from a
  ZeroMQ REP socket, runs its messages, and sends one reply. All changes of
  `app::model` and of `Graph::vnis_` are made here.
* The **poller thread** (`Graph::Poller`) polls the bricks of packetgraph. Every
  1024 rounds it runs `PollerUpdate`, which empties `Graph::queue_`: links,
  unlinks, VNIs, firewall creation, reload and destruction, the poll list.
* **Clients** are processes that run the commands of their command line one after
  the other, each with one or two requests, and exit 0 or 1.

There is no lock. The API thread and the poller share the queue (an asynchronous
GLib queue) and, in places, bricks. `WaitEmptyQueue` is the only barrier: a
`NOTHING` call is pushed and the API thread sleeps until the queue is empty.

### Components

| Component | State | Operations | Hard because | Correct when |
|---|---|---|---|---|
| Security groups and firewalls (`api.cc`, `graph.cc`) | groups, members, rules, NICs in `app::model`; rules staged and loaded in each firewall | `ActionSg*`, `ActionNic*`, `SgUpdate`, `SgUpdateRuleMembers`, `FwUpdate`, `FwAddRule`, `FW_RELOAD` | a rewrite takes several calls, its reload comes later from another thread; one group concerns NICs of other groups; packetgraph may refuse | at rest, firewalls enforce the model; nothing removed comes back |
| NIC branches and the brick graph (`graph.cc`) | `vnis_`, bricks, links, VNIs of the vtep, poll list, queue | `NicAdd`, `NicDel`, tracing, `update_poll`, `PollerUpdate` | raw pointers in queued calls and in the poll list; bricks destroyed by two threads; a VNI changes between direct link and switch | NICs are connected, networks isolated, no call or poll on a brick that is gone |
| MTU search (`graph.cc`) | interval, current MTU | `SetConfigMtu` | bounds | ends with the largest MTU accepted |
| API version 0 (`api_0.cc`, `model.cc`) | `app::model`, `api_0_error` | one handler per request, validation, conversions both ways, responses | limits, optional fields, an error text kept in the thread | what is accepted is well formed; a refused request changes nothing; a dump restores |
| Requests and server loop (`server.cc`, `api.cc`, `encrypted.cc`, client `request.cc`) | messages under way, job of the API thread, `request_exit` | send, time-out, receive, dispatch, throw, reply, quit, signal | time-outs, exceptions, the end of the process at any step, nested encryption | success means done; with a key only encrypted requests run; everybody is answered |
| Lifecycle (`app.cc`, `graph.cc`, `server.cc`) | `app::config`, `request_exit`, `started`, the threads, the queue, `vhost` | options, file and key; `Start`, `Stop`, `Poller`; signals, `AppQuit` | the main thread stops what the API thread still uses; vhost, NICs, poller and queue must go in an order kept by another thread; every step of the start may fail | no queued call is dropped; `Stop` leaves no NIC; the process ends |
| Client commands (`nic.cc`, `sg.cc`, `status.cc`, `shutdown.cc`, `dump.cc`, `request.cc`, `client.cc`) | the commands left, the messages of the request under way, what was read | every subcommand, several on a line | read, change and write back over two requests; several messages in one; time-outs; two clients at once | exit 0 means done, as the help says |
| Bench NICs (`graph.cc`) | packets received, statistics | rx/tx callbacks | counters at their limits | not modelled |

Packetgraph, ZeroMQ, protobuf, OpenSSL, GLib and the vendored SimpleIni are
external. Packetgraph appears as far as `graph.cc` relies on it: links, limits of
a side, reloads, MTUs. `PROJECT.json` lists every part with its status, and the
hazards of the code with the properties that would catch them.

## 2. Modules

| Module | Models | Used by |
|---|---|---|
| `Firewall` | security groups, firewalls, both threads as far as firewalls go | `MCFirewall`, `FirewallRefines`, `FirewallControlProofs`, `FirewallProofs` |
| `Enforcement` | abstract: what the security groups promise | `FirewallRefines` |
| `FirewallRefines` | the refinement mapping from `Firewall` to `Enforcement` | `MCFirewallRefines`, `FirewallRefinesProofs` |
| `BrickGraph` | branches, links, poll list, queue | `MCBrickGraph`, `BrickGraphProofs`, `BrickGraphCallProofs` |
| `MtuSearch` | `Graph::SetConfigMtu` | `Lifecycle`, `LifecycleProofs` |
| `Lifecycle` | `main()`, configuration, `Start`, `Stop`, the three threads | `MCLifecycle`, `LifecycleProofs` |
| `Api0` | `api_0.cc`: validation, conversion, responses, dump | `MCApi0`, `Commands`, `Api0Proofs` |
| `Commands` | the client's subcommands, on the handlers of `Api0` | `MCCommands` |
| `Requests` | clients, server loop, encryption, end of the process | `MCRequests`, `RequestsProofs` |
| `FirewallControlProofs`, `FirewallProofs`, `FirewallRefinesProofs`, `BrickGraphProofs`, `BrickGraphCallProofs`, `LifecycleProofs`, `RequestsProofs`, `Api0Proofs` | theorems | |

A definition commented "Mutant of X" is a plausible bug in X; it is used by no
specification, and every checked property is violated when some X is
replaced by its mutant.

### Firewall

A pcap filter is a disjunction, so its text is abstracted to the set of its
alternatives, an atom `<<rule, source>>` for each source the rule admits
(`FwBuildRule`, `FwBuildSg`, `InRules`, `OutRules`). A firewall has the rules
`staged` since the last flush and the rules `loaded` by the last reload, per side.

A handler of `api.cc` is one action for the change of the model and the list of
NICs to visit (`todo`), then one step per call it makes on a firewall: flush, add
incoming, add outgoing, reload (`FwUpdate`), or flush one side, add, reload
(`FwAddRule`). The poller can run between any two of them: an older `FW_RELOAD`
may load a table that is being rewritten. NICs are visited in any order. Every
packetgraph call may fail when `MayFail`; `failed` remembers the NICs whose last
rewrite or reload was refused, which the code only logs.

`NicAdd` and `NicDel` wait for the queue (`pc` is `nic_new`, `nic_del`). The wait
is over when the queue is *empty*, not when the poller is idle: only the final
`NOTHING` makes it a barrier. The model keeps that distinction (`queue` and
`running`).

### Enforcement and FirewallRefines

`Enforcement` has no tables, queue or worklist: each NIC has a `policy` and what it
has `enforced`. While a request is served a NIC may enforce its previous policy,
its new one or nothing; once it is answered the only change left is to take up the
new policy. NICs packetgraph refused something for are outside the promise until
they are rewritten as a whole, as in the code, which goes on after a refusal.

`FirewallRefines` maps `policy` to the incoming rules of the NIC's groups in the
model, `enforced` to what is loaded in its firewall, `due` to the NICs with an
`FW_RELOAD` on its way, `serving` to `pc # "idle"`. `Enforcement` remembers the
policy *before* the request, which the program does not: `before` is a history
variable that no guard reads. That an intermediate reload loads nothing but {},
the old or the new policy rests on `FwUpdate` adding the rules of one side in one
call, between a flush and the next step.

### BrickGraph

Bricks are named by their kind and NIC or VNI; links are pairs west-east; `ports`
says to which brick the vtep sends a VNI. The action of a handler goes up to its
next `WaitEmptyQueue`. Calls are queued with the very pointers the code puts in
them and executed one by one by the poller. `head` and `sniffer` of a `GraphNic`
are the shared pointers: a sniffer that neither refers to is destroyed on the
spot, by the API thread, as the deleter of the pointer does. `LinkAndStalk` looks
at `app::config.packet_trace` and not at the NIC, and the model does too.

### MtuSearch and Lifecycle

`MtuSearch` has one step per probe of the bisection. A NIC accepts the MTUs from 1
to a limit of its own.

`Lifecycle` extends it: `SetConfigMtu` is a phase of `Start`, with the argument that
the configuration came to. `main` walks through `ParseCmd`, `LoadConfigFile`,
`LoadKey`, `MissingMandatory`, `StartPg`, `SetConfigMtu`, `StartBricks`, `Serve`,
`Leave` and the steps of `Stop`; each of them may end the process or throw, as in
the code. The poller executes `VHOST_START`, which packetgraph may refuse: that is only
logged, and `vhost` is then "refused". `Stop` throws away what is left in the queue
after `EXIT` (the queue itself has a reference of the poller's and one of `Stop`'s, so
that it is never freed under either). The API thread adds, replaces and deletes NICs (a NIC is its firewall,
made and destroyed by the poller, and its branch), and looks at `request_exit`
between requests. `main` does not wait for it: `raced` says that it was still
running when the `ApiServer` was destroyed, and from then on the process may crash
at any moment and memory the API thread reads may hold anything.

### Api0, Commands, Requests

`Api0` has one action per handler; a `MessageV0` is a record, an unset optional
field `None`. `EmptyText` is a field that is set to an empty text: the code tests
the presence of `security_group` in a message and its length in a rule, and the model
does too. An address is a spelling with a family and a canonical form
(`inet_pton` then `inet_ntop`), so that two spellings of one address can meet.
`packet_trace` of `NicUpdate`, which the code reads before it is set, is any
Boolean. `DumpRestores` runs the model through the conversion to messages and
back. Lists of addresses and of groups are sets: `Convert` skips what the list
already has, and the order of a list only decides whether an update of the same
groups reloads the firewall once more.

`Commands` has a record per client process. A command is a record of its words and
options; one operator per subcommand (`SubNicAdd`, `SubNicSgDel`, ...) says from
what was read so far which messages are sent next, or the exit status. Messages
go through the very handlers of `Api0`, one request at a time (`MaySend`), so that
another client's request may come between two requests of a command but not between
two messages of one. Options that are not numbers, missing mandatory ones and the
checks of ports are those of the code, with their three ways to fail: return 1,
abort by an exception, or a request the server cannot parse. A command with a
`--timeout` (`Hasty`) may give up before its request is sent, while it waits or in the
middle of it (`GiveUp`); a request left behind is executed later (`ExecuteLate`), or
never; one such request at a time bounds the model. A handler may throw, which ends the
request after the messages before it (`Throw`). `butterfly request` sends the messages
of a file (`SubRequest`). `Meaning` says, apart
from the code, what the help promises of every command.

`Requests` has clients that send, wait and may give up, an inbox, and the API
thread with its steps: receive and decide (`ProcessRequest`), dispatch one
message, throw, reply; the encryption of an answer may fail (`Answers`). An envelope has clear messages, an encrypted part, or both.
`main` may be gone at any step once `request_exit` is set.
Encryption is ideal: a message opens under its own key only. A server has a key or
none (`server_key`). The counter of requests is left out.

## 3. Runs

| Run | Instance | Shows |
|---|---|---|
| `firewall_sync` | 2 NICs, both in 2 groups, 1 address, a CIDR rule and a rule on the members of `s2`; 1 call may be left in the queue when a request starts; NICs are symmetric | `IngressSynced`: at rest every firewall enforces the rules of its NIC's groups. `NoStaleOpening`: after the answer to a request, a reload never lets in what the model does not allow. `NoUseAfterDestroy`: no call, and no rewrite, on a firewall that is gone |
| `firewall_failures` | 1 NIC with and without bypass and antispoof, 1 group, an outbound, a member and a malformed rule; everything may fail | `SyncInv`, the invariant of the proofs; `EgressSynced`; `ModelMatchesGraph`: the model and `vnis_` hold the same NICs between requests, whatever failed |
| `firewall_refines` | 1 NIC with and without bypass, 2 groups, 2 addresses, a rule on the members of `s2`; everything may fail; fair threads | `ImplementsEnforcement`; every request returns; an address that left a group is at last shut out |
| `graph_nics` | 3 NICs, 2 VNIs, up to 3 in one; poll list of 2; bricks may fail to be made | queued calls and the poll list name bricks that exist; at rest every NIC is connected under its VNI, through a switch exactly when it shares it; no link crosses VNIs at any time; the API thread destroys no brick that is linked to one that stays |
| `graph_trace` | 2 NICs alone in their VNIs, added with and without tracing, which is then changed | the same calls, and NICs stay connected |
| `graph_path` | 2 NICs in one VNI, server started with tracing, traces switched off and on; fair threads | no way around the firewall of a filtered NIC, in any state between two calls; added NICs are polled; deleted NICs lose their bricks |
| `lifecycle` | 8 command lines, 6 files, NIC limits around 0, 1400 and 65535, 2 NICs; fair threads | `OptionsApply`: the file goes before the command line, and that before the default; `FindsMaximum`; `Stop` drops no queued call (`StopDropsNoCall`); a NIC exists only after the poller ran `pg_vhost_start`, though it may have been refused, and before `pg_vhost_stop` (`VhostSpansNics`); `Stop` leaves nothing of a NIC; the process ends once that is asked for, whatever it does at that moment |
| `api_conversions` | 1 NIC, 1 group; NICs, updates and rules at, and one beyond, every limit; a rule on an empty group text; two spellings of one address | see the properties of `Api0` |
| `requests` | 2 clients, 2 requests and 1, of 10 and 4 shapes; servers with and without a key; time-outs, exceptions, a quit, a signal | a client's success means that its messages were executed, once and in order; a server with a key executes nothing else than what was encrypted with it; every client is answered unless the server was told to end |
| `commands` | a client with each subcommand, with good and bad options, time-outs, exceptions and a file of several messages, and another one that replaces the NIC, sets its groups and deletes the group by a file it does not wait for, or deletes the rule and adds it again | see the properties of `Commands`: exit 0 means what the help says; groups named are added or gone even when the other client wrote between; a rule deleted by its hash is the one named; a dump is of one moment |
| `firewall_outbound` | violation | an `OUTBOUND` rule reaches the incoming filter |
| `graph_sniffer` | violation | a call in the queue names a sniffer that the API thread destroyed |

**Bounds.** `MaxBacklog` limits the calls that are in the queue when a request
*starts* (a handler adds its own): one is enough for a stale reload to meet the
next rewrite, and the proofs need no bound. Two NICs and two groups make the
cases of `SgUpdateRuleMembers` (own group, other group, both); three NICs in a VNI
make all sizes that `NicAdd` and `NicDel` tell apart (none, one, several).
`VhostMax` is 3 in `graph_nics`, so that the poll list does overflow. The trace
runs have one NIC per VNI, or leave `NicsConnected` out: see section 5. No trace
file changes in `graph_path`: with such changes the calls on a sniffer that is gone
(`graph_sniffer`) may link its successor around the firewall, once five calls are
left in the queue. `MaxBacklog` 4 lets the calls of a whole switch of the trace meet
the next request.
`MaxSends` 2 makes a request overtake an abandoned one of the same client.
In `firewall_sync` every NIC is in both groups, so that each change of a group
concerns both NICs; a NIC in one group, or in none, is in `firewall_refines`.
`firewall_refines` has one NIC: the interplay of NICs is in `firewall_sync`, and
`Enforcement` treats each NIC by itself; two addresses let one group lose a member
and keep one. In `commands` one client runs each command once on what the other has
left, whose lines make all interferences that a command with two requests can
meet; `CommandsView` leaves the last request, its response and the exit status of a
command line that ended out of the state, since no guard reads them. The other
client's `Hasty` request file makes late requests meet every command of the first. In `lifecycle` two NICs let `Stop` be between two of them.

**Fairness.** `FairSpec` has weak fairness of the API thread's and of the poller's
steps: both are threads that loop for ever and, apart from `WaitEmptyQueue` and an
empty queue, never block. New requests are not fair: clients need not send. In
`Requests` the main thread is weakly fair too (it polls `request_exit`); time-outs
and signals are not. `LifecycleFairSpec` has the three threads weakly fair while the
process lives, and no fairness of signals or crashes; `SpecH` of `FirewallRefines`
is as fair as `FairSpec`. Deadlock is only allowed in the runs of `Requests`, where
clients run out of requests and the process ends.

## 4. Theorems

TLC checked every inductive invariant below on the instances of its component before
it was proved (`GoalInv` as a fold over the queue). No theorem bounds the number of NICs, groups, clients or messages.

### Firewall

For any sets of NICs, groups, addresses and rules, any `MaxBacklog`, with or
without failures of packetgraph. `ConstantsAssumption` only says that the special
values are not members of the sets and gives the types of the constants.
`FirewallControlProofs` has the lemmas on the handlers and the queue,
`FirewallProofs` those on rules, and the theorems:

* `FirewallTypes`: `Spec => []TypeOK`; `Synced`: `Spec => []SyncInv`;
* `FirewallSynced`: `Spec => []IngressSynced`;
* `FirewallEgressSynced`: `Spec => []EgressSynced`;
* `FirewallNeverReopens`: `Spec => NoStaleOpening`;
* `FirewallModelMatchesGraph`: `Spec => []ModelMatchesGraph`;
* `FirewallNoUseAfterDestroy`: `Spec => []NoUseAfterDestroy`.

`IngressSynced` speaks of states at rest and says nothing of the steps that lead
there. `SyncInv` does:

* `HandlerInv`, `OwnedInv`: what `pc` says of the worklist and the NIC at work,
  and which NICs `vnis_` has;
* `BarrierInv`: `FW_NEW` and `BRICK_DESTROY` are only in the queue, or executing,
  while their own handler waits, and what the handler waits for ends with
  `NOTHING`. Hence when the queue is empty the poller executes at most that
  `NOTHING`, and a firewall whose rules change otherwise is not being made or
  destroyed;
* `LiveInv`: which firewalls exist, by what the handler waits for. A firewall is
  destroyed while `NicDel` waits, after every reload queued before it, and nothing
  is queued for it after: no use after its destruction;
* `StagedInv`, `LoadedInv`: the rules staged in a firewall are those the model asks
  for, unless its NIC is still to be visited (while a rule is being added they lack
  at most that rule); what is loaded is what is staged, or a reload is on its way;
* `EgressInv`, `ArpInv`: the same of the outgoing rules, and of the addresses the
  antispoof brick lets out.

The step that needs an argument about the code is `SgChange`: a change of a group
alters `InRules` of no NIC outside the worklist. It rests on `SgUpdateRuleMembers`
reading the model *after* the change. `NoStaleOpening` follows because between
requests no NIC is visited, so a reload loads rules that are right.

### The refinement

`FirewallRefinesProofs`: `FirewallImplementsEnforcement` is
`SafeSpecH => ImplementsEnforcement`, where `SafeSpecH` is `Firewall` with the history
variable and no fairness, and `ImplementsEnforcement` has none either.
`FirewallEnforcedAtRest` carries the promise of `Enforcement` back to `Firewall`.
Every action is one action of `Enforcement` or a stutter. `RefinesInv` adds to
`SyncInv`: `HushedInv` (a firewall that is gone, was given up, or is bypassed has no
rules, so that `enforced` is {}), `ConcernsInv` (refusals and reloads concern
branches only) and `HistoryInv` (what is staged in the middle of a request is
nothing, the policy before, or the policy now: the case a late reload makes
visible).

### The brick graph

`BrickGraphProofs` holds for any NICs, VNIs, limits and bounds, any changes of traces
and trace files, and bricks that cannot be made; `NullAssumption` says that a null
pointer is neither a brick nor a branch:

* `GraphTypes`: `Spec => []TypeOK`; `GraphPolledLive`: `Spec => []PolledBricksLive`;
* `GraphVniIsolation`: `Spec => []VniIsolation`;
* `GraphPollList`: `Spec => []PollListComplete`.

None of these is inductive, since calls made for one state are executed in another.
`GraphInv` says what the queue may hold meanwhile:

* `ReqInv`: the NIC of the request in progress, and that it alone is disabled;
* `ShapeInv`: every link, port and queued `LINK` or `ADD_VNI` is of NICs in `vnis_`
  and inside one VNI; a deleted NIC has none left because
* `BarrierInv`: while a handler waits, its `NOTHING` is the last call, and
* `DestroyInv`: `BRICK_DESTROY` comes right before it, so that nothing names the
  firewall after;
* `PollInv`: the *last* `UPDATE_POLL` under way has a list of the enabled NICs;
* `LiveInv`: which bricks of which NIC exist, by where the API thread is.

`BrickGraphCallProofs` goes on under one of two hypotheses on what clients do.
`SameTraceFiles`: no request changes a trace file. With such requests the code breaks
the first property (`graph_sniffer`) and, by the same use of a sniffer that is gone,
the second.

* `GraphCallsLive`: `Spec => []CallsOnLiveBricks`. `BrickInv` adds that the sniffers that
  exist are those `GraphNic::sniffer` refers to (`SnifferInv`), that a VNI of several
  NICs has a switch (`SwitchInv`), and that links and calls name live bricks
  (`CallsInv`).
* `GraphNoUnfilteredPath`: `Spec => []NoUnfilteredPath`. Switching a trace moves `head`
  behind the firewall (section 5), and `NicDel` of another NIC then asks for a link
  from the vtep to that brick. `PathInv` shows that packetgraph refuses it: the brick
  has a link on its west side, now or by the calls queued before (`RoomOk`,
  `Joined`).

`NoTraceUpdates`: no request changes a trace at all.

* `GraphDestroyedIsolated`: `Spec => DestroyedBricksIsolated`;
* `GraphNicsConnected`: `Spec => []NicsConnected`, when `Enough`: the vtep has a side for
  every VNI (50 in the code) and a switch one for every NIC in a VNI (30); beyond
  that a `LINK` fails in the poller after the client has its answer. And a server
  started with tracing is only asked for NICs with tracing (section 5).

Both follow from `WiringInv`. `After` is the effect of a call on links and ports, and
`GoalInv` says that executing the call in progress and the queue leads from the
present links and ports to an end that is `Wired`: the links inside the branches that
stay, a direct link for a VNI of one NIC, a switch and its links for several, and no
other link. Executing a call only shortens the way to the same end; a request
changes the end by the calls it appends (`CutPair` and `CutOne` for `NicDel`,
`LinkSole`, `LinkSwitch`, `LinkMore` for `NicAdd`). When a handler has waited the end
is the present state (`WaitedGoal`): hence the API thread destroys what is cut off
already. That a link is made, and not refused, is where `Enough` comes in
(`VtepRoom`, `SwitchRoom`); that no other link is left does not need it.

### MTU search and lifecycle

`MtuFindsMaximum` (`LifecycleProofs`): the search ends with the largest MTU the
NIC accepts, for every limit, from the invariant that `min` is accepted or still
1400 and `max` refused or still 65536. `StartFindsMaximum` (`LifecycleProofs`) is the
same within `main()`.

`LifecycleOptionsApply`, `LifecycleStopDropsNoCall`, `LifecycleVhostSpansNics` and
`LifecycleStopDestroys` hold of `LifecycleSpec` for any command lines, files, devices
and NICs. `LifecycleInv` has a part for each question: `ConfigInv` (what `config` is
after each phase), `BootMtuInv` (the search starts from its bounds), `ThreadsInv`
(who is alive in which phase of `main`), `QueueInv` (`VHOST_START` is at the head of
the queue until the poller took it; there is no `VHOST_STOP` before `Stop` is done
with the NICs; `FW_NEW` is only queued while `NicAdd` waits), `NicsInv` (the loop of
`Stop` leaves nothing of the NICs it has passed: a firewall that still lives has its
`BRICK_DESTROY` in the queue that `Stop` waits for).
`ExitInv` says that `EXIT` is the last call in the queue once it is pushed, so that no
call is left when the poller has ended (`StopDropsNoCall`). `VhostSpansNics` alone is not inductive: `NicAdd` makes the vhost brick after its wait
for `FW_NEW`, and only the order of the queue says that `VHOST_START` came first.

### Requests

`RequestsSuccess`, `RequestsAppliedOnce` and `RequestsOnlyEncrypted` hold of `Spec` for
any clients, envelopes and keys. `EnvelopeAssumption` says that clients send
sequences of messages and that no reply is the special value `None`. In `RequestsInv`:

* `NumbersInv`: nothing has been done for a request that was not sent yet;
* `InboxInv`: a request waits at most once, with nothing done for it and no
  verdict on it. Without it a request that timed out and one sent again could be
  taken for each other;
* `JobInv`: what is done and what is to do make up the request in progress, the
  answers so far are the outcomes of what is done, and with a server key only what
  was opened with it is to do. A job of an earlier request of the client may go on,
  with its own number, after the client gave up.

A client's success then gives the equality: all answers are "ok", there are as
many as messages, and each is the outcome of its message.

### Api0

`Api0ResponsesComplete`, `Api0RulesWellFormed`, `Api0DumpRestores` and
`Api0NokChangesNothing` hold of `Spec` for any messages whose fields have their types
(`MessageAssumption`: ports and masks are natural numbers, `None` is none of them, and
the server's own error texts are not addresses; a group may be an empty text).
The second and third properties except `Sourceless` rules by name (section 5): the
invariant shows that nothing else is stored without a valid CIDR (`CidrOk`) or group. `Api0Inv`: every address, NIC,
rule and group in the model has passed its validation and conversion (`ModelInv`),
and nothing is left in `api_0_error` between two requests; with a text left, the next
refusal would have no status. `DumpRestores` follows because conversion of what was
converted is the identity on addresses, and ports and CIDRs come back in what
counts (`RuleRestores`).

`Api0RuleDelRemoves` has the hypothesis `TidyClients`: clients set ports for TCP and UDP
only. Without it the code does leave such a rule (section 5). With it two rules of
the model with one effect are equal (`SameEffect`), and the rule that is removed is
the only one.

### Only model-checked

* Liveness (`RevocationApplied`, `RequestsAnswered`, `NicsEventuallyPolled`,
  `DeletesComplete`, `ShutdownEnds`, `ClientsAnswered`): the prover has no fairness.
* `BrickGraph` beyond the hypotheses of its theorems: `NicsConnected` while traces are
  switched (run `graph_trace`, one NIC per VNI; with two in a VNI it is broken, see
  section 5). The calls of such a switch lead to a graph that depends on the trace
  each NIC had when it was wired, which the invariant would have to remember.
* `Commands`: its properties are about commands in progress on the handlers of
  `Api0`; it uses `SequencesExt`, which is out of the prover's reach.

## 5. Where code and documents disagree

Two have a run. `firewall_outbound`: `FwBuildRule` is documented to take inbound
rules only; `FwUpdate` puts `OUTBOUND` rules in the incoming filter. The other
properties of `Firewall` speak of `Ingress` rules for that reason.
`graph_sniffer`: the sniffer of a new trace file is only known to `head`; the next
change of the trace destroys it while calls on it may be queued.

Others were met while modelling. The models contain the behaviour; properties and
instances are limited as said here.

* A server started with tracing links nothing behind the antispoof brick of a
  filtered NIC that asks for no tracing (`graph.cc:278`). `graph_path` gives every
  NIC tracing for that reason.
* With changes of trace files a link around a firewall is possible as a consequence of
  `graph_sniffer`: `NoUnfilteredPath` is checked and proved without them.
* Tracing moves `head` of a filtered NIC away from its first brick
  (`graph.cc:1002`, `1053`; `graph.h:293` says otherwise). A second NIC in the VNI
  is then linked wrongly, so the runs with `NicsConnected` change the trace of
  NICs that are alone only.
* `NicAdd` unlinks an edge that is being polled, from the API thread
  (`graph.cc:828`; `graph.h:44` and `119` say the graph is stopped).
* `NicAdd` answers true for NICs beyond the poll list (`graph.cc:1462`).
* A dump loses the type of a NIC (`api_0.cc:756`): `DumpRestores` leaves it out.
* `nic_update` without a trace path puts back the default one (`api_0.cc:867`).
* A rule of a protocol without ports, added with ports, is not found by a delete
  without them (`api_0.cc:1009`): the rules of `api_conversions` carry ports for TCP
  and UDP only (`TidyClients`).
* The process may end before a quit is answered (`app.cc:558`):
  `ClientsAnswered` excepts requests under way when the server is told to end.
* `nic sg del` of the last group of a NIC sends an update without any group, which
  the server takes for no change; the client exits with 0 (`nic.cc:360`; the help
  says "removes one or more security group of a nic"). `CommandsMeanWhatTheySay` and
  `GroupEditsHold` except it by name (`DelSkipped`).
* `sg rule del` finds no rule that was added with ports for a protocol that has none
  (`PortsKept`), and such a rule gets an end port that was never assigned
  (`sg.cc:399`, `AnyPort`).
* A rule with `security_group` set to an empty text is accepted, because
  `ValidateSgRule` and `Convert` test its presence (`api_0.cc:664`, `1014`), while the
  way back and `FwBuildRule` test its length (`api_0.cc:986`, `graph.cc:1097`). It has
  no source, filters on "ip6" alone, and is dumped with a CIDR without an address, for
  which a fresh server refuses its group. `RulesWellFormed` and `DumpRestores` except
  it (`Sourceless`).
* A failure of `pg_vhost_start` is only logged (`graph.cc:571`), and NICs are made
  all the same: `VhostSpansNics` says that the call was executed, not that vhost runs.
* `NicAdd` leaks the firewall when a later brick cannot be made (`graph.cc:691`).
  `live` has the firewalls something refers to and leaves the leaked one out, so no
  property sees the leak.
* `sg rule del` with too few words prints its help and exits with 0 (`sg.cc:539`).
* `sg member list` and `sg member del` need one word more than their help shows
  (`argc` is compared with 5 and 6): `more` of a command.
* `--dpdk-port` is assigned to `nic_mtu`, as one character (`app.cc:177`; its help is
  "choose which dpdk port to use (default=0)"). `OptionsApply` says nothing of these
  two options when it is given.
* `Start` reads the type of the vtep before it tests that there is one
  (`graph.cc:411`): a wrong IP may crash instead of being reported.
* Leaving the `try` of `main()` destroys the `ApiServer` that the detached API thread
  still uses, and `Stop` runs against its requests (`app.cc:560`). The properties of
  `Lifecycle` except these executions (`raced`), other than `ShutdownEnds`.
* A request that cannot be parsed, and an internal error, are answered with a
  `Message` instead of a `Messages` (`api.cc:46`, `117`).

## 6. Not modelled

* Bench NICs: callbacks run by the poller alone, on packets packetgraph defines; no
  state of the server depends on them.
* Texts of filters, help, messages and logs, the printing of results, the parser of
  configuration files (vendored) and the shell commands for cgroups: I/O and
  formatting. `FwBuildRule` and its kin are sets of alternatives.
* AES, SHA-512 and base64 (external, ideal); their framing in `crypto.cc` is only a
  message that opens or does not.
* DPDK and vhost; packets inside bricks; values of `NicStats` and `NicExport`.
* The address families in the antispoof brick (`graph.cc:697`): it allows the
  addresses of the NIC. `Ip::operator==` of two families.

## 7. Plan

Done, in this order because the first is what Butterfly is for: `Firewall` and its
proofs, `BrickGraph`, `Requests`, `Api0`, `MtuSearch`; then `Commands`, `Lifecycle`,
`Enforcement` and the refinement; then the proofs of the refinement, `Lifecycle`,
`Requests` and `Api0`; last those of `BrickGraph`. Every safety property of a passing
run is proved but those of `Commands`. What could follow:

1. `WiringInv` with switches of traces: `Wired` would take the trace of each NIC from
   the calls under way, and `NicsConnected` would hold for NICs alone in their VNI.
2. `Commands` on sequences without `SequencesExt`, to prove its properties.
