# Specifications of singcast-cli

TLA+ models of the concurrent core of this repository and of its configuration
translator, TLC configurations that check them on small instances, and proofs
that TLAPS checks for every value of the constants. `PROJECT.json` lists the
components, the runs, the definitions with the source lines they model, the
hazards and the theorems.

    tlc -workers 2 -config service_safety.cfg MCService     # a run
    tlapm ServiceProofs.tla                                  # the proofs

## 1. The system

singcast embeds the sing-box proxy core. A host program (mobile application, C
program, the command line, or the IPC server for a GUI) drives one
`core.Service`; a configuration is translated from Clash YAML to sing-box JSON
by the package `translator` each time the core starts.

| Component | State | Operations | Talks to |
|---|---|---|---|
| Service life cycle, `core/service.go` | `state`, `running`, `startMu`, `startSeq`, `lastRuleSetProxy`, `healthCancel` | `InitContext`, `StartWithContent`, `Stop`, `Destroy` | every host; emits state events synchronously through the host's callback |
| Event subscriptions, `core/events.go` | `hooksMu`, `subCancel` | `subscribeHooks`, `unsubscribeHooks`, `emit*` | started and ended by the life cycle, observe one instance |
| Health watchdog, `core/watchdog.go` | ticker, `fails`, `cooldownUntil` | `run`, `healthProbe`, `restartForHealth` | calls `StartWithContent` from its own goroutine |
| IPC server, `ipc/server.go` | `active`, the mutex of each connection | `Run`, `serveConnection`, `handleRequest`, `onCoreEvent` | GUI clients; the handler calls the service; events of the service become notifications |
| Command socket, `ipc/listen_posix.go` | the socket file at one path | probe, remove, bind, setfacl, clean-up | other processes on the same path |
| Log handler, `core/logging.go` | level | `Handle` | delivers entries synchronously as events |
| Queries, `core/query.go` | the slots and results of a delay test | proxies, connections, delay tests | reads `running` |
| Platform, `core/platform.go` | default interface and callbacks of mobile hosts | `update`, register, unregister | sing-box, host |
| Mobile and C interfaces, `mobile/`, `cmd/lib/` | one service, one server | forwarding | service, IPC server |
| Command line, `cmd/singcast/` | pid file | run, daemon, service installation | service, IPC server |
| Translator, `translator/` | one structure per conversion, one cached country | detection, proxies, groups, rules, DNS, upgrade, assembly, validation | called by `StartWithContent` |

### What makes it hard

* The life cycle is **not one lock**: `state`, `running` and `startSeq` are
  separate atomics, `startMu` serializes only starts, and `Stop` and `Destroy`
  must not take it because the host may call them from the event callback of a
  start that holds it. Correct means: an instance is closed once and by whoever
  took it out of `running`; when the calls have returned the state, the
  published instance and the live instances agree; the latest start wins;
  subscriptions never outlive their instance; nothing leaves `Destroyed`; every
  call returns.
* The watchdog restarts the core **from data it read earlier**. Correct means: it
  restarts what is in effect, only after a sustained failure, and no more often
  than the cooldown allows.
* In the IPC server many goroutines write to one stream, GUIs disconnect and
  reconnect at any time, logging feeds back into the connection, and
  cancellation must reach a loop that waits in three different places. Correct
  means: a response reaches its requester, messages are whole, cancellation ends
  `Run`, a running kernel outlives its GUI.
* A **delay test** of a group shares slots and one deadline between any number of
  nodes while its caller waits. Correct means: the wait is bounded by the deadline, every
  node is reported and every slot is given back.
* The **interface monitor** of mobile hosts makes callbacks outside its lock while
  interfaces change and callbacks come and go. Correct means: no callback misses
  the interface in use.
* The **translator** is sequential; what makes it hard is that its output is a
  program: rules of which the first that matches decides, and references by name
  between outbounds, groups, DNS servers, rules and rule sets. Correct means: every
  reference resolves, nothing is refused or dropped that need not be, and a query or a
  connection is handled as the comments promise, in every mode, before and after an upgrade of
  a stored configuration.
* The socket path is shared by **processes** that start, end and are killed without
  a lock between them. Correct means: the process that serves is the one that the
  path leads to, and nothing is left behind.

All hazards, each at its line, are in `PROJECT.json`.

## 2. The modules

| Module | Models |
|---|---|
| `Service` | `core.Service`: the four operations, the subscriptions and the watchdog's restart, one atomic access per step |
| `Lifecycle` | what the service promises: the documented state machine with at most one serving instance |
| `Watchdog` | the loop of `healthWatchdog.run` with time |
| `IpcServer` | `Server.Run`, its connections, requests and notifications |
| `IpcSocket` | the processes on one socket path |
| `GroupDelay` | `TestGroupDelay`: its loop, the goroutines of the members, the slots and the deadline |
| `IfaceMonitor` | `callbackInterfaceMonitor`: reports, callbacks and the lock between them |
| `Lists` | two operators on lists that the modules of the translator share |
| `Outbounds` | proxies and groups as pure operators |
| `DnsConfig` | DNS servers and rules as pure operators, and how sing-box answers a query by them |
| `RouteConfig` | route rules and their assembly as pure operators, and how sing-box routes by them |
| `Upgrade` | the upgrade of stored DNS rules, and how the older sing-box answered |
| `Translator` | the steps of a conversion, on the four modules above |
| `MC*` | definitions for TLC: symmetry, values of records, families of inputs; `MCParts` puts `Watchdog`, `GroupDelay`, `IfaceMonitor` and `IpcSocket` side by side |
| `ServiceProofs` | theorems about `Service`: under any host, then under a serialized one (section 5), with the refinement of `Lifecycle` |
| `IpcServerProofs`, `IpcSocketProofs` | theorems about the module of that name |
| `CoreProofs` | theorems about `Watchdog`, `GroupDelay` and `IfaceMonitor` |
| `ListsProofs` | lemmas on lists: what is kept, what comes first, what is distinct |
| `TranslatorProofs` | theorems about the proxies and groups of a conversion and their clean-up |
| `ConfigProofs` | theorems about the configuration a conversion ends with |
| `DnsProofs` | theorems about its DNS section: resolvers, and who answers a query |

**`Service`.** A *frame* is a goroutine, or the `Stop` that its event callback makes;
`pc[f]` says which shared access comes next. `casState` is two steps, the swap
and the delivery (`EmitState`); during the delivery the callback frame of the
goroutine may run `Stop`, and the goroutine waits for it. `startMu` and `hooksMu`
are the holder or `None`. A call of `StartWithContent` is numbered when it is made and
names its instance, its content (`cfg`) and its rule-set proxy (`proxy`); `inst`
tells what became of each instance. The tail of `Stop` (`Swap`, `UnsubscribeHooks`,
`Close`) is used by the three places in which the code has it: `Stop`,
`Destroy` and the `Stop` inside `StartWithContent`, after which `StopReturn`
continues. Failures of translation, of the box and of `InitContext` are
disjuncts or actions of their own, and switched by constants. The constant
`Serialized` describes a host that overlaps nothing but starts: it calls
`InitContext`, `Stop` and `Destroy` when no other call of its own is in progress. The health
check of such a host is on or off from `InitContext` on (off by default in the code); when it
is on, the host neither stops nor destroys. This is a restriction of the host, not
of the watchdog, which may act at any time: a host that uses the health check has no means to
keep a restart out of its `Stop`, and finding 1 is what happens then.

**`Lifecycle`.** `ImplementsLifecycle` maps `phase` to `state` and `serving` to the
published instance while the state is `Running`.

**`Watchdog`.** Absolute times are kept as distances from now, so no bound on time is
needed. `Pass` is one unit of time; it is disabled while the loop has something
to take, so the loop reacts at once, but a probe takes up to its timeout and a
restart up to `MaxRestart`. The channel of a Go ticker holds one tick; `tick`
also keeps whether that tick was sent before `cooldownUntil`, because the code
compares the time in the tick, not the current time. `sinceEnd` and `sinceFail`
are history variables of the properties.

**`IpcServer`.** `Sender` is every goroutine that writes: the accept loop, the request
goroutines and one for the core. `send` is `Lock`, `Write`, `Unwind`, preceded by
`LoadTarget` for a notification. A `bufio.Writer` keeps its error, so the write
*after* the one that failed reports it; `send` then logs with the mutex held
and the log entry is delivered as a notification: `Write` goes back to
`LoadTarget` with the mutex held. `Notice` are
the messages without an id, which the accept loop handles itself. The service is one variable,
`kernel`; a start may leave it up or down, as it stops the running instance before it can
fail. `Fault` are errors from outside, which may or may not come: an `Accept` that fails on an
open listener, and a message or a connection that cannot be read.

**`IpcSocket`.** A step is one system call. `file` is the owner of what the path
names. The probe (`isSocketAlive`) takes a dial that fails for a dead process, whatever
made it fail. Nothing keeps processes apart in the model. Two history variables record what
the guarantees depend on: `overlapped`, that a process started or ended while another one
was at it, and `misled`, that a dial failed although the process at the path listened.
`NoUser` are the processes that find no user to grant access to.

**`GroupDelay`.** The caller's loop takes a slot (`Spawn`) or finds the context ended
(`Skip`); a Go `select` with both ready takes either, so a member may get a slot
after the deadline. The goroutine of a member measures, stores its value, gives the slot
back and ends, as the deferred calls run. Time passes (`Tick`) only while there is nothing but
tests to wait for, and a test returns when its context ends. The order in which the members are taken is
left open. The stop of the service ends the context of the batch.

**`IfaceMonitor`.** Every change of the interface has a number, a callback is told a
number. `Update` is the part of `update` under the lock; it leaves with a copy of the
list of callbacks, which `Notify` makes one by one while other threads report and
callbacks are registered and removed. What the list of the operating system says of
an index (`Resolved`) may differ from what the host reported.

**The translator.** `Outbounds`, `DnsConfig`, `RouteConfig` and `Upgrade` hold the
functions of the package under their names, on records that keep what the properties
tell apart: the protocol checks of a proxy are one flag, the address of a
server is "ip" or "domain", a rule has its mode, domains, suffixes, rule sets, query types,
action and target. A rule set is its tag. `Translator` runs the steps of
`translateFromConfig` one by one on the structure `t`, whose fields are those of the
`translation` type; each pass of the clean-up of groups is an action, so the
number of passes is the code's. `Detect` chooses between JSON, a list of URIs and YAML;
`Validate` refuses a configuration or lets it pass; `Reconvert` hands the result in again, as
a host does with a stored configuration. `Answer` and `RouteOf` model how sing-box
reads the rules, from how the comments of the translator describe it, and are marked
external; `LegacyAnswer` is the reading of the older version that `Upgrade` has to
preserve. Recursion is not needed: the fixpoint of the clean-up is a behaviour, and
the properties compare its end with a definition that has no passes
(`LargestSetOfGroups`). The loops that filter a list are one operator, `Keep`, which picks
the n-th kept element by counting instead of recursion, so that proofs can use it.

## 3. The runs

| Run | Bounds | Shows |
|---|---|---|
| `service_safety` | 2 goroutines and the watchdog, 3 starts, failures, re-entrant Stop; 2 million states | instances are closed once and by their taker; `Starting` always has an owner; the kept rule-set proxy is that of the published instance; no subscription is left behind; `Destroyed` is final |
| `service_ordered` | the same with 4 starts, failing init, `Serialized`; 250 thousand states | state, instance and last event agree when idle; one instance at a time; the latest start wins; `Lifecycle` is implemented |
| `service_live` | 2 goroutines, 2 starts, re-entrant Stop, fairness | every call returns |
| `service_stop_start` (violation) | one host goroutine and the watchdog, 2 starts, no failures | a Stop removes the instance that an overlapping restart of the watchdog has made, and the state stays `Running` |
| `service_health_stale` (violation) | one host, the watchdog | a health restart brings back an older configuration |
| `ipc_safety` | 2 connections, a request and a message without an id, failing writes and accepts; 4.3 million states | responses go to their requester, one writer per connection, the kernel is kept |
| `ipc_live` | 2 connections, 1 request, failing writes and accepts, fairness; 550 thousand states | cancellation ends `Run` unless a sender waits for itself; requests are answered |
| `ipc_self_wait` (violation) | 2 connections, 2 requests | a goroutine waits for a mutex it holds |
| `parts` | watchdog: interval 3, timeout 2, threshold 3 (by default), cooldown 9, restarts up to 8 units; delay test: 4 members, 2 slots, timeout 3; monitor: 2 threads, 2 callbacks, 2 changes, 4 reports; socket: 3 processes, one without a user, kills, dials that fail, any overlap; 590 thousand states | watchdog: spacing, sustained failure, a restart after a lasting failure, cancellation; delay test: ends in time and complete; monitor: no callback misses the interface in use; socket: only an overlap or a failed dial takes the path of a serving process, whom the path leads to lets his user in, nothing is left |
| `socket_steal` (violation) | 2 processes | a process serves that no path leads to, though no dial failed |
| `translator` | about 9 thousand inputs in five families, 18 queries and 9 destinations in 3 modes, each input converted and the result converted again | references resolve; refusals are only for names; the groups kept are the largest set possible; no stub is health checked; resolvers and ECH queries are direct; queries and connections are handled as promised; upgrades preserve answers, satisfy sing-box 1.14 and happen once |
| `dns_whitelist` (violation) | the inputs of `translator` | a domain outside the whitelist gets a fake address |

**Why the bounds are enough.** The longest races of the life cycle need a start in
progress, one call that interrupts it and a later start: two host goroutines, the
watchdog and three starts contain them. Merging by sequence number needs two
starts that wait for a third, hence four in `service_ordered`. `MaxCalls` is the
only bound on a counter of `Service`. Two connections are what "a GUI
reconnects while the answer to the old one is under way" needs; a third one
would behave like the second. In `Watchdog` the timeout is below the interval, as with the
defaults, the cooldown is longer than the failures that lead to a restart, and a restart
may be longer than the interval, so that a tick is kept during a probe, a restart
and the cooldown. Four members and two slots make a member wait, and a timeout of 3 units
lets tests end at different times; two changes let one overtake the other, and the proofs
of both modules have no bounds. Three groups, of which each names one or two others, a proxy, a stub
or nothing that exists, give the clean-up several passes and circles; the DNS
family takes the product of lists of servers (none, skipped, by address, by domain, of the system) with
fake-ip, its filter in both modes, hosts, HTTP/3 and two countries. Three processes are a server, its successor and a
process started by mistake.

**Deadlock.** The service runs check it, except `service_ordered`: a host with the health check on
does not stop, so nothing is left to do when its starts are used up. The IPC server, the
watchdog loop, a delay test, the processes of the socket and a conversion end for good, so
their runs do not.

**Fairness.**
* `Service`: weak fairness for the steps of each frame whose call has begun. The Go
  scheduler runs every runnable goroutine, box.New, Start and Close return, and the
  host returns from its callback; nothing forces the host to make a call. The
  steps that wait for `startMu` or `hooksMu` need no more: with a bounded number
  of starts the mutex is in the end free for good, and in the code
  `sync.Mutex` hands itself to a waiter that starved.
* `IpcServer`: weak fairness for each goroutine, strong fairness for `Lock`: a
  `sync.Mutex` hands itself to a waiter that starved. GUIs and cancellation have none. It
  assumes that a GUI that stays reads what it is sent: the code sets no
  deadline, so a client that does not read blocks its senders. `Fault` has no fairness. Writes may
  fail in `ipc_live` as they do in the code; the self-wait of `ipc_self_wait` can then stop the
  accept loop, which is the exception `CancelEndsRun` makes.
* `parts`: only the watchdog has fairness; weak fairness for time and for the loop, strong fairness for `Done`,
  as a Go `select` with two ready cases picks one at random.

## 4. Disagreements between code and documentation

1. **A Stop that overlaps a start** (`service_stop_start`). `Stop` moves the state at
   `core/service.go:468` and swaps `running` at `:476`. A whole `StartWithContent` fits in
   between; its instance is then taken and closed and the state stays
   `Running`. A comment at `:158-160` says that the atomics keep the three consistent, and `:140`
   that both may be called concurrently. In the run the host has one goroutine, and the start is a
   restart of the watchdog (`core/watchdog.go:97-100`, `181-192`); two goroutines of a host
   without health check do the same.
2. **A stale health restart** (`service_health_stale`). `restartForHealth` reads
   `running` before it takes its number, so it outranks a host start that
   completed in between, and puts the old configuration back.
   `core/watchdog.go:180` promises the configuration in effect.
3. **A self-wait in the IPC server** (`ipc_self_wait`). `send` logs a warning with the
   mutex of the connection held; the entry comes back on the same goroutine and wants that mutex.
   `core/logging.go:31-34` says that the callback must not block.
4. **A path taken from a live process** (`socket_steal`). Probe and removal are two
   steps, and the clean-up removes the path unconditionally; the comment at
   `ipc/listen_posix.go:25-26` says the probe prevents that. A dial that fails for
   another reason than a dead process (`:50-53`) has the same effect without any overlap.
5. **Fake addresses outside the whitelist** (`dns_whitelist`). `translator/dns.go:188` says of the
   whitelist of fake-ip-filter that only matched domains get a fake address and the rest uses
   the name server, and `:201-202` that all others go to a name server. The automatic
   rule for A and AAAA (`autoroute.go:233-234`) stands before the terminal rule (`:242`) and gives a
   fake address to the rest, too. `QueriesAnswered` leaves this case out.

Two more are in the models without a run of their own:

* `docs/api-reference.md:277` says that a new connection replaces the previous one;
  `Server.Run` serves one to its end before it accepts the next (`Accept` in `IpcServer`).
* `translator/dns.go:117` calls the resolver of a DNS server "IP-based UDP". With
  `default-nameserver: [system]` it is of type local, for only the default resolver is
  replaced (`dns.go:283-287`). `BootstrapIsDirect` promises no more than the code does.

## 5. What is proved

Every theorem holds for all values of the constants that satisfy the assumption of its
module: names are distinct, bounds are natural numbers, switches are Booleans. What a
theorem assumes beyond that stands in its `ASSUME` and below.

### The service

The first half of `ServiceProofs` holds for any set of hosts, any bound on the calls and every
setting of the switches.

* `TypeCorrect`, `InstancesClosedOnce`, `StartingOwned`, `ProxyKept`: the invariants
  `TypeOK`, `ClosedOnce`, `StartingIsOwned`, `ProxyMatchesRunning`. None is inductive.
  `ClosedOnce` needs to know that what a start publishes is not yet held by
  anybody (`FreshInv`), hence that every call belongs to one frame and that its
  instance does not exist before its box step (`CallInv`). `StartingIsOwned` and
  `ProxyInv` need that `startMu` is held exactly between `lock` and `unlock`, through the
  `Stop` inside (`LockInv`). `IInv` is their conjunction; `InitIInv` and
  `NextIInv` (one step per action) make it invariant.
* `HooksFollow`: `HooksFollowInstance`, if `InitContext` does not fail after its swap.
  `HooksInv` says that a subscription to an instance that is not published
  has a frame that will cancel it or that is about to check the instance again,
  and `HooksLockInv` that `hooksMu` is held there.
* `DestroyedFinal`: the action property `DestroyedIsTerminal`, under the same
  assumption; with a failing `InitContext` it is false (`InitFail` stores
  `Created` in any state).

The second half assumes `Serialized`: the host overlaps starts with each other and
with the restarts of the watchdog, calls the rest one at a time, and stops and destroys only when the
service runs without health check; its event callback may still call `Stop`. The run
`service_stop_start` shows that without the last restriction the properties are false even for a host
of one goroutine. That no watchdog acts during a `Stop` is not assumed: `HealthInv` says that where the host
stops there is none, and never will be. Any number of hosts, starts and failures is covered, a failing
`InitContext` included.

* `ConsistentWhenServed`, `NeverTwoInstances`, `LastEventTrue`, `LatestIsServed`: the
  invariants of `service_ordered`. They hold when nothing is in progress or at one
  place, so the invariant, `OInv`, says what a frame relies on wherever it is.
  `SoloInv` says which frames can be under way together. With it `DataInv` can
  speak of *the* frame that is in the middle of a transition: between the steps of a start
  exactly the instance it has made lives, also while a callback stops it, and when
  no frame is there the life cycle is settled. `CallbackInv` says that a callback finds something to stop only at
  the two events of a start. `EventInv` ties the last event to the state,
  except between a swap and its delivery. `LatestInv` says that an instance that is not
  the latest has a start behind it that will replace it.
* `LifecycleImplemented`: `Service` implements `Lifecycle`. Each step of the service is mapped to a
  step of the documented life cycle or a stutter.

### The IPC server and its socket

`IpcServerProofs` holds for any set of connections and requests, with write errors. `IpcServerAssumption` says that connections, requests and the names of
goroutines and places in the code are different values.

* `ServerTypeCorrect`, `ResponseReachesOriginator`, `WritersExclude`, `KernelIsKept`: the
  invariants of `ipc_safety`. `QueueInv` says that a message in an inbox waits there once and has no
  goroutine; `HolderInv` which mutexes a sender holds and why, the nested ones of the
  log entry included; `ResponseInv` where a response can still go, which makes
  a request keep the mutex of its connection while it logs; `ServedInv` that a request is
  of the connection being served or of a closed one; `EndInv` that `Run` has a reason to end.
* `SelfWaitIsOnBroken` gives the cause of finding 3: a sender waits for a mutex
  it holds only on a connection whose writer has kept an error.
* `NoCircularWait`: finding 3 is the only way in which senders wait for each other for ever. A sender
  that logs a failed write locks a second mutex with the first one held, so an order is needed. It
  is that in which `Run` accepted the connections: along a chain of waiting senders the
  connections they wait for get newer, because what is locked second is the active connection, and that is
  the latest (`LatestInv`, `LockOrder`). The order is a history variable, `older`, which the proof adds to
  the specification (`OrderedSpec`); no step of the server depends on it.

`IpcSocketProofs` has no further assumption: any set of processes, with kills, overlaps and dials that fail.
`ServingIsReachable` says that nothing but an overlap or such a dial takes a path away; `OrderInv`
says that until then at most one process is at its start or end, that whoever has made its
socket file is the one the path leads to, and that nobody serves while another process
changes the path. `ServingIsGranted` and `NothingIsLeft` hold whatever overlaps, with `SocketTypeCorrect`.

### Watchdog, delay test, interface monitor

`CoreProofs` proves of the watchdog `TypeOK` and `RestartsSpaced` for every configuration,
given or by default, and every duration of a restart. `CooldownInv` relates the
history `sinceEnd` to the remaining cooldown and says that a tick in the
channel that is not early was sent after the cooldown. `FailuresAreSustained` proves
`SustainedFailure` under `Timeout < Interval`, as with the defaults: `SpanInv` counts how long the failures so
far have lasted at least, in intervals (`Span`), at each point between two ticks. With a longer
timeout the next tick is already in the channel when a probe ends, and failures follow faster.

Of the delay test it proves `WholeBatchInTime` for any finite group, any number of slots and
any timeout. `MembersInv` says that a member is yet to come, tested or reported;
`SlotsInv` that `sem` counts the members that hold a slot; `ClockInv` that every test in
progress ends at the deadline of the batch, which is why time cannot pass it.

Of the interface monitor it proves `NoUpdateMissed` for any threads, callbacks and number of
changes. `InformedInv` says at every moment, not only when all is settled, that a callback that knows of an
interface has heard of the latest change, or has it ahead as its greeting or in the queue of a
thread; it holds at registration because the callback joins the list and
reads the interface under one lock.

### The translator

`TranslatorProofs` holds for every list of proxies, groups and URIs, of any length and with
any names. `InputsAssumption` says what parsing yields (strings, integers, flags). The
definitions are those that the run `translator` checks.

* `NothingUncheckedIsTested`: `NoStubTested`. `ProxiesInv` says that the tables of the
  translation are those of the input from the step that fills them on (`invalid`
  contains every stub), `GroupsInv` that no group that is a url test names a
  member of `invalid`, through every pass of the clean-up and in the groups made by default,
  `OutInv` that the configuration consists of these outbounds.
* `CleanupKeepsTheLargest`: `LargestSetOfGroups`. `CleanInv` relates each pass to the input: a
  group that is left comes from a group of the input and holds exactly what of
  its members is still there, and no set of groups that hold on to each other loses one
  (`CleanCleanup`). When a pass drops nothing, what is left is such a set itself, hence the
  largest. `HoldsInBase` shows that the property's own notion of what a group can hold on
  to, which looks only at the input, is that of the translator's tables; this
  is where names have to be unique. The proof showed that the property had been
  stated too widely: it ignored names that are empty and ports out of range, which the inputs of the run did not
  have.
* Lemmas: `ProxyTables`, `GroupTables`, `CleanupPass`, `OrderElements` (what the operators of
  `Outbounds` return) and, in `ListsProofs`, `KeepElements` (a filtered list has the elements
  asked for and no other), `KeepInjective`, `UniqueLength`, and where the first element with a
  property stands in a concatenation (`FirstFront`, `FirstBack`). The provers have no induction
  over data. For `Keep` the least natural number with a property takes its place
  (`LeastNumber`): the n-th kept element is at the least index up to which n elements are kept.

`ConfigProofs` goes on to the configuration a conversion ends with. All but the outbounds is
computed at one go from the input, the first group and the domains of the ECH queries;
`FormInv` says so from the step on that computes it, and what is left are facts about the
operators of `RouteConfig` and `DnsConfig`. The outbounds come about in many steps, of which
`LinkInv` says what each leaves: members of a group are proxies, groups or built-in
outbounds, a default is a member, and the first group is there. The clean-up breaks the first of these
in the middle of a pass, so the invariant says at each step which names a later step will look at.

* `NothingIsDangling`: `ReferencesResolve`. The members of groups and the final outbound come from
  `LinkInv`; rule sets because rules with a rule set that is not defined are filtered last, and
  name servers because a rule names one only under the condition under which it is defined.
* `RefusedOnlyForNames`: `RefusedForNamesOnly`. `validate` compares the number of tags with the
  number of different tags. `UniqueInv` follows the names from the input to the output through every
  pass, and `UniqueLength` turns "no two places with one tag" into that equation. With
  `NothingIsDangling` a refusal has no other reason left.
* `RoutesGoAsPromised`: `RoutesAsPromised`, in every mode, for every country and destination. Each lemma names
  the rule that matches first (`QueriesHijacked`, `ModeTaken`, `PrivateDirect`, `ChinaFirst`). The attempt
  showed that the property had been stated too widely: a site outside the country that is also in
  the list of private sites or of the domestic services goes direct, and a group that is called
  `REJECT` gets nothing (`assembleRoute` makes a rejection of it). `DestsAssumption` says that an
  address is in no set of domains.
* `TranslatedStarts`: `StartsOn114` for a configuration that was translated: url tests stay
  idle longer than their interval, no rule about addresses looks at anything but a response, and a rule that looks
  at one comes after a rule that obtains it from the same server. A stored configuration that is upgraded is checked by the run only.

`DnsProofs` is about the DNS section. Rules and resolvers name a server by its tag, so
everything rests on a tag standing for one server. Tags are a prefix and a number, and the provers have no
definition of `ToString` or of the concatenation of strings: `TagsAssumption` of `Translator` says
that different prefixes and numbers give different tags, none of them one of the four the
translator chooses itself. It is a fact about the writing of numbers, and TLC evaluates it for
the inputs of the run. From it `ServerTags` (every server of the section has a tag of its own) follows for every way `translateDNS` puts
the lists together, the servers without a number included.

* `ResolversAreDirect`: `BootstrapIsDirect`, what it says of the resolver of proxies and of those of DNS servers, if the entries of `default-nameserver` are addresses or stand for
  what the system or DHCP says (`AddressesOnly`), as mihomo requires and as in every input of the run. With a domain
  there the code makes a resolver that needs itself. The proof follows which server `preferUDPServer`
  picks and that `addBootstrapDNS` is called exactly where no listed server will do.
* `ECHQueriesStayDirect`: `ECHQueriesAreDirect`, without a hypothesis. The rule for the domains of ECH
  queries is the first that matches them unless the user has written one; its server has no detour and is
  encrypted if there is such a direct server. In mode Direct the rule of the switch is before it, whose server has
  no detour either.
* `QueriesGoAsPromised`: `QueriesAnswered`, without a hypothesis; the case of finding 5 is no part of the property. The rules are a concatenation of lists
  (mode switch, fake-ip-filter, hosts, ECH, country, addresses, terminal). `Taken` is what the rules of one list make of a query,
  given what comes after them; one lemma for each list says what that is, and the property is
  their composition, in the order in which `generateDNSRules` inserts them.

### Only model-checked

* Liveness under fairness, which is out of the prover's reach: `CallsReturn`,
  `CancelEndsRun`, `RequestAnswered`, `DownRestarts`, `CancelEndsLoop`.
* `UpgradePreserves`, `StoredIsStable`, and `StartsOn114` for an upgraded configuration: the upgrade
  folds over the stored rules, and a fold is a recursion over data, for which the provers
  have no induction.
* The five violations of section 4, which TLC finds as counterexamples.

## 6. Not modelled, and why

* Races the models contain without a property, since the code does not exclude
  them: a failing `InitContext` overwriting `Destroyed`; a watchdog that starts after a
  `Destroy` that ran before `healthCancel` was stored; a watchdog that restarts what the host
  stopped after the probe; a restart begun after the cancellation because the aborted
  probe counted as a failure; a restart of the watchdog that reads the instance of one start and
  the rule-set proxy of another, between `core/service.go:418` and `:298`; a GUI that leaves while the start
  it asked for is in progress, after which `Run` may end (`KernelKept` exempts it).
* A client that stays connected and does not read (section 3), and info entries
  of the accept loop, which would only be further notifications of `core`.
* The order in which a callback of the interface monitor hears of two overlapping
  updates: the code does not fix it.
* In the translator: general, TUN and API options, the fields of the protocols, the ranges of fake
  addresses, the strategy of DNS, base64 and URL parsing, warnings, downloads of rule sets.
  They are mapped field by field and nothing else depends on them. Groups that name each other in a
  circle keep each other; sing-box refuses them, `validate` does not look for
  circles. Entries of `default-nameserver` are addresses in the inputs, as mihomo requires.
* Country detection: one attempt, cached; its result is part of the inputs.
* `mobile`, the C library, the command line, the daemon, the installation of the service: they
  forward to the service and the IPC server or run system commands in a fixed
  order.
* Wire formats, marshalling, netlink messages, the Windows pipe: data without
  state.

## 7. Plan

Done, in this order: `Service` with `Lifecycle`, `ServiceProofs`, `IpcServer`,
`Watchdog`, `IpcSocket`, the translator (`Outbounds`, `DnsConfig`, `RouteConfig`, `Upgrade`,
`Translator`), `GroupDelay` and `IfaceMonitor`, `CoreProofs`, `IpcSocketProofs`,
`IpcServerProofs`, `TranslatorProofs`, `Lists` with `ListsProofs`, `ConfigProofs`, `DnsProofs`.

A theorem worth adding: `StartsOn114` for upgraded configurations, with the fold of `Upgrade` written
as a function of the number of rules read.

Models worth adding, by how much can go wrong in them:

1. A composition of `Service` and `IpcServer` that replaces `kernel` by the life cycle.
2. `MobileIpc` (`mobile/api.go:119-170`), composing the ends of `IpcServer` with `IpcSocket`:
   start, stop and start again while the old server still cleans up.
3. The walk of `currentProxyNode` along the groups, on the groups of `Outbounds`.
4. The stages of the service installation and what a failed one leaves.
