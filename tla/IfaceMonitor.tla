---------------------------- MODULE IfaceMonitor ----------------------------
(***************************************************************************)
(* The monitor of the default interface on mobile hosts                    *)
(* (callbackInterfaceMonitor of core/platform.go).  The host reports the   *)
(* default interface from any of its threads; parts of sing-box register   *)
(* callbacks, and remove them when their instance is closed.  The list of  *)
(* callbacks and the interface are guarded by a mutex, the callbacks are   *)
(* made without it.                                                        *)
(*                                                                         *)
(* Every change of the interface is numbered; a callback is told a number. *)
(***************************************************************************)
EXTENDS Naturals, FiniteSets

CONSTANTS
  Updater,     \* threads of the host
  Callback,    \* the callbacks, each of which is registered once
  Report,      \* what the host reports: [name, index], -1 for no interface
  OSName,      \* the name an index has in the list of the operating system
  Tun,         \* the name of the TUN interface of the kernel
  Nothing,     \* the nil pointer
  MaxUpdates   \* bound on the changes of the interface

VARIABLES
  iface,       \* the default interface, or Nothing
  version,     \* how often it was changed
  callbacks,   \* the callbacks in the list
  mine,        \* the names of the kernel's own interfaces
  updater,     \* what each thread is reporting, or Nothing
  queue,       \* the callbacks each thread has yet to make
  change,      \* the number of the change it makes them for
  client,      \* where the owner of each callback is
  greet,       \* the change a new callback has yet to be told, 0 for none
  told         \* the changes each callback was told

monitorVars == <<iface, version, callbacks, mine, updater, queue, change, client, greet, told>>

clientVars == <<callbacks, client, greet>>

NoIndex == 0 - 1

MonitorInit ==
  /\ iface = Nothing
  /\ version = 0
  /\ callbacks = {}
  /\ mine = {}
  /\ updater = [u \in Updater |-> Nothing]
  /\ queue = [u \in Updater |-> {}]
  /\ change = [u \in Updater |-> 0]
  /\ client = [c \in Callback |-> "new"]
  /\ greet = [c \in Callback |-> 0]
  /\ told = [c \in Callback |-> {}]

(***************************************************************************)
(* The kernel.                                                             *)
(***************************************************************************)
RegisterMyInterface ==
  /\ mine' = mine \cup {Tun}
  /\ UNCHANGED <<iface, version, callbacks, updater, queue, change, client, greet, told>>

\* mutant: the interface is read before the callback is in the list
PeekThenRegister(c) ==
  /\ \/ /\ client[c] = "new"
        /\ client' = [client EXCEPT ![c] = "push"]
        /\ greet' = [greet EXCEPT ![c] = IF iface = Nothing THEN 0 ELSE version]
        /\ UNCHANGED callbacks
     \/ /\ client[c] = "push"
        /\ callbacks' = callbacks \cup {c}
        /\ client' = [client EXCEPT ![c] = "greet"]
        /\ UNCHANGED greet
  /\ UNCHANGED <<iface, version, mine, updater, queue, change, told>>

\* The callback joins the list and the interface is read under one lock.
RegisterCallback(c) ==
  /\ client[c] = "new"
  /\ callbacks' = callbacks \cup {c}
  /\ greet' = [greet EXCEPT ![c] = IF iface = Nothing THEN 0 ELSE version]
  /\ client' = [client EXCEPT ![c] = "greet"]
  /\ UNCHANGED <<iface, version, mine, updater, queue, change, told>>

\* ... and then the callback is told of an interface, if there is one.
Greet(c) ==
  /\ client[c] = "greet"
  /\ client' = [client EXCEPT ![c] = "registered"]
  /\ told' = [told EXCEPT ![c] = @ \cup ({greet[c]} \ {0})]
  /\ UNCHANGED <<iface, version, callbacks, mine, updater, queue, change, greet>>

UnregisterCallback(c) ==
  /\ client[c] = "registered"
  /\ callbacks' = callbacks \ {c}
  /\ client' = [client EXCEPT ![c] = "gone"]
  /\ UNCHANGED <<iface, version, mine, updater, queue, change, greet, told>>

(***************************************************************************)
(* The host.                                                               *)
(***************************************************************************)

\* The interface of the kernel itself is not reported.
UpdateDefaultInterface(u) ==
  /\ updater[u] = Nothing
  /\ \E r \in Report :
       /\ r.name \notin mine
       /\ updater' = [updater EXCEPT ![u] = r]
  /\ UNCHANGED <<iface, version, callbacks, mine, queue, change, client, greet, told>>

\* What the report of a thread stands for: the interface the list of the
\* operating system has under its index, or just what was reported when there
\* is no list yet or no such index in it.
Resolved(r) ==
  IF r.index = NoIndex THEN {Nothing}
  ELSE {r, [name |-> OSName[r.index], index |-> r.index]}

\* The thread leaves the lock with a new interface and the callbacks to make.
SetInterface(u, new) ==
  /\ iface' = new
  /\ version' = version + 1
  /\ queue' = [queue EXCEPT ![u] = callbacks]
  /\ change' = [change EXCEPT ![u] = version + 1]
  /\ UNCHANGED updater

\* An interface that has not changed is not reported again; that there is
\* none is.
Update(u) ==
  /\ updater[u] # Nothing /\ change[u] = 0
  /\ version < MaxUpdates
  /\ \E new \in Resolved(updater[u]) :
       IF new # Nothing /\ new = iface
         THEN updater' = [updater EXCEPT ![u] = Nothing] /\ UNCHANGED <<iface, version, queue, change>>
         ELSE SetInterface(u, new)
  /\ UNCHANGED <<mine, clientVars, told>>

Notify(u) ==
  /\ \E c \in queue[u] :
       /\ queue' = [queue EXCEPT ![u] = @ \ {c}]
       /\ told' = [told EXCEPT ![c] = @ \cup {change[u]}]
  /\ UNCHANGED <<iface, version, mine, updater, change, clientVars>>

\* The router is told to reset its connections, unless there is no interface;
\* the thread returns.
ResetNetwork(u) ==
  /\ change[u] # 0 /\ queue[u] = {}
  /\ updater' = [updater EXCEPT ![u] = Nothing]
  /\ change' = [change EXCEPT ![u] = 0]
  /\ UNCHANGED <<iface, version, mine, queue, clientVars, told>>

MonitorNext ==
  \/ RegisterMyInterface
  \/ \E c \in Callback : RegisterCallback(c) \/ Greet(c) \/ UnregisterCallback(c)
  \/ \E u \in Updater : UpdateDefaultInterface(u) \/ Update(u) \/ Notify(u) \/ ResetNetwork(u)

MonitorSpec == MonitorInit /\ [][MonitorNext]_monitorVars

(***************************************************************************)
(* Properties.                                                             *)
(***************************************************************************)
Settled ==
  /\ \A u \in Updater : updater[u] = Nothing
  /\ \A c \in Callback : client[c] \in {"new", "registered", "gone"}

\* When nothing is under way, every callback in the list has been told of the
\* interface that is the default, also one that was registered while a report
\* was being handled; and one that was told of an interface knows when there
\* is none any more (platform.go:317-327, 345-397).
NoUpdateMissed ==
  Settled => \A c \in callbacks :
    iface # Nothing \/ told[c] # {} => version \in told[c]
=============================================================================
