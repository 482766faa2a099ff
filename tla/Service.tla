------------------------------ MODULE Service ------------------------------
(***************************************************************************)
(* The life cycle of core.Service (core/service.go) with the event         *)
(* subscriptions of core/events.go and the restarts of the health          *)
(* watchdog (core/watchdog.go).                                            *)
(*                                                                         *)
(* Several goroutines of the host call InitContext, StartWithContent, Stop *)
(* and Destroy; the watchdog calls StartWithContent too.  One step of this *)
(* module is one access to shared state: an operation on the atomics       *)
(* state, running, startSeq, lastRuleSetProxy, or on subCancel under       *)
(* hooksMu.  casState is two steps, the compare-and-swap and the           *)
(* synchronous delivery of the state event; the host may call Stop again   *)
(* from inside that delivery, and the caller waits until it returns.       *)
(*                                                                         *)
(* A call of StartWithContent is numbered when it is made, and the sing-box*)
(* instance it creates carries the number of the call.                     *)
(***************************************************************************)
EXTENDS Naturals, FiniteSets

CONSTANTS
  Host,          \* goroutines of the host program
  Watchdog,      \* the goroutine of the health watchdog
  None,          \* the nil pointer
  MaxCalls,      \* bound on the calls of StartWithContent
  HealthCheck,   \* whether the init options may set health_check.enabled
  InitCanFail,   \* whether InitContext may fail after its compare-and-swap
  StartCanFail,  \* whether translating, creating or starting may fail
  CanReenter,    \* whether the event callback may call Stop
  HostOps,       \* the operations the host calls
  Serialized     \* whether the host overlaps nothing but calls of StartWithContent,
                 \* and stops and destroys only a service without health check

ASSUME ServiceAssumption ==
  /\ Watchdog \notin Host
  /\ MaxCalls \in Nat
  /\ None \notin Nat
  /\ None \notin (Host \cup {Watchdog}) \X {"main", "callback"}
  /\ HostOps \subseteq {"init", "start", "stop", "destroy"}
  /\ {HealthCheck, InitCanFail, StartCanFail, CanReenter, Serialized} \subseteq BOOLEAN

Call  == 1..MaxCalls
State == {"Created", "Initialized", "Starting", "Running", "Destroyed"}

(***************************************************************************)
(* A frame is a goroutine, or a call of Stop that its event callback makes.*)
(***************************************************************************)
Frame   == (Host \cup {Watchdog}) \X {"main", "callback"}
HostMain == Host \X {"main"}
WatchdogMain == <<Watchdog, "main">>

VARIABLES
  state,      \* Service.state
  running,    \* Service.running: the published instance or None
  inst,       \* what became of the instance of each call
  startMu,    \* the frame that holds startMu, or None
  startSeq,   \* Service.startSeq
  seq,        \* mySeq of each call, 0 before it is taken
  lastProxy,  \* lastRuleSetProxy, as the call it came from (0: nil)
  cfg,        \* the content of each call, as the host call it came from
  proxy,      \* the ruleSetProxy of each call, as the call it came from
  hooksMu,    \* the frame that holds hooksMu, or None
  sub,        \* subCancel: the instance being observed, or None
  watchdog,   \* whether the watchdog loop runs (healthCancel is set)
  calls,      \* number of calls of StartWithContent made so far
  call,       \* the call each frame is executing, 0 if none
  old,        \* the instance each frame took out of running, or None
  event,      \* the state event the host received last
  pc          \* where each frame is

instVars  == <<running, inst, old>>
startVars == <<startMu, startSeq, seq, lastProxy>>
callVars  == <<cfg, proxy, calls, call>>
hookVars  == <<hooksMu, sub>>

vars == <<state, instVars, startVars, callVars, hookVars, watchdog, event, pc>>

Label ==
  {"idle", "init", "init_emit",
   "health", "health_proxy", "translate", "lock", "turn", "stop_prev", "start_cas",
   "starting_emit", "box", "publish", "run_cas", "running_emit", "undo_swap",
   "undo_close", "sub_lock", "sub_check", "sub_install", "keep_proxy", "fail_cas",
   "fail_emit", "unlock",
   "stop_call", "stop_emit", "swap", "unsub", "close",
   "destroy_emit", "health_cancel"}

TypeOK ==
  /\ state \in State
  /\ event \in State
  /\ running \in Call \cup {None}
  /\ inst \in [Call -> {"none", "live", "closed"}]
  /\ startMu \in Frame \cup {None}
  /\ startSeq \in Nat
  /\ seq \in [Call -> Nat]
  /\ lastProxy \in 0..MaxCalls
  /\ cfg \in [Call -> 0..MaxCalls]
  /\ proxy \in [Call -> 0..MaxCalls]
  /\ hooksMu \in Frame \cup {None}
  /\ sub \in Call \cup {None}
  /\ watchdog \in BOOLEAN
  /\ calls \in 0..MaxCalls
  /\ call \in [Frame -> 0..MaxCalls]
  /\ old \in [Frame -> Call \cup {None}]
  /\ pc \in [Frame -> Label]
  /\ \A f \in Frame : pc[f] \in {"undo_close", "close"} => old[f] # None

Init ==
  /\ state = "Created"
  /\ event = "Created"
  /\ running = None
  /\ inst = [n \in Call |-> "none"]
  /\ startMu = None
  /\ startSeq = 0
  /\ seq = [n \in Call |-> 0]
  /\ lastProxy = 0
  /\ cfg = [n \in Call |-> 0]
  /\ proxy = [n \in Call |-> 0]
  /\ hooksMu = None
  /\ sub = None
  /\ watchdog = FALSE
  /\ calls = 0
  /\ call = [f \in Frame |-> 0]
  /\ old = [f \in Frame |-> None]
  /\ pc = [f \in Frame |-> "idle"]

----------------------------------------------------------------------------
(***************************************************************************)
(* A frame waits while the callback it delivered an event to runs Stop.    *)
(***************************************************************************)
CallbackOf(f) == <<f[1], "callback">>

At(f, l) ==
  /\ pc[f] = l
  /\ f[2] = "main" => pc[CallbackOf(f)] = "idle"

Goto(f, l) == pc' = [pc EXCEPT ![f] = l]

(***************************************************************************)
(* emitState: the callback runs synchronously on the frame that made the   *)
(* transition to st.  It may call Stop; only then does the frame go on.    *)
(***************************************************************************)
Deliver(f, from, st, to) ==
  /\ At(f, from)
  /\ event' = st
  /\ \/ Goto(f, to)
     \/ /\ CanReenter /\ f[2] = "main"
        /\ pc' = [pc EXCEPT ![f] = to, ![CallbackOf(f)] = "stop_call"]
  /\ UNCHANGED <<state, instVars, startVars, callVars, hookVars, watchdog>>

EmitState(f) ==
  \/ Deliver(f, "init_emit", "Initialized", "idle")
  \/ Deliver(f, "starting_emit", "Starting", "box")
  \/ Deliver(f, "running_emit", "Running", "sub_lock")
  \/ Deliver(f, "fail_emit", "Initialized", "unlock")
  \/ Deliver(f, "stop_emit", "Initialized", "swap")
  \/ Deliver(f, "destroy_emit", "Destroyed", "health_cancel")

(***************************************************************************)
(* Stop is called by the host, by its callback and, in its turn, by        *)
(* StartWithContent, which then goes on.                                   *)
(***************************************************************************)
StopReturn(f) == IF startMu = f THEN "start_cas" ELSE "idle"

AtStop(f) ==
  \/ f \in HostMain /\ At(f, "idle")
  \/ At(f, "stop_prev")
  \/ At(f, "stop_call")

----------------------------------------------------------------------------
(* Mutants: slips that the properties must tell from the code *)

RunStore(f) ==  \* mutant: a plain Store(Running)
  /\ At(f, "run_cas")
  /\ state' = "Running"
  /\ Goto(f, "running_emit")
  /\ UNCHANGED <<instVars, startVars, callVars, hookVars, watchdog, event>>

UndoDrop(f) ==  \* mutant: the undone instance is not closed
  /\ At(f, "undo_swap")
  /\ running' = None
  /\ Goto(f, "keep_proxy")
  /\ UNCHANGED <<state, inst, old, startVars, callVars, hookVars, watchdog, event>>

TakeAnyTurn(f) ==  \* mutant: starts are not merged
  /\ At(f, "turn")
  /\ Goto(f, "stop_prev")
  /\ UNCHANGED <<state, instVars, startVars, callVars, hookVars, watchdog, event>>

ForgetProxy(f) ==  \* mutant: lastRuleSetProxy is not stored
  /\ At(f, "keep_proxy")
  /\ Goto(f, "unlock")
  /\ UNCHANGED <<state, instVars, startVars, callVars, hookVars, watchdog, event>>

FailStay(f) ==  \* mutant: a failed start leaves the state alone
  /\ At(f, "fail_cas")
  /\ Goto(f, "unlock")
  /\ UNCHANGED <<state, instVars, startVars, callVars, hookVars, watchdog, event>>

FailSilent(f) ==  \* mutant: the state of a failed start is stored without an event
  /\ At(f, "fail_cas")
  /\ state' = IF state = "Starting" THEN "Initialized" ELSE state
  /\ Goto(f, "unlock")
  /\ UNCHANGED <<instVars, startVars, callVars, hookVars, watchdog, event>>

SubscribeAlways(f) ==  \* mutant: no generation check
  /\ At(f, "sub_check")
  /\ Goto(f, "sub_install")
  /\ UNCHANGED <<state, instVars, startVars, callVars, hookVars, watchdog, event>>

LockedStop(f) ==  \* mutant: Stop waits for startMu
  /\ AtStop(f)
  /\ startMu \in {None, f}
  /\ state' = IF state \in {"Running", "Starting"} THEN "Initialized" ELSE state
  /\ Goto(f, IF state \in {"Running", "Starting"} THEN "stop_emit" ELSE StopReturn(f))
  /\ UNCHANGED <<instVars, startVars, callVars, hookVars, watchdog, event>>

LoadToClose(f) ==  \* mutant: running is loaded, not swapped out
  /\ At(f, "swap")
  /\ old' = [old EXCEPT ![f] = running]
  /\ Goto(f, "unsub")
  /\ UNCHANGED <<state, running, inst, startVars, callVars, hookVars, watchdog, event>>

UnsubscribeOnly(f) ==  \* mutant: the instance taken out is not closed
  /\ At(f, "unsub")
  /\ hooksMu = None
  /\ sub' = None
  /\ Goto(f, StopReturn(f))
  /\ UNCHANGED <<state, instVars, startVars, callVars, hooksMu, watchdog, event>>

CloseAnyway(f) ==  \* mutant: nothing taken out is not told from an instance
  /\ At(f, "unsub")
  /\ hooksMu = None
  /\ sub' = None
  /\ Goto(f, "close")
  /\ UNCHANGED <<state, instVars, startVars, callVars, hooksMu, watchdog, event>>

----------------------------------------------------------------------------
(* InitContext *)

(* The state moves before the options are looked at; a call in another     *)
(* state only returns an error.                                            *)
InitContext(f) ==
  /\ At(f, "idle")
  /\ state = "Created"
  /\ state' = "Initialized"
  /\ Goto(f, "init")
  /\ UNCHANGED <<instVars, startVars, callVars, hookVars, watchdog, event>>

(* Bad options or a directory that cannot be made: state.Store(Created),   *)
(* whatever the state has become meanwhile.                                *)
InitFail(f) ==
  /\ InitCanFail
  /\ At(f, "init")
  /\ state' = "Created"
  /\ Goto(f, "idle")
  /\ UNCHANGED <<instVars, startVars, callVars, hookVars, watchdog, event>>

InitDone(f) ==
  /\ At(f, "init")
  /\ watchdog' \in {FALSE, HealthCheck}
  /\ Goto(f, "init_emit")
  /\ UNCHANGED <<state, instVars, startVars, callVars, hookVars, event>>

----------------------------------------------------------------------------
(* StartWithContent *)

StartWithContent(f) ==
  /\ At(f, "idle")
  /\ calls < MaxCalls
  /\ calls' = calls + 1
  /\ call' = [call EXCEPT ![f] = calls + 1]
  /\ cfg' = [cfg EXCEPT ![calls + 1] = calls + 1]
  /\ proxy' = [proxy EXCEPT ![calls + 1] = calls + 1]
  /\ Goto(f, "translate")
  /\ UNCHANGED <<state, instVars, startVars, hookVars, watchdog, event>>

TranslateFail(f) ==
  /\ StartCanFail
  /\ At(f, "translate")
  /\ call' = [call EXCEPT ![f] = 0]
  /\ Goto(f, "idle")
  /\ UNCHANGED <<state, instVars, startVars, cfg, proxy, calls, hookVars, watchdog,
                 event>>

(* The sequence number is taken once the translation is done. *)
TakeSeq(f) ==
  /\ At(f, "translate")
  /\ startSeq' = startSeq + 1
  /\ seq' = [seq EXCEPT ![call[f]] = startSeq + 1]
  /\ Goto(f, "lock")
  /\ UNCHANGED <<state, instVars, startMu, lastProxy, callVars, hookVars, watchdog,
                 event>>

LockStart(f) ==
  /\ At(f, "lock")
  /\ startMu = None
  /\ startMu' = f
  /\ Goto(f, "turn")
  /\ UNCHANGED <<state, instVars, startSeq, seq, lastProxy, callVars, hookVars,
                 watchdog, event>>

(* A call that is no longer the latest returns nil. *)
CheckTurn(f) ==
  /\ At(f, "turn")
  /\ Goto(f, IF seq[call[f]] = startSeq THEN "stop_prev" ELSE "unlock")
  /\ UNCHANGED <<state, instVars, startVars, callVars, hookVars, watchdog, event>>

(* casState(Initialized, Starting), or the error "start: invalid state". *)
StartCas(f) ==
  /\ At(f, "start_cas")
  /\ \/ /\ state = "Initialized"
        /\ state' = "Starting"
        /\ Goto(f, "starting_emit")
     \/ /\ state # "Initialized"
        /\ Goto(f, "unlock")
        /\ UNCHANGED state
  /\ UNCHANGED <<instVars, startVars, callVars, hookVars, watchdog, event>>

(* Parsing, box.New and Box.Start; a box that fails to start leaves nothing *)
(* behind.                                                                 *)
StartBox(f) ==
  /\ At(f, "box")
  /\ \/ /\ inst' = [inst EXCEPT ![call[f]] = "live"]
        /\ Goto(f, "publish")
     \/ /\ StartCanFail
        /\ Goto(f, "fail_cas")
        /\ UNCHANGED inst
  /\ UNCHANGED <<state, running, old, startVars, callVars, hookVars, watchdog,
                 event>>

(* running.Store(rs) *)
Publish(f) ==
  /\ At(f, "publish")
  /\ running' = call[f]
  /\ Goto(f, "run_cas")
  /\ UNCHANGED <<state, inst, old, startVars, callVars, hookVars, watchdog, event>>

(* casState(Starting, Running); it fails when a Stop or a Destroy came in   *)
(* between, and then whoever swaps running out closes the instance.        *)
RunCas(f) ==
  /\ At(f, "run_cas")
  /\ \/ /\ state = "Starting"
        /\ state' = "Running"
        /\ Goto(f, "running_emit")
     \/ /\ state # "Starting"
        /\ Goto(f, "undo_swap")
        /\ UNCHANGED state
  /\ UNCHANGED <<instVars, startVars, callVars, hookVars, watchdog, event>>

UndoSwap(f) ==
  /\ At(f, "undo_swap")
  /\ old' = [old EXCEPT ![f] = running]
  /\ running' = None
  /\ Goto(f, IF running = None THEN "keep_proxy" ELSE "undo_close")
  /\ UNCHANGED <<state, inst, startVars, callVars, hookVars, watchdog, event>>

UndoClose(f) ==
  /\ At(f, "undo_close")
  /\ inst' = [inst EXCEPT ![old[f]] = "closed"]
  /\ old' = [old EXCEPT ![f] = None]
  /\ Goto(f, "keep_proxy")
  /\ UNCHANGED <<state, running, startVars, callVars, hookVars, watchdog, event>>

(* lastRuleSetProxy.Store, also after an undone start. *)
KeepProxy(f) ==
  /\ At(f, "keep_proxy")
  /\ lastProxy' = proxy[call[f]]
  /\ Goto(f, "unlock")
  /\ UNCHANGED <<state, instVars, startMu, startSeq, seq, callVars, hookVars,
                 watchdog, event>>

(* casState(Starting, Initialized) of a start that failed. *)
FailCas(f) ==
  /\ At(f, "fail_cas")
  /\ \/ /\ state = "Starting"
        /\ state' = "Initialized"
        /\ Goto(f, "fail_emit")
     \/ /\ state # "Starting"
        /\ Goto(f, "unlock")
        /\ UNCHANGED state
  /\ UNCHANGED <<instVars, startVars, callVars, hookVars, watchdog, event>>

UnlockStart(f) ==
  /\ At(f, "unlock")
  /\ startMu' = None
  /\ call' = [call EXCEPT ![f] = 0]
  /\ Goto(f, "idle")
  /\ UNCHANGED <<state, instVars, startSeq, seq, lastProxy, cfg, proxy, calls,
                 hookVars, watchdog, event>>

----------------------------------------------------------------------------
(* subscribeHooks *)

SubscribeLock(f) ==
  /\ At(f, "sub_lock")
  /\ hooksMu = None
  /\ hooksMu' = f
  /\ sub' = None
  /\ Goto(f, "sub_check")
  /\ UNCHANGED <<state, instVars, startVars, callVars, watchdog, event>>

(* Give up when running no longer holds the instance just published. *)
SubscribeCheck(f) ==
  /\ At(f, "sub_check")
  /\ \/ /\ running = call[f]
        /\ Goto(f, "sub_install")
        /\ UNCHANGED hooksMu
     \/ /\ running # call[f]
        /\ hooksMu' = None
        /\ Goto(f, "keep_proxy")
  /\ UNCHANGED <<state, instVars, startVars, callVars, sub, watchdog, event>>

(* Without a manager to observe, the subscription is cancelled again.      *)
SubscribeInstall(f) ==
  /\ At(f, "sub_install")
  /\ sub' \in {call[f], None}
  /\ hooksMu' = None
  /\ Goto(f, "keep_proxy")
  /\ UNCHANGED <<state, instVars, startVars, callVars, watchdog, event>>

----------------------------------------------------------------------------
(* Stop *)

(* The loop of Load and casState ends at the first compare-and-swap that    *)
(* succeeds, or at the first load of another state.                        *)
Stop(f) ==
  /\ AtStop(f)
  /\ \/ /\ state \in {"Running", "Starting"}
        /\ state' = "Initialized"
        /\ Goto(f, "stop_emit")
     \/ /\ state \notin {"Running", "Starting"}
        /\ Goto(f, StopReturn(f))
        /\ UNCHANGED state
  /\ UNCHANGED <<instVars, startVars, callVars, hookVars, watchdog, event>>

(* running.Swap(nil), before the subscriptions are cancelled. *)
Swap(f) ==
  /\ At(f, "swap")
  /\ old' = [old EXCEPT ![f] = running]
  /\ running' = None
  /\ Goto(f, "unsub")
  /\ UNCHANGED <<state, inst, startVars, callVars, hookVars, watchdog, event>>

UnsubscribeHooks(f) ==
  /\ At(f, "unsub")
  /\ hooksMu = None
  /\ sub' = None
  /\ Goto(f, IF old[f] = None THEN StopReturn(f) ELSE "close")
  /\ UNCHANGED <<state, instVars, startVars, callVars, hooksMu, watchdog, event>>

Close(f) ==
  /\ At(f, "close")
  /\ inst' = [inst EXCEPT ![old[f]] = "closed"]
  /\ old' = [old EXCEPT ![f] = None]
  /\ Goto(f, StopReturn(f))
  /\ UNCHANGED <<state, running, startVars, callVars, hookVars, watchdog, event>>

----------------------------------------------------------------------------
(* Destroy: its tail is that of Stop *)

Destroy(f) ==
  /\ At(f, "idle")
  /\ state # "Destroyed"
  /\ state' = "Destroyed"
  /\ Goto(f, "destroy_emit")
  /\ UNCHANGED <<instVars, startVars, callVars, hookVars, watchdog, event>>

CancelHealth(f) ==
  /\ At(f, "health_cancel")
  /\ watchdog' = FALSE
  /\ Goto(f, "swap")
  /\ UNCHANGED <<state, instVars, startVars, callVars, hookVars, event>>

----------------------------------------------------------------------------
(* The health watchdog *)

(* The probes of a running service failed often enough; the restart is a    *)
(* call of StartWithContent, whose content is still to be read.            *)
HealthFails(f) ==
  /\ At(f, "idle")
  /\ watchdog
  /\ state = "Running" /\ running # None
  /\ calls < MaxCalls
  /\ calls' = calls + 1
  /\ call' = [call EXCEPT ![f] = calls + 1]
  /\ Goto(f, "health")
  /\ UNCHANGED <<state, instVars, startVars, cfg, proxy, hookVars, watchdog, event>>

(* restartForHealth: start again what is published now ... *)
RestartForHealth(f) ==
  /\ At(f, "health")
  /\ \/ /\ running = None
        /\ call' = [call EXCEPT ![f] = 0]
        /\ Goto(f, "idle")
        /\ UNCHANGED cfg
     \/ /\ running # None
        /\ cfg' = [cfg EXCEPT ![call[f]] = cfg[running]]
        /\ Goto(f, "health_proxy")
        /\ UNCHANGED call
  /\ UNCHANGED <<state, instVars, startVars, proxy, calls, hookVars, watchdog,
                 event>>

(* ... with the rule-set proxy that was kept last. *)
LoadProxy(f) ==
  /\ At(f, "health_proxy")
  /\ proxy' = [proxy EXCEPT ![call[f]] = lastProxy]
  /\ Goto(f, "translate")
  /\ UNCHANGED <<state, instVars, startVars, cfg, calls, call, hookVars, watchdog,
                 event>>

----------------------------------------------------------------------------
StartStep(f) ==
  \/ TranslateFail(f) \/ TakeSeq(f) \/ LockStart(f) \/ CheckTurn(f) \/ StartCas(f)
  \/ StartBox(f) \/ Publish(f) \/ RunCas(f) \/ UndoSwap(f) \/ UndoClose(f)
  \/ SubscribeLock(f) \/ SubscribeCheck(f) \/ SubscribeInstall(f)
  \/ KeepProxy(f) \/ FailCas(f) \/ UnlockStart(f)

(* A step that a frame takes by itself once its call has begun. *)
Step(f) ==
  \/ StartStep(f)
  \/ InitFail(f) \/ InitDone(f)
  \/ EmitState(f)
  \/ pc[f] # "idle" /\ Stop(f)
  \/ Swap(f) \/ UnsubscribeHooks(f) \/ Close(f)
  \/ CancelHealth(f)
  \/ RestartForHealth(f) \/ LoadProxy(f)

Quiescent == \A f \in Frame : pc[f] = "idle"

(***************************************************************************)
(* A serialized host calls InitContext, Stop and Destroy when no call of   *)
(* its own is in progress, and starts nothing before they return.  It may  *)
(* run the health check, which is off by default, but then it neither stops*)
(* nor destroys the service: nothing keeps a restart of the watchdog out of*)
(* a Stop, not even in a host that calls one thing at a time.              *)
(***************************************************************************)
HostIdle == \A f \in Frame : f[1] # Watchdog => pc[f] = "idle"

MayInit  == Serialized => HostIdle
MayStop  == Serialized => HostIdle /\ ~watchdog
MayStart == Serialized =>
              \A f \in Frame : f[1] # Watchdog /\ pc[f] # "idle" => call[<<f[1], "main">>] # 0

HostCall(f) ==
  \/ "init" \in HostOps /\ MayInit /\ InitContext(f)
  \/ "start" \in HostOps /\ MayStart /\ StartWithContent(f)
  \/ "stop" \in HostOps /\ MayStop /\ Stop(f)
  \/ "destroy" \in HostOps /\ MayStop /\ Destroy(f)

Next ==
  \/ \E f \in Frame : Step(f)
  \/ \E f \in HostMain : pc[f] = "idle" /\ HostCall(f)
  \/ HealthFails(WatchdogMain)

Spec == Init /\ [][Next]_vars

(***************************************************************************)
(* A call that has begun goes on: Go runs every runnable goroutine, its    *)
(* mutexes are handed over, box.New, Start and Close return and the host   *)
(* returns from its callback.  Nothing forces the host to make a call.     *)
(***************************************************************************)
FairSpec == Spec /\ \A f \in Frame : WF_vars(Step(f))

----------------------------------------------------------------------------
(* Properties *)

Live == {n \in Call : inst[n] = "live"}

(***************************************************************************)
(* The frame that took an instance out of running is the only one that     *)
(* will close it, and closes it once: the instance is live, is not         *)
(* published any more, and no other frame holds it; what is published is   *)
(* never closed (running.Swap in Stop, Destroy and startWithJSON).         *)
(***************************************************************************)
ClosedOnce ==
  /\ running # None => inst[running] = "live"
  /\ \A f \in Frame : old[f] # None =>
       /\ inst[old[f]] = "live"
       /\ old[f] # running
       /\ \A g \in Frame \ {f} : old[g] # old[f]

(***************************************************************************)
(* When no call is in progress, the subscription goroutines of             *)
(* subscribeHooks observe the published instance or do not exist: a Stop   *)
(* or a Destroy racing the subscription leaves none behind.                *)
(***************************************************************************)
HooksFollowInstance == Quiescent => sub \in {None, running}

(***************************************************************************)
(* The service says Starting only while the holder of startMu is between   *)
(* its two compare-and-swaps, so no failure or race leaves it there.       *)
(***************************************************************************)
StartingIsOwned ==
  state = "Starting" =>
    /\ startMu # None
    /\ pc[startMu] \in {"starting_emit", "box", "publish", "run_cas", "fail_cas"}

(***************************************************************************)
(* Between starts, the rule-set proxy kept for a health restart is the one *)
(* the published instance was started with (lastRuleSetProxy).             *)
(***************************************************************************)
ProxyMatchesRunning ==
  startMu = None /\ running # None => lastProxy = proxy[running]

(***************************************************************************)
(* When no call is in progress the three pieces of life-cycle state agree: *)
(* Running means a published instance and the published instance is the    *)
(* only live one (the comment of startMu in core/service.go).              *)
(***************************************************************************)
ConsistentWhenIdle ==
  Quiescent => /\ state = "Running" <=> running # None
               /\ Live = {running} \ {None}

(***************************************************************************)
(* Two sing-box instances never live at once: a restart closes the old one *)
(* before it creates the next (StartWithContent).                          *)
(***************************************************************************)
OneInstance == Cardinality(Live) <= 1

(***************************************************************************)
(* When no call is in progress the last state event the host received is   *)
(* the state (casState emits after it swapped).                            *)
(***************************************************************************)
LastEventIsState == Quiescent => event = state

(***************************************************************************)
(* Destroyed is final (comment of Destroy, docs/api-reference.md), as long *)
(* as no InitContext fails after the Destroy and stores Created.           *)
(***************************************************************************)
DestroyedIsTerminal == [][state = "Destroyed" => state' = "Destroyed"]_vars

(***************************************************************************)
(* Concurrent calls of StartWithContent are merged by sequence number and  *)
(* the latest wins (comment of StartWithContent): when all have returned,  *)
(* the published instance is that of the highest number taken, also when   *)
(* that call did not get startMu last.                                     *)
(***************************************************************************)
LatestStartWins == Quiescent /\ running # None => seq[running] = startSeq

(***************************************************************************)
(* The watchdog restarts with the configuration in effect (comment of      *)
(* restartForHealth): the one it is about to start is the one published.   *)
(***************************************************************************)
HealthRestartsCurrent ==
  pc[WatchdogMain] = "stop_prev" /\ running # None
    => cfg[call[WatchdogMain]] = cfg[running]

(***************************************************************************)
(* The service implements the documented life cycle: what serves is the    *)
(* published instance while the state is Running.                          *)
(***************************************************************************)
Documented == INSTANCE Lifecycle
  WITH Instance <- Call,
       phase <- state,
       serving <- IF state = "Running" THEN running ELSE None

ImplementsLifecycle == Documented!Spec

(***************************************************************************)
(* Every call returns: no start waits for ever on startMu, no subscription *)
(* on hooksMu, and Stop called from the event callback of a start that     *)
(* holds startMu comes back.                                               *)
(***************************************************************************)
CallsReturn == \A f \in Frame : pc[f] # "idle" ~> pc[f] = "idle"
============================================================================
