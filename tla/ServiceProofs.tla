--------------------------- MODULE ServiceProofs ---------------------------
(***************************************************************************)
(* Theorems about core.Service for any number of host goroutines, any      *)
(* bound on the calls and every setting of the switches: first what holds  *)
(* of every host, then what holds of one that overlaps only starts and that*)
(* stops and destroys only a service without a health check.               *)
(***************************************************************************)
EXTENDS Service, FiniteSetTheorems, TLAPS

(* Where a frame holds startMu, apart from the Stop it calls there. *)
Held == {"turn", "stop_prev", "start_cas", "starting_emit", "box", "publish", "run_cas",
         "running_emit", "undo_swap", "undo_close", "sub_lock", "sub_check",
         "sub_install", "keep_proxy", "fail_cas", "fail_emit", "unlock"}

StopTail == {"stop_emit", "swap", "unsub", "close"}

(* Where a frame has a call whose instance does not exist yet. *)
BeforeBox == {"health", "health_proxy", "translate", "lock", "turn", "stop_prev",
              "start_cas", "starting_emit", "box"}

(* Where a frame has a call whose instance exists. *)
AfterBox == {"publish", "run_cas", "running_emit", "undo_swap", "undo_close",
             "sub_lock", "sub_check", "sub_install", "keep_proxy"}

(* startMu is held exactly where the code says, by at most one frame. *)
LockInv ==
  /\ \A f \in Frame : pc[f] \in Held => startMu = f
  /\ \A f \in Frame : startMu = f => pc[f] \in Held \cup StopTail

(* Every call belongs to one frame, and its instance is created by it. *)
CallInv ==
  /\ \A f \in Frame : call[f] <= calls
  /\ \A n \in Call : n > calls => inst[n] = "none"
  /\ \A f, g \in Frame : call[f] = call[g] /\ f # g => call[f] = 0
  /\ \A f \in Frame : pc[f] \in BeforeBox \cup AfterBox => call[f] \in Call
  /\ \A f \in Frame : pc[f] \in BeforeBox => inst[call[f]] = "none"
  /\ \A f \in Frame : pc[f] \in AfterBox => inst[call[f]] # "none"
  /\ \A f \in Frame : startMu = f /\ pc[f] \in StopTail =>
        call[f] \in Call /\ inst[call[f]] = "none"

(* An instance that is not published yet is nobody else's. *)
FreshInv ==
  \A f \in Frame : pc[f] = "publish" =>
    /\ inst[call[f]] = "live"
    /\ running # call[f]
    /\ \A g \in Frame : old[g] # call[f]

(* From the publication of its instance until lastRuleSetProxy is stored. *)
Publishing == {"run_cas", "running_emit", "undo_swap", "undo_close", "sub_lock",
               "sub_check", "sub_install", "keep_proxy"}

(* Outside that window the stored proxy is that of the published instance. *)
ProxyInv ==
  /\ \A f \in Frame : pc[f] \in Publishing => running \in {None, call[f]}
  /\ running # None /\ (startMu # None => pc[startMu] \notin Publishing)
       => lastProxy = proxy[running]

IInv == /\ TypeOK /\ LockInv /\ CallInv /\ FreshInv
        /\ ClosedOnce /\ StartingIsOwned /\ ProxyInv

(* A Stop or a Destroy that has moved the state and will cancel the hooks. *)
Cancelling ==
  \E g \in Frame : pc[g] \in {"destroy_emit", "health_cancel", "stop_emit", "swap", "unsub"}

(* hooksMu is held exactly while subscribeHooks decides. *)
HooksLockInv ==
  /\ \A f \in Frame : pc[f] \in {"sub_check", "sub_install"} => hooksMu = f /\ sub = None
  /\ \A f \in Frame : hooksMu = f => pc[f] \in {"sub_check", "sub_install"}

(* A subscription outlives its instance only while somebody will cancel it. *)
HooksInv ==
  /\ sub # None => inst[sub] # "none"
  /\ \A f \in Frame : pc[f] \in {"publish", "run_cas", "undo_swap"} => sub # call[f]
  /\ sub # None /\ sub # running =>
       Cancelling \/ \E g \in Frame : pc[g] \in {"run_cas", "running_emit", "sub_lock"}
  /\ \A f \in Frame : pc[f] = "sub_install" /\ running # call[f] =>
       \E g \in Frame : pc[g] = "unsub"
  /\ \A f \in Frame : pc[f] \in {"starting_emit", "box", "publish", "run_cas"}
                        /\ state # "Starting" /\ sub # None => Cancelling

(* None is neither a call nor a frame, and calls are positive numbers. *)
LEMMA ConstantFacts ==
  /\ MaxCalls \in Nat /\ HealthCheck \in BOOLEAN
  /\ None \notin Call
  /\ None \notin Frame
  /\ \A n \in Call : n \in Nat /\ n # 0
  BY ServiceAssumption DEF Call, Frame

(* Delivering an event moves the frame that delivers it, and nothing but an *)
(* idle callback besides.                                                   *)
LEMMA EmitMoves ==
  ASSUME NEW f \in Frame, pc \in [Frame -> Label], EmitState(f)
  PROVE  /\ UNCHANGED <<state, instVars, startVars, callVars, hookVars, watchdog>>
         /\ \A g \in Frame :
              \/ pc'[g] = pc[g]
              \/ pc[g] = "idle" /\ pc'[g] = "stop_call"
              \/ pc[g] = "init_emit" /\ pc'[g] = "idle"
              \/ pc[g] = "starting_emit" /\ pc'[g] = "box"
              \/ pc[g] = "running_emit" /\ pc'[g] = "sub_lock"
              \/ pc[g] = "fail_emit" /\ pc'[g] = "unlock"
              \/ pc[g] = "stop_emit" /\ pc'[g] = "swap"
              \/ pc[g] = "destroy_emit" /\ pc'[g] = "health_cancel"
<1>1. ASSUME NEW from, NEW st, NEW to, Deliver(f, from, st, to)
      PROVE  /\ UNCHANGED <<state, instVars, startVars, callVars, hookVars, watchdog>>
             /\ \A g \in Frame : \/ pc'[g] = pc[g]
                                 \/ pc[g] = "idle" /\ pc'[g] = "stop_call"
                                 \/ pc[g] = from /\ pc'[g] = to
  BY <1>1 DEF Deliver, At, Goto
<1>2. CASE Deliver(f, "init_emit", "Initialized", "idle")
  BY <1>1, <1>2
<1>3. CASE Deliver(f, "starting_emit", "Starting", "box")
  BY <1>1, <1>3
<1>4. CASE Deliver(f, "running_emit", "Running", "sub_lock")
  BY <1>1, <1>4
<1>5. CASE Deliver(f, "fail_emit", "Initialized", "unlock")
  BY <1>1, <1>5
<1>6. CASE Deliver(f, "stop_emit", "Initialized", "swap")
  BY <1>1, <1>6
<1>7. CASE Deliver(f, "destroy_emit", "Destroyed", "health_cancel")
  BY <1>1, <1>7
<1> QED
  BY <1>2, <1>3, <1>4, <1>5, <1>6, <1>7 DEF EmitState

(* The initial state satisfies the inductive invariant. *)
LEMMA InitIInv == Init => IInv
<1> SUFFICES ASSUME Init PROVE IInv
  OBVIOUS
<1> USE ConstantFacts
<1>1. TypeOK
  <2>1. inst \in [Call -> {"none", "live", "closed"}] /\ pc \in [Frame -> Label]
    BY DEF Init, Label
  <2>2. seq \in [Call -> Nat] /\ cfg \in [Call -> 0..MaxCalls]
    BY DEF Init
  <2>3. proxy \in [Call -> 0..MaxCalls] /\ call \in [Frame -> 0..MaxCalls]
    BY DEF Init
  <2>4. state \in State /\ event \in State /\ watchdog \in BOOLEAN
    BY DEF Init, State
  <2>5. old \in [Frame -> Call \cup {None}]
    BY DEF Init
  <2> QED
    BY <2>1, <2>2, <2>3, <2>4, <2>5 DEF Init, TypeOK
<1>2. LockInv /\ FreshInv /\ ClosedOnce /\ StartingIsOwned /\ ProxyInv
  BY DEF Init, LockInv, FreshInv, ClosedOnce, StartingIsOwned, ProxyInv, Held,
     StopTail,
         Publishing
<1>3. CallInv
  BY DEF Init, CallInv, BeforeBox, AfterBox, StopTail
<1> QED
  BY <1>1, <1>2, <1>3 DEF IInv

(* Every step keeps the inductive invariant. *)
LEMMA NextIInv == IInv /\ [Next]_vars => IInv'
<1> SUFFICES ASSUME IInv, [Next]_vars PROVE IInv'
  OBVIOUS
<1> USE ConstantFacts
    DEF At, Goto, instVars, startVars, callVars, hookVars, IInv, TypeOK, Held,
        StopTail, BeforeBox, AfterBox, Publishing
<1>1. ASSUME NEW f \in Frame, InitContext(f) PROVE IInv'
  <2>1. TypeOK'
    BY <1>1 DEF InitContext, LockInv, CallInv, State, Label
  <2>2. LockInv' /\ CallInv'
    BY <1>1 DEF InitContext, LockInv, CallInv, FreshInv, ClosedOnce
  <2>3. FreshInv' /\ ClosedOnce'
    BY <1>1 DEF InitContext, LockInv, CallInv, FreshInv, ClosedOnce
  <2>4. StartingIsOwned' /\ ProxyInv'
    BY <1>1 DEF InitContext, LockInv, CallInv, FreshInv, ClosedOnce,
       StartingIsOwned, ProxyInv
  <2> QED
    BY <2>1, <2>2, <2>3, <2>4
<1>2. ASSUME NEW f \in Frame, InitFail(f) PROVE IInv'
  <2>1. TypeOK'
    BY <1>2 DEF InitFail, LockInv, CallInv, State, Label
  <2>2. LockInv' /\ CallInv'
    BY <1>2 DEF InitFail, LockInv, CallInv, FreshInv, ClosedOnce
  <2>3. FreshInv' /\ ClosedOnce'
    BY <1>2 DEF InitFail, LockInv, CallInv, FreshInv, ClosedOnce
  <2>4. StartingIsOwned' /\ ProxyInv'
    BY <1>2 DEF InitFail, LockInv, CallInv, FreshInv, ClosedOnce,
       StartingIsOwned, ProxyInv
  <2> QED
    BY <2>1, <2>2, <2>3, <2>4
<1>3. ASSUME NEW f \in Frame, InitDone(f) PROVE IInv'
  <2>1. TypeOK'
    <3>1. watchdog' \in BOOLEAN /\ pc' \in [Frame -> Label]
      BY <1>3 DEF InitDone, Label
    <3>2. UNCHANGED <<state, instVars, startVars, callVars, hookVars, event>>
      BY <1>3 DEF InitDone
    <3>3. \A g \in Frame : pc'[g] \in {"undo_close", "close"} => old'[g] # None
      BY <1>3 DEF InitDone
    <3> QED
      BY <3>1, <3>2, <3>3
  <2>2. LockInv' /\ CallInv'
    BY <1>3 DEF InitDone, LockInv, CallInv, FreshInv, ClosedOnce
  <2>3. FreshInv' /\ ClosedOnce'
    BY <1>3 DEF InitDone, LockInv, CallInv, FreshInv, ClosedOnce
  <2>4. StartingIsOwned' /\ ProxyInv'
    BY <1>3 DEF InitDone, LockInv, CallInv, FreshInv, ClosedOnce,
       StartingIsOwned, ProxyInv
  <2> QED
    BY <2>1, <2>2, <2>3, <2>4
<1>4. ASSUME NEW f \in Frame, StartWithContent(f) PROVE IInv'
  <2>1. calls \in Nat /\ calls + 1 \in Call /\ calls + 1 \in 0..MaxCalls
    BY <1>4 DEF StartWithContent, Call
  <2>2. inst[calls + 1] = "none"
    BY <2>1 DEF CallInv
  <2>3. TypeOK'
    BY <1>4, <2>1, <2>2 DEF StartWithContent, LockInv, CallInv, State, Label
  <2>4. LockInv' /\ CallInv'
    BY <1>4, <2>1, <2>2 DEF StartWithContent, LockInv, CallInv, FreshInv, ClosedOnce
  <2>5. FreshInv' /\ ClosedOnce'
    BY <1>4, <2>1, <2>2 DEF StartWithContent, LockInv, CallInv, FreshInv, ClosedOnce
  <2>6. StartingIsOwned' /\ ProxyInv'
    BY <1>4, <2>1, <2>2 DEF StartWithContent, LockInv, CallInv, FreshInv,
       ClosedOnce, StartingIsOwned, ProxyInv
  <2> QED
    BY <2>3, <2>4, <2>5, <2>6
<1>5. ASSUME NEW f \in Frame, TranslateFail(f) PROVE IInv'
  <2>1. TypeOK'
    BY <1>5 DEF TranslateFail, LockInv, CallInv, State, Label
  <2>2. LockInv' /\ CallInv'
    BY <1>5 DEF TranslateFail, LockInv, CallInv, FreshInv, ClosedOnce
  <2>3. FreshInv' /\ ClosedOnce'
    BY <1>5 DEF TranslateFail, LockInv, CallInv, FreshInv, ClosedOnce
  <2>4. StartingIsOwned' /\ ProxyInv'
    BY <1>5 DEF TranslateFail, LockInv, CallInv, FreshInv, ClosedOnce,
       StartingIsOwned, ProxyInv
  <2> QED
    BY <2>1, <2>2, <2>3, <2>4
<1>6. ASSUME NEW f \in Frame, TakeSeq(f) PROVE IInv'
  <2>1. TypeOK'
    BY <1>6 DEF TakeSeq, LockInv, CallInv, State, Label
  <2>2. LockInv' /\ CallInv'
    BY <1>6 DEF TakeSeq, LockInv, CallInv, FreshInv, ClosedOnce
  <2>3. FreshInv' /\ ClosedOnce'
    BY <1>6 DEF TakeSeq, LockInv, CallInv, FreshInv, ClosedOnce
  <2>4. StartingIsOwned' /\ ProxyInv'
    BY <1>6 DEF TakeSeq, LockInv, CallInv, FreshInv, ClosedOnce,
       StartingIsOwned, ProxyInv
  <2> QED
    BY <2>1, <2>2, <2>3, <2>4
<1>7. ASSUME NEW f \in Frame, LockStart(f) PROVE IInv'
  <2>1. TypeOK'
    BY <1>7 DEF LockStart, LockInv, CallInv, State, Label
  <2>2. LockInv' /\ CallInv'
    BY <1>7 DEF LockStart, LockInv, CallInv, FreshInv, ClosedOnce
  <2>3. FreshInv' /\ ClosedOnce'
    BY <1>7 DEF LockStart, LockInv, CallInv, FreshInv, ClosedOnce
  <2>4. StartingIsOwned' /\ ProxyInv'
    BY <1>7 DEF LockStart, LockInv, CallInv, FreshInv, ClosedOnce,
       StartingIsOwned, ProxyInv
  <2> QED
    BY <2>1, <2>2, <2>3, <2>4
<1>8. ASSUME NEW f \in Frame, CheckTurn(f) PROVE IInv'
  <2>1. TypeOK'
    BY <1>8 DEF CheckTurn, LockInv, CallInv, State, Label
  <2>2. LockInv' /\ CallInv'
    BY <1>8 DEF CheckTurn, LockInv, CallInv, FreshInv, ClosedOnce
  <2>3. FreshInv' /\ ClosedOnce'
    BY <1>8 DEF CheckTurn, LockInv, CallInv, FreshInv, ClosedOnce
  <2>4. StartingIsOwned' /\ ProxyInv'
    BY <1>8 DEF CheckTurn, LockInv, CallInv, FreshInv, ClosedOnce,
       StartingIsOwned, ProxyInv
  <2> QED
    BY <2>1, <2>2, <2>3, <2>4
<1>9. ASSUME NEW f \in Frame, StartCas(f) PROVE IInv'
  <2>1. TypeOK'
    BY <1>9 DEF StartCas, LockInv, CallInv, State, Label
  <2>2. LockInv' /\ CallInv'
    BY <1>9 DEF StartCas, LockInv, CallInv, FreshInv, ClosedOnce
  <2>3. FreshInv' /\ ClosedOnce'
    BY <1>9 DEF StartCas, LockInv, CallInv, FreshInv, ClosedOnce
  <2>4. StartingIsOwned' /\ ProxyInv'
    BY <1>9 DEF StartCas, LockInv, CallInv, FreshInv, ClosedOnce,
       StartingIsOwned, ProxyInv
  <2> QED
    BY <2>1, <2>2, <2>3, <2>4
<1>10. ASSUME NEW f \in Frame, StartBox(f) PROVE IInv'
  <2>1. TypeOK'
    BY <1>10 DEF StartBox, LockInv, CallInv, State, Label
  <2>2. LockInv' /\ CallInv'
    BY <1>10 DEF StartBox, LockInv, CallInv, FreshInv, ClosedOnce
  <2>3. FreshInv' /\ ClosedOnce'
    BY <1>10 DEF StartBox, LockInv, CallInv, FreshInv, ClosedOnce
  <2>4. StartingIsOwned' /\ ProxyInv'
    BY <1>10 DEF StartBox, LockInv, CallInv, FreshInv, ClosedOnce,
       StartingIsOwned, ProxyInv
  <2> QED
    BY <2>1, <2>2, <2>3, <2>4
<1>11. ASSUME NEW f \in Frame, Publish(f) PROVE IInv'
  <2>1. TypeOK'
    BY <1>11 DEF Publish, LockInv, CallInv, State, Label
  <2>2. LockInv' /\ CallInv'
    BY <1>11 DEF Publish, LockInv, CallInv, FreshInv, ClosedOnce
  <2>3. FreshInv' /\ ClosedOnce'
    BY <1>11 DEF Publish, LockInv, CallInv, FreshInv, ClosedOnce
  <2>4. StartingIsOwned' /\ ProxyInv'
    BY <1>11 DEF Publish, LockInv, CallInv, FreshInv, ClosedOnce,
       StartingIsOwned, ProxyInv
  <2> QED
    BY <2>1, <2>2, <2>3, <2>4
<1>12. ASSUME NEW f \in Frame, RunCas(f) PROVE IInv'
  <2>1. TypeOK'
    BY <1>12 DEF RunCas, LockInv, CallInv, State, Label
  <2>2. LockInv' /\ CallInv'
    BY <1>12 DEF RunCas, LockInv, CallInv, FreshInv, ClosedOnce
  <2>3. FreshInv' /\ ClosedOnce'
    BY <1>12 DEF RunCas, LockInv, CallInv, FreshInv, ClosedOnce
  <2>4. StartingIsOwned' /\ ProxyInv'
    BY <1>12 DEF RunCas, LockInv, CallInv, FreshInv, ClosedOnce,
       StartingIsOwned, ProxyInv
  <2> QED
    BY <2>1, <2>2, <2>3, <2>4
<1>13. ASSUME NEW f \in Frame, UndoSwap(f) PROVE IInv'
  <2>1. TypeOK'
    BY <1>13 DEF UndoSwap, LockInv, CallInv, State, Label
  <2>2. LockInv' /\ CallInv'
    BY <1>13 DEF UndoSwap, LockInv, CallInv, FreshInv, ClosedOnce
  <2>3. FreshInv' /\ ClosedOnce'
    BY <1>13 DEF UndoSwap, LockInv, CallInv, FreshInv, ClosedOnce
  <2>4. StartingIsOwned' /\ ProxyInv'
    BY <1>13 DEF UndoSwap, LockInv, CallInv, FreshInv, ClosedOnce,
       StartingIsOwned, ProxyInv
  <2> QED
    BY <2>1, <2>2, <2>3, <2>4
<1>14. ASSUME NEW f \in Frame, UndoClose(f) PROVE IInv'
  <2>1. TypeOK'
    <3>1. inst' \in [Call -> {"none", "live", "closed"}] /\ old' \in [Frame -> Call \cup {None}]
      BY <1>14 DEF UndoClose
    <3>2. pc' \in [Frame -> Label]
      BY <1>14 DEF UndoClose, Label
    <3>3. UNCHANGED <<state, running, startVars, callVars, hookVars, watchdog, event>>
      BY <1>14 DEF UndoClose
    <3>4. \A g \in Frame : pc'[g] \in {"undo_close", "close"} => old'[g] # None
      BY <1>14 DEF UndoClose
    <3> QED
      BY <3>1, <3>2, <3>3, <3>4
  <2>2. LockInv' /\ CallInv'
    BY <1>14 DEF UndoClose, LockInv, CallInv, FreshInv, ClosedOnce
  <2>3. FreshInv' /\ ClosedOnce'
    BY <1>14 DEF UndoClose, LockInv, CallInv, FreshInv, ClosedOnce
  <2>4. StartingIsOwned' /\ ProxyInv'
    BY <1>14 DEF UndoClose, LockInv, CallInv, FreshInv, ClosedOnce,
       StartingIsOwned, ProxyInv
  <2> QED
    BY <2>1, <2>2, <2>3, <2>4
<1>15. ASSUME NEW f \in Frame, SubscribeLock(f) PROVE IInv'
  <2>1. TypeOK'
    BY <1>15 DEF SubscribeLock, LockInv, CallInv, State, Label
  <2>2. LockInv' /\ CallInv'
    BY <1>15 DEF SubscribeLock, LockInv, CallInv, FreshInv, ClosedOnce
  <2>3. FreshInv' /\ ClosedOnce'
    BY <1>15 DEF SubscribeLock, LockInv, CallInv, FreshInv, ClosedOnce
  <2>4. StartingIsOwned' /\ ProxyInv'
    BY <1>15 DEF SubscribeLock, LockInv, CallInv, FreshInv, ClosedOnce,
       StartingIsOwned, ProxyInv
  <2> QED
    BY <2>1, <2>2, <2>3, <2>4
<1>16. ASSUME NEW f \in Frame, SubscribeCheck(f) PROVE IInv'
  <2>1. TypeOK'
    BY <1>16 DEF SubscribeCheck, LockInv, CallInv, State, Label
  <2>2. LockInv' /\ CallInv'
    BY <1>16 DEF SubscribeCheck, LockInv, CallInv, FreshInv, ClosedOnce
  <2>3. FreshInv' /\ ClosedOnce'
    BY <1>16 DEF SubscribeCheck, LockInv, CallInv, FreshInv, ClosedOnce
  <2>4. StartingIsOwned' /\ ProxyInv'
    BY <1>16 DEF SubscribeCheck, LockInv, CallInv, FreshInv, ClosedOnce,
       StartingIsOwned, ProxyInv
  <2> QED
    BY <2>1, <2>2, <2>3, <2>4
<1>17. ASSUME NEW f \in Frame, SubscribeInstall(f) PROVE IInv'
  <2>1. TypeOK'
    BY <1>17 DEF SubscribeInstall, LockInv, CallInv, State, Label
  <2>2. LockInv' /\ CallInv'
    BY <1>17 DEF SubscribeInstall, LockInv, CallInv, FreshInv, ClosedOnce
  <2>3. FreshInv' /\ ClosedOnce'
    BY <1>17 DEF SubscribeInstall, LockInv, CallInv, FreshInv, ClosedOnce
  <2>4. StartingIsOwned' /\ ProxyInv'
    BY <1>17 DEF SubscribeInstall, LockInv, CallInv, FreshInv, ClosedOnce,
       StartingIsOwned, ProxyInv
  <2> QED
    BY <2>1, <2>2, <2>3, <2>4
<1>18. ASSUME NEW f \in Frame, KeepProxy(f) PROVE IInv'
  <2>1. TypeOK'
    BY <1>18 DEF KeepProxy, LockInv, CallInv, State, Label
  <2>2. LockInv' /\ CallInv'
    BY <1>18 DEF KeepProxy, LockInv, CallInv, FreshInv, ClosedOnce
  <2>3. FreshInv' /\ ClosedOnce'
    BY <1>18 DEF KeepProxy, LockInv, CallInv, FreshInv, ClosedOnce
  <2>4. StartingIsOwned' /\ ProxyInv'
    BY <1>18 DEF KeepProxy, LockInv, CallInv, FreshInv, ClosedOnce,
       StartingIsOwned, ProxyInv
  <2> QED
    BY <2>1, <2>2, <2>3, <2>4
<1>19. ASSUME NEW f \in Frame, FailCas(f) PROVE IInv'
  <2>1. TypeOK'
    BY <1>19 DEF FailCas, LockInv, CallInv, State, Label
  <2>2. LockInv' /\ CallInv'
    BY <1>19 DEF FailCas, LockInv, CallInv, FreshInv, ClosedOnce
  <2>3. FreshInv' /\ ClosedOnce'
    BY <1>19 DEF FailCas, LockInv, CallInv, FreshInv, ClosedOnce
  <2>4. StartingIsOwned' /\ ProxyInv'
    BY <1>19 DEF FailCas, LockInv, CallInv, FreshInv, ClosedOnce,
       StartingIsOwned, ProxyInv
  <2> QED
    BY <2>1, <2>2, <2>3, <2>4
<1>20. ASSUME NEW f \in Frame, UnlockStart(f) PROVE IInv'
  <2>1. TypeOK'
    BY <1>20 DEF UnlockStart, LockInv, CallInv, State, Label
  <2>2. LockInv' /\ CallInv'
    BY <1>20 DEF UnlockStart, LockInv, CallInv, FreshInv, ClosedOnce
  <2>3. FreshInv' /\ ClosedOnce'
    BY <1>20 DEF UnlockStart, LockInv, CallInv, FreshInv, ClosedOnce
  <2>4. StartingIsOwned' /\ ProxyInv'
    BY <1>20 DEF UnlockStart, LockInv, CallInv, FreshInv, ClosedOnce,
       StartingIsOwned, ProxyInv
  <2> QED
    BY <2>1, <2>2, <2>3, <2>4
<1>21. ASSUME NEW f \in Frame, Stop(f) PROVE IInv'
  <2>1. TypeOK'
    BY <1>21 DEF Stop, AtStop, StopReturn, HostMain, LockInv, CallInv, State, Label
  <2>2. LockInv' /\ CallInv'
    BY <1>21 DEF Stop, AtStop, StopReturn, HostMain, LockInv, CallInv,
       FreshInv, ClosedOnce
  <2>3. FreshInv' /\ ClosedOnce'
    BY <1>21 DEF Stop, AtStop, StopReturn, HostMain, LockInv, CallInv,
       FreshInv, ClosedOnce
  <2>4. StartingIsOwned' /\ ProxyInv'
    BY <1>21 DEF Stop, AtStop, StopReturn, HostMain, LockInv, CallInv,
       FreshInv, ClosedOnce, StartingIsOwned, ProxyInv
  <2> QED
    BY <2>1, <2>2, <2>3, <2>4
<1>22. ASSUME NEW f \in Frame, Swap(f) PROVE IInv'
  <2>1. TypeOK'
    BY <1>22 DEF Swap, LockInv, CallInv, State, Label
  <2>2. LockInv' /\ CallInv'
    BY <1>22 DEF Swap, LockInv, CallInv, FreshInv, ClosedOnce
  <2>3. FreshInv' /\ ClosedOnce'
    BY <1>22 DEF Swap, LockInv, CallInv, FreshInv, ClosedOnce
  <2>4. StartingIsOwned' /\ ProxyInv'
    BY <1>22 DEF Swap, LockInv, CallInv, FreshInv, ClosedOnce,
       StartingIsOwned, ProxyInv
  <2> QED
    BY <2>1, <2>2, <2>3, <2>4
<1>23. ASSUME NEW f \in Frame, UnsubscribeHooks(f) PROVE IInv'
  <2>1. TypeOK'
    BY <1>23 DEF UnsubscribeHooks, StopReturn, LockInv, CallInv, State, Label
  <2>2. LockInv' /\ CallInv'
    BY <1>23 DEF UnsubscribeHooks, StopReturn, LockInv, CallInv, FreshInv,
       ClosedOnce
  <2>3. FreshInv' /\ ClosedOnce'
    BY <1>23 DEF UnsubscribeHooks, StopReturn, LockInv, CallInv, FreshInv,
       ClosedOnce
  <2>4. StartingIsOwned' /\ ProxyInv'
    BY <1>23 DEF UnsubscribeHooks, StopReturn, LockInv, CallInv, FreshInv,
       ClosedOnce, StartingIsOwned, ProxyInv
  <2> QED
    BY <2>1, <2>2, <2>3, <2>4
<1>24. ASSUME NEW f \in Frame, Close(f) PROVE IInv'
  <2>1. TypeOK'
    <3>1. inst' \in [Call -> {"none", "live", "closed"}] /\ old' \in [Frame -> Call \cup {None}]
      BY <1>24 DEF Close
    <3>2. pc' \in [Frame -> Label]
      BY <1>24 DEF Close, StopReturn, Label
    <3>3. UNCHANGED <<state, running, startVars, callVars, hookVars, watchdog, event>>
      BY <1>24 DEF Close
    <3>4. \A g \in Frame : pc'[g] \in {"undo_close", "close"} => old'[g] # None
      BY <1>24 DEF Close, StopReturn
    <3> QED
      BY <3>1, <3>2, <3>3, <3>4
  <2>2. LockInv' /\ CallInv'
    BY <1>24 DEF Close, StopReturn, LockInv, CallInv, FreshInv, ClosedOnce
  <2>3. FreshInv' /\ ClosedOnce'
    BY <1>24 DEF Close, StopReturn, LockInv, CallInv, FreshInv, ClosedOnce
  <2>4. StartingIsOwned' /\ ProxyInv'
    BY <1>24 DEF Close, StopReturn, LockInv, CallInv, FreshInv, ClosedOnce,
       StartingIsOwned, ProxyInv
  <2> QED
    BY <2>1, <2>2, <2>3, <2>4
<1>25. ASSUME NEW f \in Frame, Destroy(f) PROVE IInv'
  <2>1. TypeOK'
    BY <1>25 DEF Destroy, LockInv, CallInv, State, Label
  <2>2. LockInv' /\ CallInv'
    BY <1>25 DEF Destroy, LockInv, CallInv, FreshInv, ClosedOnce
  <2>3. FreshInv' /\ ClosedOnce'
    BY <1>25 DEF Destroy, LockInv, CallInv, FreshInv, ClosedOnce
  <2>4. StartingIsOwned' /\ ProxyInv'
    BY <1>25 DEF Destroy, LockInv, CallInv, FreshInv, ClosedOnce,
       StartingIsOwned, ProxyInv
  <2> QED
    BY <2>1, <2>2, <2>3, <2>4
<1>26. ASSUME NEW f \in Frame, CancelHealth(f) PROVE IInv'
  <2>1. TypeOK'
    <3>1. watchdog' \in BOOLEAN /\ pc' \in [Frame -> Label]
      BY <1>26 DEF CancelHealth, Label
    <3>2. UNCHANGED <<state, instVars, startVars, callVars, hookVars, event>>
      BY <1>26 DEF CancelHealth
    <3>3. \A g \in Frame : pc'[g] \in {"undo_close", "close"} => old'[g] # None
      BY <1>26 DEF CancelHealth
    <3> QED
      BY <3>1, <3>2, <3>3
  <2>2. LockInv' /\ CallInv'
    BY <1>26 DEF CancelHealth, LockInv, CallInv, FreshInv, ClosedOnce
  <2>3. FreshInv' /\ ClosedOnce'
    BY <1>26 DEF CancelHealth, LockInv, CallInv, FreshInv, ClosedOnce
  <2>4. StartingIsOwned' /\ ProxyInv'
    BY <1>26 DEF CancelHealth, LockInv, CallInv, FreshInv, ClosedOnce,
       StartingIsOwned, ProxyInv
  <2> QED
    BY <2>1, <2>2, <2>3, <2>4
<1>27. ASSUME NEW f \in Frame, HealthFails(f) PROVE IInv'
  <2>1. calls \in Nat /\ calls + 1 \in Call /\ calls + 1 \in 0..MaxCalls
    BY <1>27 DEF HealthFails, Call
  <2>2. inst[calls + 1] = "none"
    BY <2>1 DEF CallInv
  <2>3. TypeOK'
    BY <1>27, <2>1, <2>2 DEF HealthFails, LockInv, CallInv, State, Label
  <2>4. LockInv' /\ CallInv'
    BY <1>27, <2>1, <2>2 DEF HealthFails, LockInv, CallInv, FreshInv, ClosedOnce
  <2>5. FreshInv' /\ ClosedOnce'
    BY <1>27, <2>1, <2>2 DEF HealthFails, LockInv, CallInv, FreshInv, ClosedOnce
  <2>6. StartingIsOwned' /\ ProxyInv'
    BY <1>27, <2>1, <2>2 DEF HealthFails, LockInv, CallInv, FreshInv,
       ClosedOnce, StartingIsOwned, ProxyInv
  <2> QED
    BY <2>3, <2>4, <2>5, <2>6
<1>28. ASSUME NEW f \in Frame, RestartForHealth(f) PROVE IInv'
  <2>1. TypeOK'
    BY <1>28 DEF RestartForHealth, LockInv, CallInv, State, Label
  <2>2. LockInv' /\ CallInv'
    BY <1>28 DEF RestartForHealth, LockInv, CallInv, FreshInv, ClosedOnce
  <2>3. FreshInv' /\ ClosedOnce'
    BY <1>28 DEF RestartForHealth, LockInv, CallInv, FreshInv, ClosedOnce
  <2>4. StartingIsOwned' /\ ProxyInv'
    BY <1>28 DEF RestartForHealth, LockInv, CallInv, FreshInv, ClosedOnce,
       StartingIsOwned, ProxyInv
  <2> QED
    BY <2>1, <2>2, <2>3, <2>4
<1>29. ASSUME NEW f \in Frame, LoadProxy(f) PROVE IInv'
  <2>1. TypeOK'
    BY <1>29 DEF LoadProxy, LockInv, CallInv, State, Label
  <2>2. LockInv' /\ CallInv'
    BY <1>29 DEF LoadProxy, LockInv, CallInv, FreshInv, ClosedOnce
  <2>3. FreshInv' /\ ClosedOnce'
    BY <1>29 DEF LoadProxy, LockInv, CallInv, FreshInv, ClosedOnce
  <2>4. StartingIsOwned' /\ ProxyInv'
    BY <1>29 DEF LoadProxy, LockInv, CallInv, FreshInv, ClosedOnce,
       StartingIsOwned, ProxyInv
  <2> QED
    BY <2>1, <2>2, <2>3, <2>4
<1>30. ASSUME NEW f \in Frame, EmitState(f) PROVE IInv'
  <2>1. TypeOK'
    BY <1>30 DEF EmitState, Deliver, CallbackOf, State, Label
  <2>2. LockInv'
    BY <1>30 DEF EmitState, Deliver, CallbackOf, LockInv
  <2>3. CallInv'
    <3>1. /\ UNCHANGED <<state, instVars, startVars, callVars, hookVars, watchdog>>
          /\ \A g \in Frame : /\ pc'[g] \in BeforeBox => pc[g] \in BeforeBox
                              /\ pc'[g] \in AfterBox => pc[g] \in AfterBox
                              /\ pc'[g] \in StopTail => pc[g] \in StopTail
      BY <1>30, EmitMoves
    <3>2. CallInv
      OBVIOUS
    <3> HIDE DEF IInv, TypeOK, BeforeBox, AfterBox, StopTail
    <3> QED
      BY <3>1, <3>2 DEF CallInv
  <2>4. FreshInv' /\ ClosedOnce'
    BY <1>30 DEF EmitState, Deliver, CallbackOf, FreshInv, ClosedOnce
  <2>5. StartingIsOwned' /\ ProxyInv'
    BY <1>30 DEF EmitState, Deliver, CallbackOf, LockInv, StartingIsOwned, ProxyInv
  <2> QED
    BY <2>1, <2>2, <2>4, <2>5, <2>3
<1>31. ASSUME UNCHANGED vars PROVE IInv'
  BY <1>31 DEF vars, LockInv, CallInv, FreshInv, ClosedOnce, StartingIsOwned,
     ProxyInv
<1> QED
  <2>1. ASSUME NEW f \in Frame, Step(f) PROVE IInv'
    BY <2>1, <1>1, <1>2, <1>3, <1>4, <1>5, <1>6, <1>7, <1>8, <1>9, <1>10,
       <1>11, <1>12, <1>13, <1>14, <1>15, <1>16, <1>17, <1>18, <1>19, <1>20,
       <1>21, <1>22, <1>23, <1>24, <1>25, <1>26, <1>27, <1>28, <1>29, <1>30
       DEF Step, StartStep
  <2>2. ASSUME NEW f \in HostMain, HostCall(f) PROVE IInv'
    <3>1. f \in Frame
      BY DEF HostMain, Frame
    <3> QED
      BY <2>2, <3>1, <1>1, <1>4, <1>21, <1>25 DEF HostCall
  <2>3. ASSUME HealthFails(WatchdogMain) PROVE IInv'
    <3>1. WatchdogMain \in Frame
      BY DEF WatchdogMain, Frame
    <3> QED
      BY <2>3, <3>1, <1>27
  <2> QED
    BY <2>1, <2>2, <2>3, <1>31 DEF Next

(***************************************************************************)
(* The invariant holds in every reachable state.                           *)
(***************************************************************************)
THEOREM Invariance == Spec => []IInv
  BY InitIInv, NextIInv, PTL DEF Spec

(***************************************************************************)
(* The variables keep their types; every instance that is published,       *)
(* swapped out or observed is that of a call that was made.                *)
(***************************************************************************)
THEOREM TypeCorrect == Spec => []TypeOK
<1>1. IInv => TypeOK
  BY DEF IInv
<1> QED
  BY Invariance, <1>1, PTL

(***************************************************************************)
(* running.Swap hands every instance to exactly one closer, however many   *)
(* calls of Start, Stop and Destroy overlap.                               *)
(***************************************************************************)
THEOREM InstancesClosedOnce == Spec => []ClosedOnce
<1>1. IInv => ClosedOnce
  BY DEF IInv
<1> QED
  BY Invariance, <1>1, PTL

(***************************************************************************)
(* No interleaving, failure or re-entrant Stop leaves the service in       *)
(* Starting without a start in progress.                                   *)
(***************************************************************************)
THEOREM StartingOwned == Spec => []StartingIsOwned
<1>1. IInv => StartingIsOwned
  BY DEF IInv
<1> QED
  BY Invariance, <1>1, PTL

(***************************************************************************)
(* Between starts lastRuleSetProxy is the proxy of the published instance, *)
(* so a health restart does not lose it.                                   *)
(***************************************************************************)
THEOREM ProxyKept == Spec => []ProxyMatchesRunning
<1>1. IInv => ProxyMatchesRunning
  BY DEF IInv, ProxyInv, ProxyMatchesRunning
<1> QED
  BY Invariance, <1>1, PTL

----------------------------------------------------------------------------
(* The subscriptions.  InitContext may put Created over any state when it  *)
(* fails late, and then Stop no longer cancels them: the argument below is *)
(* for a service whose InitContext succeeds.                               *)

(* Every step keeps the invariants of the subscriptions. *)
LEMMA NextHooks ==
  ASSUME ~InitCanFail, IInv, HooksLockInv, HooksInv, [Next]_vars
  PROVE  HooksLockInv' /\ HooksInv'
<1> USE ConstantFacts
    DEF At, Goto, instVars, startVars, callVars, hookVars, IInv, TypeOK, Held,
        StopTail, BeforeBox, AfterBox, Publishing, Cancelling
<1>1. ASSUME NEW f \in Frame, InitContext(f) PROVE HooksLockInv' /\ HooksInv'
  <2>1. HooksLockInv'
    BY <1>1 DEF InitContext, HooksLockInv, LockInv
  <2>2. HooksInv'
    BY <1>1 DEF InitContext, HooksLockInv, HooksInv, LockInv, CallInv,
       ClosedOnce, FreshInv, ProxyInv, StartingIsOwned
  <2> QED
    BY <2>1, <2>2
<1>2. ASSUME NEW f \in Frame, InitFail(f) PROVE HooksLockInv' /\ HooksInv'
  <2>1. HooksLockInv'
    BY <1>2 DEF InitFail, HooksLockInv, LockInv
  <2>2. HooksInv'
    BY <1>2 DEF InitFail, HooksLockInv, HooksInv, LockInv, CallInv,
       ClosedOnce, FreshInv, ProxyInv, StartingIsOwned
  <2> QED
    BY <2>1, <2>2
<1>3. ASSUME NEW f \in Frame, InitDone(f) PROVE HooksLockInv' /\ HooksInv'
  <2>1. HooksLockInv'
    BY <1>3 DEF InitDone, HooksLockInv, LockInv
  <2>2. HooksInv'
    BY <1>3 DEF InitDone, HooksLockInv, HooksInv, LockInv, CallInv,
       ClosedOnce, FreshInv, ProxyInv, StartingIsOwned
  <2> QED
    BY <2>1, <2>2
<1>4. ASSUME NEW f \in Frame, StartWithContent(f) PROVE HooksLockInv' /\ HooksInv'
  <2>1. calls \in Nat /\ calls + 1 \in Call /\ inst[calls + 1] = "none"
    BY <1>4 DEF StartWithContent, Call, CallInv
  <2>2. HooksLockInv'
    BY <1>4, <2>1 DEF StartWithContent, HooksLockInv, LockInv
  <2>3. HooksInv'
    BY <1>4, <2>1 DEF StartWithContent, HooksLockInv, HooksInv, LockInv,
       CallInv, ClosedOnce, FreshInv, ProxyInv, StartingIsOwned
  <2> QED
    BY <2>2, <2>3
<1>5. ASSUME NEW f \in Frame, TranslateFail(f) PROVE HooksLockInv' /\ HooksInv'
  <2>1. HooksLockInv'
    BY <1>5 DEF TranslateFail, HooksLockInv, LockInv
  <2>2. HooksInv'
    BY <1>5 DEF TranslateFail, HooksLockInv, HooksInv, LockInv, CallInv,
       ClosedOnce, FreshInv, ProxyInv, StartingIsOwned
  <2> QED
    BY <2>1, <2>2
<1>6. ASSUME NEW f \in Frame, TakeSeq(f) PROVE HooksLockInv' /\ HooksInv'
  <2>1. HooksLockInv'
    BY <1>6 DEF TakeSeq, HooksLockInv, LockInv
  <2>2. HooksInv'
    BY <1>6 DEF TakeSeq, HooksLockInv, HooksInv, LockInv, CallInv,
       ClosedOnce, FreshInv, ProxyInv, StartingIsOwned
  <2> QED
    BY <2>1, <2>2
<1>7. ASSUME NEW f \in Frame, LockStart(f) PROVE HooksLockInv' /\ HooksInv'
  <2>1. HooksLockInv'
    BY <1>7 DEF LockStart, HooksLockInv, LockInv
  <2>2. HooksInv'
    BY <1>7 DEF LockStart, HooksLockInv, HooksInv, LockInv, CallInv,
       ClosedOnce, FreshInv, ProxyInv, StartingIsOwned
  <2> QED
    BY <2>1, <2>2
<1>8. ASSUME NEW f \in Frame, CheckTurn(f) PROVE HooksLockInv' /\ HooksInv'
  <2>1. HooksLockInv'
    BY <1>8 DEF CheckTurn, HooksLockInv, LockInv
  <2>2. HooksInv'
    BY <1>8 DEF CheckTurn, HooksLockInv, HooksInv, LockInv, CallInv,
       ClosedOnce, FreshInv, ProxyInv, StartingIsOwned
  <2> QED
    BY <2>1, <2>2
<1>9. ASSUME NEW f \in Frame, StartCas(f) PROVE HooksLockInv' /\ HooksInv'
  <2>1. HooksLockInv'
    BY <1>9 DEF StartCas, HooksLockInv, LockInv
  <2>2. HooksInv'
    BY <1>9 DEF StartCas, HooksLockInv, HooksInv, LockInv, CallInv,
       ClosedOnce, FreshInv, ProxyInv, StartingIsOwned
  <2> QED
    BY <2>1, <2>2
<1>10. ASSUME NEW f \in Frame, StartBox(f) PROVE HooksLockInv' /\ HooksInv'
  <2>1. HooksLockInv'
    BY <1>10 DEF StartBox, HooksLockInv, LockInv
  <2>2. HooksInv'
    BY <1>10 DEF StartBox, HooksLockInv, HooksInv, LockInv, CallInv,
       ClosedOnce, FreshInv, ProxyInv, StartingIsOwned
  <2> QED
    BY <2>1, <2>2
<1>11. ASSUME NEW f \in Frame, Publish(f) PROVE HooksLockInv' /\ HooksInv'
  <2>1. HooksLockInv'
    BY <1>11 DEF Publish, HooksLockInv, LockInv
  <2>2. HooksInv'
    BY <1>11 DEF Publish, HooksLockInv, HooksInv, LockInv, CallInv,
       ClosedOnce, FreshInv, ProxyInv, StartingIsOwned
  <2> QED
    BY <2>1, <2>2
<1>12. ASSUME NEW f \in Frame, RunCas(f) PROVE HooksLockInv' /\ HooksInv'
  <2>1. HooksLockInv'
    BY <1>12 DEF RunCas, HooksLockInv, LockInv
  <2>2. HooksInv'
    BY <1>12 DEF RunCas, HooksLockInv, HooksInv, LockInv, CallInv,
       ClosedOnce, FreshInv, ProxyInv, StartingIsOwned
  <2> QED
    BY <2>1, <2>2
<1>13. ASSUME NEW f \in Frame, UndoSwap(f) PROVE HooksLockInv' /\ HooksInv'
  <2>1. HooksLockInv'
    BY <1>13 DEF UndoSwap, HooksLockInv, LockInv
  <2>2. HooksInv'
    BY <1>13 DEF UndoSwap, HooksLockInv, HooksInv, LockInv, CallInv,
       ClosedOnce, FreshInv, ProxyInv, StartingIsOwned
  <2> QED
    BY <2>1, <2>2
<1>14. ASSUME NEW f \in Frame, UndoClose(f) PROVE HooksLockInv' /\ HooksInv'
  <2>1. HooksLockInv'
    BY <1>14 DEF UndoClose, HooksLockInv, LockInv
  <2>2. HooksInv'
    BY <1>14 DEF UndoClose, HooksLockInv, HooksInv, LockInv, CallInv,
       ClosedOnce, FreshInv, ProxyInv, StartingIsOwned
  <2> QED
    BY <2>1, <2>2
<1>15. ASSUME NEW f \in Frame, SubscribeLock(f) PROVE HooksLockInv' /\ HooksInv'
  <2>1. HooksLockInv'
    BY <1>15 DEF SubscribeLock, HooksLockInv, LockInv
  <2>2. HooksInv'
    BY <1>15 DEF SubscribeLock, HooksLockInv, HooksInv, LockInv, CallInv,
       ClosedOnce, FreshInv, ProxyInv, StartingIsOwned
  <2> QED
    BY <2>1, <2>2
<1>16. ASSUME NEW f \in Frame, SubscribeCheck(f) PROVE HooksLockInv' /\ HooksInv'
  <2>1. HooksLockInv'
    BY <1>16 DEF SubscribeCheck, HooksLockInv, LockInv
  <2>2. HooksInv'
    BY <1>16 DEF SubscribeCheck, HooksLockInv, HooksInv, LockInv, CallInv,
       ClosedOnce, FreshInv, ProxyInv, StartingIsOwned
  <2> QED
    BY <2>1, <2>2
<1>17. ASSUME NEW f \in Frame, SubscribeInstall(f) PROVE HooksLockInv' /\ HooksInv'
  <2>1. HooksLockInv'
    BY <1>17 DEF SubscribeInstall, HooksLockInv, LockInv
  <2>2. HooksInv'
    BY <1>17 DEF SubscribeInstall, HooksLockInv, HooksInv, LockInv, CallInv,
       ClosedOnce, FreshInv, ProxyInv, StartingIsOwned
  <2> QED
    BY <2>1, <2>2
<1>18. ASSUME NEW f \in Frame, KeepProxy(f) PROVE HooksLockInv' /\ HooksInv'
  <2>1. HooksLockInv'
    BY <1>18 DEF KeepProxy, HooksLockInv, LockInv
  <2>2. HooksInv'
    BY <1>18 DEF KeepProxy, HooksLockInv, HooksInv, LockInv, CallInv,
       ClosedOnce, FreshInv, ProxyInv, StartingIsOwned
  <2> QED
    BY <2>1, <2>2
<1>19. ASSUME NEW f \in Frame, FailCas(f) PROVE HooksLockInv' /\ HooksInv'
  <2>1. HooksLockInv'
    BY <1>19 DEF FailCas, HooksLockInv, LockInv
  <2>2. HooksInv'
    BY <1>19 DEF FailCas, HooksLockInv, HooksInv, LockInv, CallInv,
       ClosedOnce, FreshInv, ProxyInv, StartingIsOwned
  <2> QED
    BY <2>1, <2>2
<1>20. ASSUME NEW f \in Frame, UnlockStart(f) PROVE HooksLockInv' /\ HooksInv'
  <2>1. HooksLockInv'
    BY <1>20 DEF UnlockStart, HooksLockInv, LockInv
  <2>2. HooksInv'
    BY <1>20 DEF UnlockStart, HooksLockInv, HooksInv, LockInv, CallInv,
       ClosedOnce, FreshInv, ProxyInv, StartingIsOwned
  <2> QED
    BY <2>1, <2>2
<1>21. ASSUME NEW f \in Frame, Stop(f) PROVE HooksLockInv' /\ HooksInv'
  <2>1. HooksLockInv'
    BY <1>21 DEF Stop, AtStop, StopReturn, HostMain, HooksLockInv, LockInv
  <2>2. HooksInv'
    BY <1>21 DEF Stop, AtStop, StopReturn, HostMain, HooksLockInv, HooksInv,
       LockInv, CallInv, ClosedOnce, FreshInv, ProxyInv, StartingIsOwned
  <2> QED
    BY <2>1, <2>2
<1>22. ASSUME NEW f \in Frame, Swap(f) PROVE HooksLockInv' /\ HooksInv'
  <2>1. HooksLockInv'
    BY <1>22 DEF Swap, HooksLockInv, LockInv
  <2>2. HooksInv'
    BY <1>22 DEF Swap, HooksLockInv, HooksInv, LockInv, CallInv, ClosedOnce,
       FreshInv, ProxyInv, StartingIsOwned
  <2> QED
    BY <2>1, <2>2
<1>23. ASSUME NEW f \in Frame, UnsubscribeHooks(f) PROVE HooksLockInv' /\ HooksInv'
  <2>1. HooksLockInv'
    BY <1>23 DEF UnsubscribeHooks, StopReturn, HooksLockInv, LockInv
  <2>2. HooksInv'
    BY <1>23 DEF UnsubscribeHooks, StopReturn, HooksLockInv, HooksInv,
       LockInv, CallInv, ClosedOnce, FreshInv, ProxyInv, StartingIsOwned
  <2> QED
    BY <2>1, <2>2
<1>24. ASSUME NEW f \in Frame, Close(f) PROVE HooksLockInv' /\ HooksInv'
  <2>1. HooksLockInv'
    BY <1>24 DEF Close, StopReturn, HooksLockInv, LockInv
  <2>2. HooksInv'
    BY <1>24 DEF Close, StopReturn, HooksLockInv, HooksInv, LockInv, CallInv,
       ClosedOnce, FreshInv, ProxyInv, StartingIsOwned
  <2> QED
    BY <2>1, <2>2
<1>25. ASSUME NEW f \in Frame, Destroy(f) PROVE HooksLockInv' /\ HooksInv'
  <2>1. HooksLockInv'
    BY <1>25 DEF Destroy, HooksLockInv, LockInv
  <2>2. HooksInv'
    BY <1>25 DEF Destroy, HooksLockInv, HooksInv, LockInv, CallInv,
       ClosedOnce, FreshInv, ProxyInv, StartingIsOwned
  <2> QED
    BY <2>1, <2>2
<1>26. ASSUME NEW f \in Frame, CancelHealth(f) PROVE HooksLockInv' /\ HooksInv'
  <2>1. HooksLockInv'
    BY <1>26 DEF CancelHealth, HooksLockInv, LockInv
  <2>2. HooksInv'
    BY <1>26 DEF CancelHealth, HooksLockInv, HooksInv, LockInv, CallInv,
       ClosedOnce, FreshInv, ProxyInv, StartingIsOwned
  <2> QED
    BY <2>1, <2>2
<1>27. ASSUME NEW f \in Frame, HealthFails(f) PROVE HooksLockInv' /\ HooksInv'
  <2>1. calls \in Nat /\ calls + 1 \in Call /\ inst[calls + 1] = "none"
    BY <1>27 DEF HealthFails, Call, CallInv
  <2>2. HooksLockInv'
    BY <1>27, <2>1 DEF HealthFails, HooksLockInv, LockInv
  <2>3. HooksInv'
    BY <1>27, <2>1 DEF HealthFails, HooksLockInv, HooksInv, LockInv, CallInv,
       ClosedOnce, FreshInv, ProxyInv, StartingIsOwned
  <2> QED
    BY <2>2, <2>3
<1>28. ASSUME NEW f \in Frame, RestartForHealth(f) PROVE HooksLockInv' /\ HooksInv'
  <2>1. HooksLockInv'
    BY <1>28 DEF RestartForHealth, HooksLockInv, LockInv
  <2>2. HooksInv'
    BY <1>28 DEF RestartForHealth, HooksLockInv, HooksInv, LockInv, CallInv,
       ClosedOnce, FreshInv, ProxyInv, StartingIsOwned
  <2> QED
    BY <2>1, <2>2
<1>29. ASSUME NEW f \in Frame, LoadProxy(f) PROVE HooksLockInv' /\ HooksInv'
  <2>1. HooksLockInv'
    BY <1>29 DEF LoadProxy, HooksLockInv, LockInv
  <2>2. HooksInv'
    BY <1>29 DEF LoadProxy, HooksLockInv, HooksInv, LockInv, CallInv,
       ClosedOnce, FreshInv, ProxyInv, StartingIsOwned
  <2> QED
    BY <2>1, <2>2
<1>30. ASSUME NEW f \in Frame, EmitState(f) PROVE HooksLockInv' /\ HooksInv'
  <2>1. HooksLockInv'
    BY <1>30 DEF EmitState, Deliver, CallbackOf, HooksLockInv, LockInv
  <2>2. HooksInv'
    <3>1. /\ UNCHANGED <<state, instVars, startVars, callVars, hookVars, watchdog>>
          /\ \A g \in Frame :
               /\ pc'[g] \in {"publish", "run_cas", "undo_swap", "sub_install"}
                    => pc[g] = pc'[g]
               /\ pc[g] \in {"run_cas", "sub_lock", "unsub"} => pc'[g] = pc[g]
               /\ pc[g] = "running_emit" => pc'[g] \in {"running_emit", "sub_lock"}
               /\ pc[g] \in {"destroy_emit", "health_cancel", "stop_emit", "swap", "unsub"}
                    => pc'[g] \in {"destroy_emit", "health_cancel", "stop_emit", "swap", "unsub"}
               /\ pc'[g] \in {"starting_emit", "box", "publish", "run_cas"}
                    => pc[g] \in {"starting_emit", "box", "publish", "run_cas"}
      BY <1>30, EmitMoves
    <3>2. Cancelling => Cancelling'
      BY <3>1 DEF Cancelling
    <3> HIDE DEF IInv, TypeOK, Cancelling
    <3> QED
      BY <3>1, <3>2 DEF HooksInv
  <2> QED
    BY <2>1, <2>2
<1>31. ASSUME UNCHANGED vars PROVE HooksLockInv' /\ HooksInv'
  BY <1>31 DEF vars, HooksLockInv, HooksInv
<1> QED
  <2>1. ASSUME NEW f \in Frame, Step(f) PROVE HooksLockInv' /\ HooksInv'
    BY <2>1, <1>1, <1>2, <1>3, <1>4, <1>5, <1>6, <1>7, <1>8, <1>9, <1>10,
       <1>11, <1>12, <1>13, <1>14, <1>15, <1>16, <1>17, <1>18, <1>19, <1>20,
       <1>21, <1>22, <1>23, <1>24, <1>25, <1>26, <1>27, <1>28, <1>29, <1>30
       DEF Step, StartStep
  <2>2. ASSUME NEW f \in HostMain, HostCall(f) PROVE HooksLockInv' /\ HooksInv'
    <3>1. f \in Frame
      BY DEF HostMain, Frame
    <3> QED
      BY <2>2, <3>1, <1>1, <1>4, <1>21, <1>25 DEF HostCall
  <2>3. ASSUME HealthFails(WatchdogMain) PROVE HooksLockInv' /\ HooksInv'
    <3>1. WatchdogMain \in Frame
      BY DEF WatchdogMain, Frame
    <3> QED
      BY <2>3, <3>1, <1>27
  <2> QED
    BY <2>1, <2>2, <2>3, <1>31 DEF Next

(***************************************************************************)
(* When the calls have returned, no subscription is left for an instance   *)
(* that Stop or Destroy removed (the order of Swap and unsubscribeHooks    *)
(* and the generation check of subscribeHooks).                            *)
(***************************************************************************)
THEOREM HooksFollow ==
  ASSUME ~InitCanFail
  PROVE  Spec => []HooksFollowInstance
<1>1. Init => HooksLockInv /\ HooksInv
  BY ConstantFacts DEF Init, HooksLockInv, HooksInv
<1>2. IInv /\ HooksLockInv /\ HooksInv /\ [Next]_vars => HooksLockInv' /\ HooksInv'
  BY NextHooks
<1>3. HooksInv => HooksFollowInstance
  BY DEF HooksInv, HooksFollowInstance, Quiescent, Cancelling
<1> QED
  BY <1>1, <1>2, <1>3, Invariance, PTL DEF Spec

(***************************************************************************)
(* Destroyed is final unless an InitContext fails (comment of Destroy):    *)
(* every compare-and-swap of the life cycle starts from another state.     *)
(***************************************************************************)
THEOREM DestroyedFinal ==
  ASSUME ~InitCanFail
  PROVE  Spec => DestroyedIsTerminal
<1> DEFINE Final == state = "Destroyed" => state' = "Destroyed"
<1>1. ASSUME NEW f \in Frame, InitContext(f) PROVE Final
  BY <1>1 DEF InitContext
<1>2. ASSUME NEW f \in Frame, InitFail(f) PROVE Final
  BY <1>2 DEF InitFail
<1>3. ASSUME NEW f \in Frame, InitDone(f) PROVE Final
  BY <1>3 DEF InitDone
<1>4. ASSUME NEW f \in Frame, StartWithContent(f) PROVE Final
  BY <1>4 DEF StartWithContent
<1>5. ASSUME NEW f \in Frame, StartStep(f) PROVE Final
  BY <1>5 DEF StartStep, TranslateFail, TakeSeq, LockStart, CheckTurn, StartCas,
     StartBox, Publish, RunCas, UndoSwap, UndoClose, SubscribeLock, SubscribeCheck,
     SubscribeInstall, KeepProxy, FailCas, UnlockStart
<1>6. ASSUME NEW f \in Frame, EmitState(f) PROVE Final
  BY <1>6 DEF EmitState, Deliver
<1>7. ASSUME NEW f \in Frame, Stop(f) PROVE Final
  BY <1>7 DEF Stop
<1>8. ASSUME NEW f \in Frame, Swap(f) PROVE Final
  BY <1>8 DEF Swap
<1>9. ASSUME NEW f \in Frame, UnsubscribeHooks(f) PROVE Final
  BY <1>9 DEF UnsubscribeHooks
<1>10. ASSUME NEW f \in Frame, Close(f) PROVE Final
  BY <1>10 DEF Close
<1>11. ASSUME NEW f \in Frame, Destroy(f) PROVE Final
  BY <1>11 DEF Destroy
<1>12. ASSUME NEW f \in Frame, CancelHealth(f) PROVE Final
  BY <1>12 DEF CancelHealth
<1>13. ASSUME NEW f \in Frame, HealthFails(f) PROVE Final
  BY <1>13 DEF HealthFails
<1>14. ASSUME NEW f \in Frame, RestartForHealth(f) PROVE Final
  BY <1>14 DEF RestartForHealth
<1>15. ASSUME NEW f \in Frame, LoadProxy(f) PROVE Final
  BY <1>15 DEF LoadProxy
<1>16. [Next]_vars => [state = "Destroyed" => state' = "Destroyed"]_vars
  <2> SUFFICES ASSUME Next PROVE Final
    OBVIOUS
  <2>1. ASSUME NEW f \in Frame, Step(f) PROVE Final
    BY <2>1, <1>2, <1>3, <1>5, <1>6, <1>7, <1>8, <1>9, <1>10, <1>12, <1>14, <1>15 DEF Step
  <2>2. ASSUME NEW f \in HostMain, HostCall(f) PROVE Final
    <3>1. f \in Frame
      BY DEF HostMain, Frame
    <3> QED
      BY <2>2, <3>1, <1>1, <1>4, <1>7, <1>11 DEF HostCall
  <2>3. ASSUME HealthFails(WatchdogMain) PROVE Final
    BY <2>3, <1>13 DEF WatchdogMain, Frame
  <2> QED
    BY <2>1, <2>2, <2>3 DEF Next
<1> QED
  BY <1>16, PTL DEF Spec, DestroyedIsTerminal

(***************************************************************************)
(* A host that overlaps nothing but calls of StartWithContent with each    *)
(* other (Serialized), and whose event callback may call Stop.             *)
(*                                                                         *)
(* The compare-and-swaps of the code do not make a Stop or a Destroy atomic*)
(* with a start, so these properties are not those of every host.  Nor does*)
(* anything in the code keep a restart of the watchdog out of a Stop of the*)
(* host (a run shows what comes of it).  The host therefore stops and      *)
(* destroys only a service whose health check is off, as it is by default; *)
(* when it is on, the restarts of the watchdog may overlap any start, and  *)
(* the Stop of the event callback.  That no restart then meets a Stop, a   *)
(* Destroy or an InitContext is proved (HealthInv), not assumed.  Under    *)
(* this host the frames that change the life cycle take turns: what each of*)
(* them relies on is an invariant of where it is.                          *)
(***************************************************************************)

(* Where a frame has not begun to change the life cycle. *)
Waiting == {"idle", "health", "health_proxy", "translate", "lock"}

Acting(f) == pc[f] \notin Waiting

MainOf(f) == <<f[1], "main">>

(* Which frames may be under way together: callbacks run Stop while their  *)
(* main frame waits, and goroutines overlap only in calls of               *)
(* StartWithContent.                                                       *)
SoloInv ==
  /\ \A f \in Frame : f[2] = "callback" =>
       call[f] = 0 /\ pc[f] \in {"idle", "stop_call"} \cup StopTail
  /\ \A f \in Frame : f[2] = "main" => pc[f] # "stop_call"
  /\ \A f \in Frame :
       pc[f] \in {"idle", "init", "init_emit", "destroy_emit", "health_cancel"} =>
           call[f] = 0
  /\ \A f \in Frame : pc[f] \in StopTail /\ call[f] # 0 => startMu = f
  /\ \A f \in Frame : f[2] = "callback" /\ pc[f] # "idle" =>
       pc[MainOf(f)] \in {"idle", "box", "sub_lock", "unlock", "swap", "health_cancel"}
  /\ \A f, g \in Frame : f[1] # g[1] /\ pc[f] # "idle" /\ pc[g] # "idle" =>
       call[MainOf(f)] # 0

(* n is the only live instance; none is when n is None. *)
Only(n) == \A m \in Call : inst[m] = "live" <=> m = n

(* The life cycle between two transitions: Running means a published       *)
(* instance, and no other lives.                                           *)
Settled ==
  /\ Only(running)
  /\ state # "Starting"
  /\ state = "Running" <=> running # None

(* Where a frame is in the middle of a transition. *)
Unsettled ==
  {"starting_emit", "box", "publish", "run_cas", "undo_swap", "undo_close", "fail_cas",
   "destroy_emit", "health_cancel"} \cup StopTail

(* What a frame in the middle of a transition relies on. *)
DataInv ==
  /\ (\A f \in Frame : pc[f] \notin Unsettled) => Settled
  /\ \A f \in Frame : pc[f] \in {"starting_emit", "box", "fail_cas"} =>
       running = None /\ Only(None) /\ state \in {"Starting", "Initialized"}
  /\ \A f \in Frame : pc[f] = "publish" =>
       running = None /\ Only(call[f]) /\ state \in {"Starting", "Initialized"}
  /\ \A f \in Frame : pc[f] = "run_cas" =>
       running = call[f] /\ Only(running) /\ state \in {"Starting", "Initialized"}
  /\ \A f \in Frame : pc[f] = "undo_swap" =>
       running = call[f] /\ Only(running) /\ state = "Initialized"
  /\ \A f \in Frame : pc[f] = "undo_close" =>
       running = None /\ Only(old[f]) /\ state = "Initialized"
  /\ \A f \in Frame : pc[f] \in {"stop_emit", "destroy_emit", "health_cancel", "swap"} =>
       Only(running) /\ state \in {"Initialized", "Destroyed"}
  /\ \A f \in Frame : pc[f] \in {"unsub", "close"} =>
       running = None /\ Only(old[f]) /\ state \in {"Initialized", "Destroyed"}

(* A callback finds something to stop only at the two events of a start. *)
CallbackInv ==
  \A f \in Frame : f[2] = "callback" /\ pc[MainOf(f)] \notin {"box", "sub_lock"} =>
    /\ pc[f] \notin StopTail
    /\ pc[f] = "stop_call" => state \notin {"Running", "Starting"}

Emitting == {"init", "init_emit", "starting_emit", "running_emit", "fail_emit", "stop_emit",
             "destroy_emit"}

(* An event is delivered before the state moves again. *)
EventInv ==
  /\ \A f \in Frame : pc[f] = "init" => event = "Created"
  /\ \A f \in Frame : pc[f] \in {"init", "init_emit", "fail_emit", "stop_emit"} =>
       state = "Initialized"
  /\ \A f \in Frame : pc[f] = "starting_emit" => state = "Starting"
  /\ \A f \in Frame : pc[f] = "running_emit" => state = "Running"
  /\ \A f \in Frame : pc[f] = "destroy_emit" => state = "Destroyed"
  /\ (\A f \in Frame : pc[f] \notin Emitting) => event = state

(* An instance that is not of the latest call is about to be replaced, and *)
(* a start that is under way is of the latest call or about to be.         *)
LatestInv ==
  /\ running # None =>
       \/ seq[running] = startSeq
       \/ \E f \in Frame : /\ call[f] # 0 /\ seq[call[f]] = startSeq
                           /\ pc[f] \in {"lock", "turn", "stop_prev", "stop_emit", "swap"}
  /\ \A f \in Frame :
       call[f] # 0 /\ pc[f] \in StopTail \cup
           {"stop_prev", "start_cas", "starting_emit", "box", "publish"} =>
         \/ seq[call[f]] = startSeq
         \/ \E g \in Frame : pc[g] = "lock" /\ seq[call[g]] = startSeq


----------------------------------------------------------------------------
(* A frame is a goroutine and whether it is its callback. *)
LEMMA FrameFacts ==
  \A f \in Frame :
    /\ MainOf(f) \in Frame /\ MainOf(f)[1] = f[1] /\ MainOf(f)[2] = "main"
    /\ CallbackOf(f) \in Frame /\ CallbackOf(f)[1] = f[1] /\ CallbackOf(f)[2] = "callback"
    /\ f[2] \in {"main", "callback"}
    /\ f[2] = "main" => f = MainOf(f)
    /\ f[2] = "callback" => f = CallbackOf(f)
    /\ MainOf(CallbackOf(f)) = MainOf(f)
    /\ \A g \in Frame : g[1] = f[1] => MainOf(g) = MainOf(f) /\ CallbackOf(g) =
        CallbackOf(f)
    /\ f \in HostMain => f[2] = "main"
  BY DEF Frame, MainOf, CallbackOf, HostMain

(* The watchdog's goroutine is a frame, and so are the host's. *)
LEMMA MainFrames ==
  HostMain \subseteq Frame /\ WatchdogMain \in Frame /\ WatchdogMain[2] = "main"
  BY DEF HostMain, WatchdogMain, Frame

(* The host is not the watchdog. *)
LEMMA HostFrames == \A f \in HostMain : f \in Frame /\ f[1] # Watchdog /\ f[2] = "main"
  BY ServiceAssumption DEF HostMain, Frame

(***************************************************************************)
(* The frame of a goroutine that changes the life cycle on behalf of a call*)
(* of StartWithContent holds startMu (startWithJSON).                      *)
(***************************************************************************)
LEMMA ActingOwner ==
  ASSUME IInv, SoloInv, NEW f \in Frame, Acting(f), call[MainOf(f)] # 0
  PROVE  startMu = MainOf(f)
<1> USE FrameFacts
<1>1. CASE f[2] = "main"
  <2>1. pc[f] \in Held \cup StopTail
    BY <1>1 DEF IInv, TypeOK, Label, SoloInv, Acting, Waiting, Held, StopTail
  <2> QED
    BY <1>1, <2>1 DEF IInv, LockInv, SoloInv
<1>2. CASE f[2] = "callback"
  <2>1. pc[MainOf(f)] \in {"box", "sub_lock", "unlock", "swap"}
    BY <1>2 DEF SoloInv, Acting, Waiting
  <2> QED
    BY <2>1 DEF IInv, LockInv, SoloInv, Held, StopTail
<1> QED
  BY <1>1, <1>2

(***************************************************************************)
(* The frames that change the life cycle take turns: while one of them     *)
(* moves, every other waits, but for the main frame whose event callback it*)
(* is (startMu, and a host that overlaps only starts).                     *)
(***************************************************************************)
LEMMA Solo ==
  ASSUME IInv, SoloInv, NEW f \in Frame, Acting(f),
         f[2] = "main" => pc[CallbackOf(f)] = "idle",
         NEW g \in Frame, g # f, Acting(g)
  PROVE  /\ f[2] = "callback" /\ g = MainOf(f)
         /\ pc[g] \in {"box", "sub_lock", "unlock", "swap", "health_cancel"}
<1> USE FrameFacts DEF Acting, Waiting
<1>1. f[1] = g[1]
  <2> SUFFICES ASSUME f[1] # g[1] PROVE FALSE
    OBVIOUS
  <2>1. call[MainOf(f)] # 0 /\ call[MainOf(g)] # 0
    BY DEF SoloInv
  <2>2. startMu = MainOf(f) /\ startMu = MainOf(g)
    BY <2>1, ActingOwner
  <2>3. MainOf(f)[1] = f[1] /\ MainOf(g)[1] = g[1]
    OBVIOUS
  <2> QED
    BY <2>2, <2>3
<1>2. f[2] = "callback"
  BY <1>1
<1>3. g = MainOf(f)
  BY <1>1, <1>2
<1> QED
  BY <1>2, <1>3 DEF SoloInv

(* Goroutines overlap in calls of StartWithContent only. *)
Overlaps == \A g \in Frame : pc[g] # "idle" => call[MainOf(g)] # 0

(* What a step is when the host is serialized. *)
SerialNext ==
  \/ \E f \in HostMain : Quiescent /\ InitContext(f)
  \/ \E f \in HostMain : Overlaps /\ StartWithContent(f)
  \/ \E f \in HostMain : Quiescent /\ ~watchdog /\ Destroy(f)
  \/ \E f \in Frame : /\ pc[f] # "idle" \/ (f \in HostMain /\ Quiescent /\ ~watchdog)
                      /\ Stop(f)
  \/ \E f \in Frame : f = WatchdogMain /\ Overlaps /\ HealthFails(f)
  \/ \E f \in Frame : InitFail(f)
  \/ \E f \in Frame : InitDone(f)
  \/ \E f \in Frame : TranslateFail(f)
  \/ \E f \in Frame : TakeSeq(f)
  \/ \E f \in Frame : LockStart(f)
  \/ \E f \in Frame : CheckTurn(f)
  \/ \E f \in Frame : StartCas(f)
  \/ \E f \in Frame : StartBox(f)
  \/ \E f \in Frame : Publish(f)
  \/ \E f \in Frame : RunCas(f)
  \/ \E f \in Frame : UndoSwap(f)
  \/ \E f \in Frame : UndoClose(f)
  \/ \E f \in Frame : SubscribeLock(f)
  \/ \E f \in Frame : SubscribeCheck(f)
  \/ \E f \in Frame : SubscribeInstall(f)
  \/ \E f \in Frame : KeepProxy(f)
  \/ \E f \in Frame : FailCas(f)
  \/ \E f \in Frame : UnlockStart(f)
  \/ \E f \in Frame : EmitState(f)
  \/ \E f \in Frame : Swap(f)
  \/ \E f \in Frame : UnsubscribeHooks(f)
  \/ \E f \in Frame : Close(f)
  \/ \E f \in Frame : CancelHealth(f)
  \/ \E f \in Frame : RestartForHealth(f)
  \/ \E f \in Frame : LoadProxy(f)

(***************************************************************************)
(* What keeps the watchdog out of the calls that must be alone: it is under*)
(* way only while it is on, it is on only after InitContext, and while it  *)
(* is on the host is in no Stop and in no Destroy (MayStop).               *)
(***************************************************************************)
HealthInv ==
  /\ ~watchdog => \A f \in Frame : f[1] = Watchdog => pc[f] = "idle"
  /\ \A f \in Frame : f[1] = Watchdog /\ pc[f] # "idle" => call[MainOf(f)] # 0
  /\ state = "Created" => ~watchdog
  /\ \A f \in Frame : pc[f] = "init" => ~watchdog
  /\ watchdog => \A f \in Frame :
       f[1] # Watchdog /\ pc[f] # "idle" /\ call[MainOf(f)] = 0 =>
         pc[f] \in {"init_emit", "stop_call"}

OInv == SoloInv /\ DataInv /\ CallbackInv /\ EventInv /\ LatestInv /\ HealthInv

(***************************************************************************)
(* A serialized host begins InitContext, Stop and Destroy when nothing is  *)
(* in progress, not even a restart of the watchdog.                        *)
(***************************************************************************)
LEMMA SerializedSteps ==
  ASSUME Serialized, IInv, SoloInv, CallbackInv, EventInv, HealthInv, Next
  PROVE  SerialNext
<1>1. ASSUME HostIdle, ~watchdog PROVE Quiescent
  BY <1>1 DEF HostIdle, Quiescent, HealthInv
<1>2. MayStart => Overlaps
  BY FrameFacts DEF MayStart, Overlaps, MainOf, HealthInv
<1>3. CASE \E f \in Frame : Step(f)
  <2>1. PICK f \in Frame : Step(f)
    BY <1>3
  <2>2. CASE StartStep(f)
    BY <2>2 DEF StartStep, SerialNext
  <2>3. CASE InitFail(f) \/ InitDone(f) \/ EmitState(f)
    BY <2>3 DEF SerialNext
  <2>4. CASE pc[f] # "idle" /\ Stop(f)
    BY <2>4 DEF SerialNext
  <2>5. CASE Swap(f) \/ UnsubscribeHooks(f) \/ Close(f) \/ CancelHealth(f)
    BY <2>5 DEF SerialNext
  <2>6. CASE RestartForHealth(f) \/ LoadProxy(f)
    BY <2>6 DEF SerialNext
  <2> QED
    BY <2>1, <2>2, <2>3, <2>4, <2>5, <2>6 DEF Step
<1>4. CASE \E f \in HostMain : pc[f] = "idle" /\ HostCall(f)
  <2>1. PICK f \in HostMain : pc[f] = "idle" /\ HostCall(f)
    BY <1>4
  <2>2. CASE MayInit /\ InitContext(f)
    <3>1. HostIdle /\ ~watchdog
      BY <2>2 DEF MayInit, InitContext, HealthInv
    <3> QED
      BY <1>1, <2>1, <2>2, <3>1 DEF SerialNext
  <2>3. CASE MayStart /\ StartWithContent(f)
    BY <1>2, <2>3 DEF SerialNext
  <2>4. CASE MayStop /\ Stop(f)
    BY <1>1, <2>4, MainFrames DEF MayStop, SerialNext
  <2>5. CASE MayStop /\ Destroy(f)
    BY <1>1, <2>5 DEF MayStop, SerialNext
  <2> QED
    BY <2>1, <2>2, <2>3, <2>4, <2>5 DEF HostCall
<1>5. CASE HealthFails(WatchdogMain)
  <2>1. watchdog /\ state = "Running"
    BY <1>5 DEF HealthFails
  <2>2. ASSUME NEW g \in Frame, pc[g] # "idle", call[MainOf(g)] = 0 PROVE FALSE
    <3>1. pc[g] \in {"init_emit", "stop_call"}
      BY <2>1, <2>2 DEF HealthInv
    <3>2. pc[g] = "stop_call" /\ g[2] = "callback"
      BY <2>1, <3>1, FrameFacts DEF EventInv, SoloInv
    <3>3. pc[MainOf(g)] \notin {"box", "sub_lock"}
      BY <2>2, FrameFacts, ConstantFacts DEF IInv, CallInv, BeforeBox, AfterBox
    <3> QED
      BY <2>1, <3>2, <3>3 DEF CallbackInv
  <2> QED
    BY <1>5, <2>2, MainFrames DEF Overlaps, SerialNext
<1> QED
  BY <1>3, <1>4, <1>5 DEF Next

(***************************************************************************)
(* Every step keeps the watchdog out: the host stops and destroys only a   *)
(* service without one, and its callback stops only within a start or finds*)
(* nothing to stop.                                                        *)
(***************************************************************************)
LEMMA HealthStep ==
  ASSUME IInv, SoloInv, CallbackInv, EventInv, HealthInv, SerialNext \/ UNCHANGED vars
  PROVE  HealthInv'
<1> USE ConstantFacts, FrameFacts, MainFrames, HostFrames
    DEF IInv, TypeOK, LockInv, CallInv, SoloInv, CallbackInv, HealthInv, At, Goto, instVars,
        startVars, callVars, hookVars, Held, StopTail, BeforeBox, AfterBox
<1>1. ASSUME NEW f \in HostMain, Quiescent, InitContext(f) PROVE HealthInv'
  BY <1>1 DEF InitContext, Quiescent
<1>2. ASSUME NEW f \in HostMain, Overlaps, StartWithContent(f) PROVE HealthInv'
  BY <1>2 DEF StartWithContent, Overlaps, HostMain
<1>3. ASSUME NEW f \in HostMain, Quiescent, ~watchdog, Destroy(f) PROVE HealthInv'
  BY <1>3 DEF Destroy, Quiescent
<1>4. ASSUME NEW f \in Frame,
             pc[f] # "idle" \/ (f \in HostMain /\ Quiescent /\ ~watchdog), Stop(f)
      PROVE  HealthInv'
  BY <1>4 DEF Stop, AtStop, StopReturn, Quiescent
<1>5. ASSUME NEW f \in Frame, f = WatchdogMain, Overlaps, HealthFails(f) PROVE HealthInv'
  BY <1>5 DEF HealthFails, Overlaps
<1>6. ASSUME NEW f \in Frame, InitFail(f) PROVE HealthInv'
  BY <1>6 DEF InitFail
<1>7. ASSUME NEW f \in Frame, InitDone(f) PROVE HealthInv'
  <2>1. pc[f] = "init" /\ f[2] = "main" /\ pc' = [pc EXCEPT ![f] = "init_emit"]
        /\ UNCHANGED <<state, call>>
    BY <1>7 DEF InitDone
  <2>2. ~watchdog /\ call[f] = 0 /\ f = MainOf(f) /\ pc[CallbackOf(f)] = "idle"
    BY <1>7, <2>1 DEF InitDone
  <2>3. \A g \in Frame \ {f} : pc[g] = "idle"
    BY <2>1, <2>2
  <2>4. f[1] # Watchdog /\ state # "Created"
    BY <2>1, <2>2 DEF EventInv
  <2> QED
    BY <2>1, <2>3, <2>4
<1>8. ASSUME NEW f \in Frame, TranslateFail(f) PROVE HealthInv'
  <2>1. /\ pc[f] = "translate" /\ (f[2] = "main" => pc[CallbackOf(f)] = "idle")
        /\ call' = [call EXCEPT ![f] = 0] /\ pc' = [pc EXCEPT ![f] = "idle"]
        /\ UNCHANGED <<state, watchdog>>
    BY <1>8 DEF TranslateFail
  <2>2. f[2] = "main" /\ f = MainOf(f)
    BY <2>1
  <2> QED
    BY <2>1, <2>2
<1>9. ASSUME NEW f \in Frame, TakeSeq(f) PROVE HealthInv'
  BY <1>9 DEF TakeSeq
<1>10. ASSUME NEW f \in Frame, LockStart(f) PROVE HealthInv'
  BY <1>10 DEF LockStart
<1>11. ASSUME NEW f \in Frame, CheckTurn(f) PROVE HealthInv'
  BY <1>11 DEF CheckTurn
<1>12. ASSUME NEW f \in Frame, StartCas(f) PROVE HealthInv'
  BY <1>12 DEF StartCas
<1>13. ASSUME NEW f \in Frame, StartBox(f) PROVE HealthInv'
  BY <1>13 DEF StartBox
<1>14. ASSUME NEW f \in Frame, Publish(f) PROVE HealthInv'
  BY <1>14 DEF Publish
<1>15. ASSUME NEW f \in Frame, RunCas(f) PROVE HealthInv'
  BY <1>15 DEF RunCas
<1>16. ASSUME NEW f \in Frame, UndoSwap(f) PROVE HealthInv'
  BY <1>16 DEF UndoSwap
<1>17. ASSUME NEW f \in Frame, UndoClose(f) PROVE HealthInv'
  BY <1>17 DEF UndoClose
<1>18. ASSUME NEW f \in Frame, SubscribeLock(f) PROVE HealthInv'
  BY <1>18 DEF SubscribeLock
<1>19. ASSUME NEW f \in Frame, SubscribeCheck(f) PROVE HealthInv'
  BY <1>19 DEF SubscribeCheck
<1>20. ASSUME NEW f \in Frame, SubscribeInstall(f) PROVE HealthInv'
  BY <1>20 DEF SubscribeInstall
<1>21. ASSUME NEW f \in Frame, KeepProxy(f) PROVE HealthInv'
  BY <1>21 DEF KeepProxy
<1>22. ASSUME NEW f \in Frame, FailCas(f) PROVE HealthInv'
  BY <1>22 DEF FailCas
<1>23. ASSUME NEW f \in Frame, UnlockStart(f) PROVE HealthInv'
  BY <1>23 DEF UnlockStart
<1>24. ASSUME NEW f \in Frame, EmitState(f) PROVE HealthInv'
  BY <1>24 DEF EmitState, Deliver
<1>25. ASSUME NEW f \in Frame, Swap(f) PROVE HealthInv'
  BY <1>25 DEF Swap
<1>26. ASSUME NEW f \in Frame, UnsubscribeHooks(f) PROVE HealthInv'
  BY <1>26 DEF UnsubscribeHooks, StopReturn
<1>27. ASSUME NEW f \in Frame, Close(f) PROVE HealthInv'
  BY <1>27 DEF Close, StopReturn
<1>28. ASSUME NEW f \in Frame, CancelHealth(f) PROVE HealthInv'
  BY <1>28 DEF CancelHealth
<1>29. ASSUME NEW f \in Frame, RestartForHealth(f) PROVE HealthInv'
  BY <1>29 DEF RestartForHealth
<1>30. ASSUME NEW f \in Frame, LoadProxy(f) PROVE HealthInv'
  BY <1>30 DEF LoadProxy
<1>31. CASE UNCHANGED vars
  BY <1>31 DEF vars
<1> QED
  <2>1. CASE SerialNext
    BY <1>1, <1>2, <1>3, <1>4, <1>5, <1>6, <1>7, <1>8, <1>9, <1>10, <1>11, <1>12, <1>13,
       <1>14, <1>15, <1>16, <1>17, <1>18, <1>19, <1>20, <1>21, <1>22, <1>23, <1>24,
       <1>25, <1>26, <1>27, <1>28, <1>29, <1>30, <2>1 DEF SerialNext
  <2> QED
    BY <1>31, <2>1

(***************************************************************************)
(* Every step keeps the turns: a call begins when nothing else is under way,*)
(* or is a StartWithContent among others, and waits for startMu.           *)
(***************************************************************************)
LEMMA SoloStep ==
  ASSUME IInv, SoloInv, SerialNext \/ UNCHANGED vars
  PROVE  SoloInv'
<1> USE ConstantFacts, FrameFacts, MainFrames
    DEF IInv, TypeOK, LockInv, CallInv, SoloInv, At, Goto, instVars, startVars,
        callVars, hookVars,
        Held, StopTail, BeforeBox, AfterBox
<1>1. ASSUME NEW f \in HostMain, Quiescent, InitContext(f) PROVE SoloInv'
  BY <1>1 DEF InitContext, Quiescent
<1>2. ASSUME NEW f \in HostMain, Overlaps, StartWithContent(f) PROVE SoloInv'
  BY <1>2 DEF StartWithContent, Overlaps
<1>3. ASSUME NEW f \in HostMain, Quiescent, Destroy(f) PROVE SoloInv'
  BY <1>3 DEF Destroy, Quiescent
<1>4. ASSUME NEW f \in Frame, pc[f] # "idle" \/ (f \in HostMain /\ Quiescent), Stop(f)
      PROVE  SoloInv'
  BY <1>4 DEF Stop, AtStop, StopReturn, Quiescent
<1>5. ASSUME NEW f \in Frame, f = WatchdogMain, Overlaps, HealthFails(f) PROVE SoloInv'
  BY <1>5 DEF HealthFails, Overlaps
<1>6. ASSUME NEW f \in Frame, InitFail(f) PROVE SoloInv'
  BY <1>6 DEF InitFail
<1>7. ASSUME NEW f \in Frame, InitDone(f) PROVE SoloInv'
  BY <1>7 DEF InitDone
<1>8. ASSUME NEW f \in Frame, TranslateFail(f) PROVE SoloInv'
  BY <1>8 DEF TranslateFail
<1>9. ASSUME NEW f \in Frame, TakeSeq(f) PROVE SoloInv'
  BY <1>9 DEF TakeSeq
<1>10. ASSUME NEW f \in Frame, LockStart(f) PROVE SoloInv'
  BY <1>10 DEF LockStart
<1>11. ASSUME NEW f \in Frame, CheckTurn(f) PROVE SoloInv'
  BY <1>11 DEF CheckTurn
<1>12. ASSUME NEW f \in Frame, StartCas(f) PROVE SoloInv'
  BY <1>12 DEF StartCas
<1>13. ASSUME NEW f \in Frame, StartBox(f) PROVE SoloInv'
  BY <1>13 DEF StartBox
<1>14. ASSUME NEW f \in Frame, Publish(f) PROVE SoloInv'
  BY <1>14 DEF Publish
<1>15. ASSUME NEW f \in Frame, RunCas(f) PROVE SoloInv'
  BY <1>15 DEF RunCas
<1>16. ASSUME NEW f \in Frame, UndoSwap(f) PROVE SoloInv'
  BY <1>16 DEF UndoSwap
<1>17. ASSUME NEW f \in Frame, UndoClose(f) PROVE SoloInv'
  BY <1>17 DEF UndoClose
<1>18. ASSUME NEW f \in Frame, SubscribeLock(f) PROVE SoloInv'
  BY <1>18 DEF SubscribeLock
<1>19. ASSUME NEW f \in Frame, SubscribeCheck(f) PROVE SoloInv'
  BY <1>19 DEF SubscribeCheck
<1>20. ASSUME NEW f \in Frame, SubscribeInstall(f) PROVE SoloInv'
  BY <1>20 DEF SubscribeInstall
<1>21. ASSUME NEW f \in Frame, KeepProxy(f) PROVE SoloInv'
  BY <1>21 DEF KeepProxy
<1>22. ASSUME NEW f \in Frame, FailCas(f) PROVE SoloInv'
  BY <1>22 DEF FailCas
<1>23. ASSUME NEW f \in Frame, UnlockStart(f) PROVE SoloInv'
  BY <1>23 DEF UnlockStart
<1>24. ASSUME NEW f \in Frame, EmitState(f) PROVE SoloInv'
  BY <1>24 DEF EmitState, Deliver
<1>25. ASSUME NEW f \in Frame, Swap(f) PROVE SoloInv'
  BY <1>25 DEF Swap
<1>26. ASSUME NEW f \in Frame, UnsubscribeHooks(f) PROVE SoloInv'
  BY <1>26 DEF UnsubscribeHooks, StopReturn
<1>27. ASSUME NEW f \in Frame, Close(f) PROVE SoloInv'
  BY <1>27 DEF Close, StopReturn
<1>28. ASSUME NEW f \in Frame, CancelHealth(f) PROVE SoloInv'
  BY <1>28 DEF CancelHealth
<1>29. ASSUME NEW f \in Frame, RestartForHealth(f) PROVE SoloInv'
  <2>1. CASE call' = [call EXCEPT ![f] = 0] /\ pc' = [pc EXCEPT ![f] = "idle"]
    BY <1>29, <2>1 DEF RestartForHealth
  <2>2. CASE UNCHANGED call /\ pc' = [pc EXCEPT ![f] = "health_proxy"]
    BY <1>29, <2>2 DEF RestartForHealth
  <2> QED
    BY <1>29, <2>1, <2>2 DEF RestartForHealth
<1>30. ASSUME NEW f \in Frame, LoadProxy(f) PROVE SoloInv'
  BY <1>30 DEF LoadProxy
<1>31. CASE UNCHANGED vars
  BY <1>31 DEF vars
<1> QED
  <2>1. CASE SerialNext
    BY <1>1, <1>2, <1>3, <1>4, <1>5, <1>6, <1>7, <1>8, <1>9, <1>10, <1>11, <1>12, <1>13,
       <1>14, <1>15, <1>16, <1>17, <1>18, <1>19, <1>20, <1>21, <1>22, <1>23, <1>24,
       <1>25, <1>26, <1>27, <1>28, <1>29, <1>30, <2>1 DEF SerialNext
  <2> QED
    BY <1>31, <2>1

(* No frame but f acts, or the one whose event callback f is. *)
OnlyActs(f) ==
  \A g \in Frame : g # f /\ Acting(g) =>
    /\ f[2] = "callback" /\ g = MainOf(f)
    /\ pc[g] \in {"box", "sub_lock", "unlock", "swap", "health_cancel"}

(***************************************************************************)
(* Whoever moves next in the middle of a transition moves alone.           *)
(***************************************************************************)
LEMMA Turn ==
  ASSUME IInv, SoloInv, NEW f \in Frame, Acting(f), At(f, pc[f])
  PROVE  OnlyActs(f)
<1>1. f[2] = "main" => pc[CallbackOf(f)] = "idle"
  BY DEF At
<1> QED
  BY <1>1, Solo DEF OnlyActs

(***************************************************************************)
(* Every step keeps the life cycle, the live instance and the last event in*)
(* agreement, or leaves them to the frame that is in the middle of its     *)
(* transition (casState, startWithJSON, Stop, Destroy).                    *)
(***************************************************************************)
LEMMA DataStep ==
  ASSUME IInv, SoloInv, DataInv, CallbackInv, EventInv, SerialNext \/ UNCHANGED vars
  PROVE  DataInv' /\ CallbackInv' /\ EventInv'
<1> USE ConstantFacts, FrameFacts, MainFrames
    DEF IInv, TypeOK, LockInv, CallInv, SoloInv, At, Goto, instVars, startVars,
        callVars, hookVars,
        Held, StopTail, BeforeBox, AfterBox, Waiting, Acting, Only, Settled, Unsettled,
        DataInv, CallbackInv, EventInv, Emitting, OnlyActs
<1>1. ASSUME NEW f \in HostMain, Quiescent, InitContext(f)
      PROVE  DataInv' /\ CallbackInv' /\ EventInv'
  BY <1>1 DEF InitContext, Quiescent
<1>2. ASSUME NEW f \in HostMain, Overlaps, StartWithContent(f)
      PROVE  DataInv' /\ CallbackInv' /\ EventInv'
  BY <1>2 DEF StartWithContent, Overlaps
<1>3. ASSUME NEW f \in HostMain, Quiescent, Destroy(f)
      PROVE  DataInv' /\ CallbackInv' /\ EventInv'
  BY <1>3 DEF Destroy, Quiescent
<1>4. ASSUME NEW f \in Frame, pc[f] # "idle" \/ (f \in HostMain /\ Quiescent), Stop(f)
      PROVE  DataInv' /\ CallbackInv' /\ EventInv'
  <2>1. OnlyActs(f)
    BY <1>4, Turn DEF Stop, AtStop, StopReturn, Quiescent, Acting, Waiting
  <2>2. DataInv'
    BY <1>4, <2>1 DEF Stop, AtStop, StopReturn, Quiescent
  <2>3. CallbackInv'
    BY <1>4, <2>1 DEF Stop, AtStop, StopReturn, Quiescent
  <2>4. EventInv'
    BY <1>4, <2>1 DEF Stop, AtStop, StopReturn, Quiescent
  <2> QED
    BY <2>2, <2>3, <2>4
<1>5. ASSUME NEW f \in Frame, f = WatchdogMain, Overlaps, HealthFails(f)
      PROVE  DataInv' /\ CallbackInv' /\ EventInv'
  BY <1>5 DEF HealthFails, Overlaps
<1>6. ASSUME NEW f \in Frame, InitFail(f) PROVE DataInv' /\ CallbackInv' /\ EventInv'
  <2>1. OnlyActs(f)
    BY <1>6, Turn DEF InitFail, Acting, Waiting
  <2>2. DataInv'
    BY <1>6, <2>1 DEF InitFail
  <2>3. CallbackInv'
    BY <1>6, <2>1 DEF InitFail
  <2>4. EventInv'
    BY <1>6, <2>1 DEF InitFail
  <2> QED
    BY <2>2, <2>3, <2>4
<1>7. ASSUME NEW f \in Frame, InitDone(f) PROVE DataInv' /\ CallbackInv' /\ EventInv'
  <2>1. OnlyActs(f)
    BY <1>7, Turn DEF InitDone, Acting, Waiting
  <2>2. DataInv'
    BY <1>7, <2>1 DEF InitDone
  <2>3. CallbackInv'
    BY <1>7, <2>1 DEF InitDone
  <2>4. EventInv'
    BY <1>7, <2>1 DEF InitDone
  <2> QED
    BY <2>2, <2>3, <2>4
<1>8. ASSUME NEW f \in Frame, TranslateFail(f) PROVE DataInv' /\ CallbackInv' /\ EventInv'
  BY <1>8 DEF TranslateFail
<1>9. ASSUME NEW f \in Frame, TakeSeq(f) PROVE DataInv' /\ CallbackInv' /\ EventInv'
  BY <1>9 DEF TakeSeq
<1>10. ASSUME NEW f \in Frame, LockStart(f) PROVE DataInv' /\ CallbackInv' /\ EventInv'
  BY <1>10 DEF LockStart
<1>11. ASSUME NEW f \in Frame, CheckTurn(f) PROVE DataInv' /\ CallbackInv' /\ EventInv'
  <2>1. OnlyActs(f)
    BY <1>11, Turn DEF CheckTurn, Acting, Waiting
  <2>2. DataInv'
    BY <1>11, <2>1 DEF CheckTurn
  <2>3. CallbackInv'
    BY <1>11, <2>1 DEF CheckTurn
  <2>4. EventInv'
    BY <1>11, <2>1 DEF CheckTurn
  <2> QED
    BY <2>2, <2>3, <2>4
<1>12. ASSUME NEW f \in Frame, StartCas(f) PROVE DataInv' /\ CallbackInv' /\ EventInv'
  <2>1. OnlyActs(f)
    BY <1>12, Turn DEF StartCas, Acting, Waiting
  <2>2. DataInv'
    BY <1>12, <2>1 DEF StartCas
  <2>3. CallbackInv'
    BY <1>12, <2>1 DEF StartCas
  <2>4. EventInv'
    BY <1>12, <2>1 DEF StartCas
  <2> QED
    BY <2>2, <2>3, <2>4
<1>13. ASSUME NEW f \in Frame, StartBox(f) PROVE DataInv' /\ CallbackInv' /\ EventInv'
  <2>1. OnlyActs(f)
    BY <1>13, Turn DEF StartBox, Acting, Waiting
  <2>2. DataInv'
    BY <1>13, <2>1 DEF StartBox
  <2>3. CallbackInv'
    BY <1>13, <2>1 DEF StartBox
  <2>4. EventInv'
    BY <1>13, <2>1 DEF StartBox
  <2> QED
    BY <2>2, <2>3, <2>4
<1>14. ASSUME NEW f \in Frame, Publish(f) PROVE DataInv' /\ CallbackInv' /\ EventInv'
  <2>1. OnlyActs(f)
    BY <1>14, Turn DEF Publish, Acting, Waiting
  <2>2. DataInv'
    BY <1>14, <2>1 DEF Publish
  <2>3. CallbackInv'
    BY <1>14, <2>1 DEF Publish
  <2>4. EventInv'
    BY <1>14, <2>1 DEF Publish
  <2> QED
    BY <2>2, <2>3, <2>4
<1>15. ASSUME NEW f \in Frame, RunCas(f) PROVE DataInv' /\ CallbackInv' /\ EventInv'
  <2>1. OnlyActs(f)
    BY <1>15, Turn DEF RunCas, Acting, Waiting
  <2>2. DataInv'
    BY <1>15, <2>1 DEF RunCas
  <2>3. CallbackInv'
    BY <1>15, <2>1 DEF RunCas
  <2>4. EventInv'
    BY <1>15, <2>1 DEF RunCas
  <2> QED
    BY <2>2, <2>3, <2>4
<1>16. ASSUME NEW f \in Frame, UndoSwap(f) PROVE DataInv' /\ CallbackInv' /\ EventInv'
  <2>1. OnlyActs(f)
    BY <1>16, Turn DEF UndoSwap, Acting, Waiting
  <2>2. DataInv'
    BY <1>16, <2>1 DEF UndoSwap
  <2>3. CallbackInv'
    BY <1>16, <2>1 DEF UndoSwap
  <2>4. EventInv'
    BY <1>16, <2>1 DEF UndoSwap
  <2> QED
    BY <2>2, <2>3, <2>4
<1>17. ASSUME NEW f \in Frame, UndoClose(f) PROVE DataInv' /\ CallbackInv' /\ EventInv'
  <2>1. OnlyActs(f)
    BY <1>17, Turn DEF UndoClose, Acting, Waiting
  <2>2. DataInv'
    BY <1>17, <2>1 DEF UndoClose
  <2>3. CallbackInv'
    BY <1>17, <2>1 DEF UndoClose
  <2>4. EventInv'
    BY <1>17, <2>1 DEF UndoClose
  <2> QED
    BY <2>2, <2>3, <2>4
<1>18. ASSUME NEW f \in Frame, SubscribeLock(f)
      PROVE  DataInv' /\ CallbackInv' /\ EventInv'
  <2>1. OnlyActs(f)
    BY <1>18, Turn DEF SubscribeLock, Acting, Waiting
  <2>2. DataInv'
    BY <1>18, <2>1 DEF SubscribeLock
  <2>3. CallbackInv'
    BY <1>18, <2>1 DEF SubscribeLock
  <2>4. EventInv'
    BY <1>18, <2>1 DEF SubscribeLock
  <2> QED
    BY <2>2, <2>3, <2>4
<1>19. ASSUME NEW f \in Frame, SubscribeCheck(f)
      PROVE  DataInv' /\ CallbackInv' /\ EventInv'
  <2>1. OnlyActs(f)
    BY <1>19, Turn DEF SubscribeCheck, Acting, Waiting
  <2>2. DataInv'
    BY <1>19, <2>1 DEF SubscribeCheck
  <2>3. CallbackInv'
    BY <1>19, <2>1 DEF SubscribeCheck
  <2>4. EventInv'
    BY <1>19, <2>1 DEF SubscribeCheck
  <2> QED
    BY <2>2, <2>3, <2>4
<1>20. ASSUME NEW f \in Frame, SubscribeInstall(f)
      PROVE  DataInv' /\ CallbackInv' /\ EventInv'
  <2>1. OnlyActs(f)
    BY <1>20, Turn DEF SubscribeInstall, Acting, Waiting
  <2>2. DataInv'
    BY <1>20, <2>1 DEF SubscribeInstall
  <2>3. CallbackInv'
    BY <1>20, <2>1 DEF SubscribeInstall
  <2>4. EventInv'
    BY <1>20, <2>1 DEF SubscribeInstall
  <2> QED
    BY <2>2, <2>3, <2>4
<1>21. ASSUME NEW f \in Frame, KeepProxy(f) PROVE DataInv' /\ CallbackInv' /\ EventInv'
  <2>1. OnlyActs(f)
    BY <1>21, Turn DEF KeepProxy, Acting, Waiting
  <2>2. DataInv'
    BY <1>21, <2>1 DEF KeepProxy
  <2>3. CallbackInv'
    BY <1>21, <2>1 DEF KeepProxy
  <2>4. EventInv'
    BY <1>21, <2>1 DEF KeepProxy
  <2> QED
    BY <2>2, <2>3, <2>4
<1>22. ASSUME NEW f \in Frame, FailCas(f) PROVE DataInv' /\ CallbackInv' /\ EventInv'
  <2>1. OnlyActs(f)
    BY <1>22, Turn DEF FailCas, Acting, Waiting
  <2>2. DataInv'
    BY <1>22, <2>1 DEF FailCas
  <2>3. CallbackInv'
    BY <1>22, <2>1 DEF FailCas
  <2>4. EventInv'
    BY <1>22, <2>1 DEF FailCas
  <2> QED
    BY <2>2, <2>3, <2>4
<1>23. ASSUME NEW f \in Frame, UnlockStart(f) PROVE DataInv' /\ CallbackInv' /\ EventInv'
  <2>1. OnlyActs(f)
    BY <1>23, Turn DEF UnlockStart, Acting, Waiting
  <2>2. DataInv'
    BY <1>23, <2>1 DEF UnlockStart
  <2>3. CallbackInv'
    BY <1>23, <2>1 DEF UnlockStart
  <2>4. EventInv'
    BY <1>23, <2>1 DEF UnlockStart
  <2> QED
    BY <2>2, <2>3, <2>4
<1>24. ASSUME NEW f \in Frame, EmitState(f) PROVE DataInv' /\ CallbackInv' /\ EventInv'
  <2>1. OnlyActs(f)
    BY <1>24, Turn DEF EmitState, Deliver, Acting, Waiting
  <2>2. DataInv'
    <3>1. CASE Deliver(f, "init_emit", "Initialized", "idle")
      BY <2>1, <3>1 DEF Deliver
    <3>2. CASE Deliver(f, "starting_emit", "Starting", "box")
      BY <2>1, <3>2, SMTT(30) DEF Deliver
    <3>3. CASE Deliver(f, "running_emit", "Running", "sub_lock")
      BY <2>1, <3>3 DEF Deliver
    <3>4. CASE Deliver(f, "fail_emit", "Initialized", "unlock")
      BY <2>1, <3>4 DEF Deliver
    <3>5. CASE Deliver(f, "stop_emit", "Initialized", "swap")
      BY <2>1, <3>5 DEF Deliver
    <3>6. CASE Deliver(f, "destroy_emit", "Destroyed", "health_cancel")
      BY <2>1, <3>6 DEF Deliver
    <3> QED
      BY <1>24, <3>1, <3>2, <3>3, <3>4, <3>5, <3>6 DEF EmitState
  <2>3. CallbackInv'
    BY <1>24, <2>1 DEF EmitState, Deliver
  <2>4. EventInv'
    BY <1>24, <2>1 DEF EmitState, Deliver
  <2> QED
    BY <2>2, <2>3, <2>4
<1>25. ASSUME NEW f \in Frame, Swap(f) PROVE DataInv' /\ CallbackInv' /\ EventInv'
  <2>1. OnlyActs(f)
    BY <1>25, Turn DEF Swap, Acting, Waiting
  <2>2. DataInv'
    BY <1>25, <2>1 DEF Swap
  <2>3. CallbackInv'
    BY <1>25, <2>1 DEF Swap
  <2>4. EventInv'
    BY <1>25, <2>1 DEF Swap
  <2> QED
    BY <2>2, <2>3, <2>4
<1>26. ASSUME NEW f \in Frame, UnsubscribeHooks(f)
      PROVE  DataInv' /\ CallbackInv' /\ EventInv'
  <2>1. OnlyActs(f)
    BY <1>26, Turn DEF UnsubscribeHooks, StopReturn, Acting, Waiting
  <2>2. DataInv'
    BY <1>26, <2>1 DEF UnsubscribeHooks, StopReturn
  <2>3. CallbackInv'
    BY <1>26, <2>1 DEF UnsubscribeHooks, StopReturn
  <2>4. EventInv'
    BY <1>26, <2>1 DEF UnsubscribeHooks, StopReturn
  <2> QED
    BY <2>2, <2>3, <2>4
<1>27. ASSUME NEW f \in Frame, Close(f) PROVE DataInv' /\ CallbackInv' /\ EventInv'
  <2>1. OnlyActs(f)
    BY <1>27, Turn DEF Close, StopReturn, Acting, Waiting
  <2>2. DataInv'
    BY <1>27, <2>1 DEF Close, StopReturn
  <2>3. CallbackInv'
    BY <1>27, <2>1 DEF Close, StopReturn
  <2>4. EventInv'
    BY <1>27, <2>1 DEF Close, StopReturn
  <2> QED
    BY <2>2, <2>3, <2>4
<1>28. ASSUME NEW f \in Frame, CancelHealth(f) PROVE DataInv' /\ CallbackInv' /\ EventInv'
  <2>1. OnlyActs(f)
    BY <1>28, Turn DEF CancelHealth, Acting, Waiting
  <2>2. DataInv'
    BY <1>28, <2>1 DEF CancelHealth
  <2>3. CallbackInv'
    BY <1>28, <2>1 DEF CancelHealth
  <2>4. EventInv'
    BY <1>28, <2>1 DEF CancelHealth
  <2> QED
    BY <2>2, <2>3, <2>4
<1>29. ASSUME NEW f \in Frame, RestartForHealth(f)
      PROVE  DataInv' /\ CallbackInv' /\ EventInv'
  BY <1>29 DEF RestartForHealth
<1>30. ASSUME NEW f \in Frame, LoadProxy(f) PROVE DataInv' /\ CallbackInv' /\ EventInv'
  BY <1>30 DEF LoadProxy
<1>31. CASE UNCHANGED vars
  BY <1>31 DEF vars
<1> QED
  <2>1. CASE SerialNext
    BY <1>1, <1>2, <1>3, <1>4, <1>5, <1>6, <1>7, <1>8, <1>9, <1>10, <1>11, <1>12, <1>13,
       <1>14, <1>15, <1>16, <1>17, <1>18, <1>19, <1>20, <1>21, <1>22, <1>23, <1>24,
       <1>25, <1>26, <1>27, <1>28, <1>29, <1>30, <2>1 DEF SerialNext
  <2> QED
    BY <1>31, <2>1

(***************************************************************************)
(* Every step keeps the latest start ahead: a start that gives way to a later*)
(* one does so while that one still waits for startMu (startSeq).          *)
(***************************************************************************)
LEMMA LatestStep ==
  ASSUME IInv, SoloInv, DataInv, LatestInv, SerialNext \/ UNCHANGED vars
  PROVE  LatestInv'
<1> USE ConstantFacts, FrameFacts, MainFrames
    DEF IInv, TypeOK, LockInv, CallInv, SoloInv, At, Goto, instVars, startVars,
        callVars, hookVars,
        Held, StopTail, BeforeBox, AfterBox, LatestInv
<1>1. ASSUME NEW f \in HostMain, Quiescent, InitContext(f) PROVE LatestInv'
  BY <1>1 DEF InitContext, Quiescent
<1>2. ASSUME NEW f \in HostMain, Overlaps, StartWithContent(f) PROVE LatestInv'
  BY <1>2 DEF StartWithContent, Overlaps
<1>3. ASSUME NEW f \in HostMain, Quiescent, Destroy(f) PROVE LatestInv'
  BY <1>3 DEF Destroy, Quiescent
<1>4. ASSUME NEW f \in Frame, pc[f] # "idle" \/ (f \in HostMain /\ Quiescent), Stop(f)
      PROVE  LatestInv'
  <2>1. CASE pc[f] = "stop_prev"
    <3>1. \A g \in Frame : pc[g] \notin Unsettled
      <4>1. \A g \in Frame : g # f /\ Acting(g) => f[2] = "callback"
        BY <1>4, <2>1, Turn DEF Stop, AtStop, Quiescent, Acting, Waiting, OnlyActs
      <4>2. \A g \in Frame : g # f => pc[g] \in Waiting
        BY <2>1, <4>1 DEF Acting
      <4> QED
        BY <2>1, <4>2 DEF Waiting, Unsettled
    <3>2. state \notin {"Running", "Starting"} => running = None
      BY <3>1 DEF DataInv, Settled
    <3> QED
      BY <1>4, <2>1, <3>2 DEF Stop, AtStop, StopReturn, Quiescent
  <2>2. CASE pc[f] # "stop_prev"
    BY <1>4, <2>2 DEF Stop, AtStop, StopReturn, Quiescent
  <2> QED
    BY <2>1, <2>2
<1>5. ASSUME NEW f \in Frame, f = WatchdogMain, Overlaps, HealthFails(f) PROVE LatestInv'
  BY <1>5 DEF HealthFails, Overlaps
<1>6. ASSUME NEW f \in Frame, InitFail(f) PROVE LatestInv'
  BY <1>6 DEF InitFail
<1>7. ASSUME NEW f \in Frame, InitDone(f) PROVE LatestInv'
  BY <1>7 DEF InitDone
<1>8. ASSUME NEW f \in Frame, TranslateFail(f) PROVE LatestInv'
  BY <1>8 DEF TranslateFail
<1>9. ASSUME NEW f \in Frame, TakeSeq(f) PROVE LatestInv'
  BY <1>9 DEF TakeSeq
<1>10. ASSUME NEW f \in Frame, LockStart(f) PROVE LatestInv'
  BY <1>10 DEF LockStart
<1>11. ASSUME NEW f \in Frame, CheckTurn(f) PROVE LatestInv'
  BY <1>11 DEF CheckTurn
<1>12. ASSUME NEW f \in Frame, StartCas(f) PROVE LatestInv'
  BY <1>12 DEF StartCas
<1>13. ASSUME NEW f \in Frame, StartBox(f) PROVE LatestInv'
  BY <1>13 DEF StartBox
<1>14. ASSUME NEW f \in Frame, Publish(f) PROVE LatestInv'
  BY <1>14 DEF Publish
<1>15. ASSUME NEW f \in Frame, RunCas(f) PROVE LatestInv'
  BY <1>15 DEF RunCas
<1>16. ASSUME NEW f \in Frame, UndoSwap(f) PROVE LatestInv'
  BY <1>16 DEF UndoSwap
<1>17. ASSUME NEW f \in Frame, UndoClose(f) PROVE LatestInv'
  BY <1>17 DEF UndoClose
<1>18. ASSUME NEW f \in Frame, SubscribeLock(f) PROVE LatestInv'
  BY <1>18 DEF SubscribeLock
<1>19. ASSUME NEW f \in Frame, SubscribeCheck(f) PROVE LatestInv'
  BY <1>19 DEF SubscribeCheck
<1>20. ASSUME NEW f \in Frame, SubscribeInstall(f) PROVE LatestInv'
  BY <1>20 DEF SubscribeInstall
<1>21. ASSUME NEW f \in Frame, KeepProxy(f) PROVE LatestInv'
  BY <1>21 DEF KeepProxy
<1>22. ASSUME NEW f \in Frame, FailCas(f) PROVE LatestInv'
  BY <1>22 DEF FailCas
<1>23. ASSUME NEW f \in Frame, UnlockStart(f) PROVE LatestInv'
  BY <1>23 DEF UnlockStart
<1>24. ASSUME NEW f \in Frame, EmitState(f) PROVE LatestInv'
  BY <1>24 DEF EmitState, Deliver
<1>25. ASSUME NEW f \in Frame, Swap(f) PROVE LatestInv'
  BY <1>25 DEF Swap
<1>26. ASSUME NEW f \in Frame, UnsubscribeHooks(f) PROVE LatestInv'
  BY <1>26 DEF UnsubscribeHooks, StopReturn
<1>27. ASSUME NEW f \in Frame, Close(f) PROVE LatestInv'
  BY <1>27 DEF Close, StopReturn
<1>28. ASSUME NEW f \in Frame, CancelHealth(f) PROVE LatestInv'
  BY <1>28 DEF CancelHealth
<1>29. ASSUME NEW f \in Frame, RestartForHealth(f) PROVE LatestInv'
  BY <1>29 DEF RestartForHealth
<1>30. ASSUME NEW f \in Frame, LoadProxy(f) PROVE LatestInv'
  BY <1>30 DEF LoadProxy
<1>31. CASE UNCHANGED vars
  BY <1>31 DEF vars
<1> QED
  <2>1. CASE SerialNext
    BY <1>1, <1>2, <1>3, <1>4, <1>5, <1>6, <1>7, <1>8, <1>9, <1>10, <1>11, <1>12, <1>13,
       <1>14, <1>15, <1>16, <1>17, <1>18, <1>19, <1>20, <1>21, <1>22, <1>23, <1>24,
       <1>25, <1>26, <1>27, <1>28, <1>29, <1>30, <2>1 DEF SerialNext
  <2> QED
    BY <1>31, <2>1

(* The invariant holds when the service is created. *)
LEMMA InitOInv == Init => OInv
<1> SUFFICES ASSUME Init PROVE OInv
  OBVIOUS
<1> USE ConstantFacts, FrameFacts
<1>1. SoloInv
  BY DEF Init, SoloInv, StopTail
<1>2. DataInv
  BY DEF Init, DataInv, Settled, Only, Unsettled, StopTail
<1>3. CallbackInv /\ EventInv /\ LatestInv
  BY DEF Init, CallbackInv, EventInv, LatestInv, StopTail, Emitting
<1>4. HealthInv
  BY DEF Init, HealthInv
<1> QED
  BY <1>1, <1>2, <1>3, <1>4 DEF OInv

(***************************************************************************)
(* A serialized host never sees OInv violated (casState, startMu).         *)
(***************************************************************************)
LEMMA OrderedInvariance == ASSUME Serialized PROVE Spec => [](IInv /\ OInv)
<1>1. IInv /\ OInv /\ [Next]_vars => SerialNext \/ UNCHANGED vars
  BY SerializedSteps DEF OInv
<1>2. IInv /\ OInv /\ [Next]_vars => OInv'
  BY <1>1, SoloStep, DataStep, LatestStep, HealthStep DEF OInv
<1> QED
  BY <1>2, InitOInv, Invariance, PTL DEF Spec

----------------------------------------------------------------------------
(***************************************************************************)
(* When no call is in progress the service is Running exactly when an      *)
(* instance is published, and no other instance lives (the comment of      *)
(* startMu): neither an error nor a Stop from the event callback of a start*)
(* leaves a kernel that nobody can stop.  For a serialized host: a restart *)
(* of the watchdog inside a Stop breaks this.                              *)
(***************************************************************************)
THEOREM ConsistentWhenServed == ASSUME Serialized PROVE Spec => []ConsistentWhenIdle
<1>1. IInv /\ OInv => ConsistentWhenIdle
  <2> SUFFICES ASSUME IInv, OInv, Quiescent
               PROVE  /\ state = "Running" <=> running # None
                      /\ Live = {running} \ {None}
    BY DEF ConsistentWhenIdle
  <2>1. Settled
    BY DEF OInv, DataInv, Quiescent, Unsettled, StopTail
  <2> QED
    BY <2>1, ConstantFacts DEF Settled, Only, Live, IInv, TypeOK
<1> QED
  BY <1>1, OrderedInvariance, PTL

(***************************************************************************)
(* A restart, of the host or of the watchdog, closes the old instance      *)
(* before it creates the next one, on every path through the failures of a *)
(* start (startWithJSON), for a serialized host: a Stop that overlaps a    *)
(* restart may still have the old instance to close.                       *)
(***************************************************************************)
THEOREM NeverTwoInstances == ASSUME Serialized PROVE Spec => []OneInstance
<1>1. ASSUME OInv PROVE \E n : Only(n)
  <2>1. CASE \E f \in Frame : pc[f] \in Unsettled
    BY <1>1, <2>1 DEF OInv, DataInv, Unsettled, StopTail
  <2>2. CASE ~ \E f \in Frame : pc[f] \in Unsettled
    BY <1>1, <2>2 DEF OInv, DataInv, Settled
  <2> QED
    BY <2>1, <2>2
<1>2. OInv => OneInstance
  <2> SUFFICES ASSUME OInv PROVE Cardinality(Live) <= 1
    BY DEF OneInstance
  <2>1. PICK n : Only(n)
    BY <1>1
  <2>2. Live = {} \/ Live = {n}
    BY <2>1 DEF Only, Live
  <2>3. Cardinality({}) = 0 /\ Cardinality({n}) = 1
    BY FS_EmptySet, FS_Singleton
  <2> QED
    BY <2>2, <2>3
<1> QED
  BY <1>2, OrderedInvariance, PTL

(***************************************************************************)
(* When no call is in progress a serialized host has been told the state,  *)
(* although casState swaps and emits in two steps; the event of a Stop that*)
(* overlaps a restart of the watchdog may come late.                       *)
(***************************************************************************)
THEOREM LastEventTrue == ASSUME Serialized PROVE Spec => []LastEventIsState
<1>1. OInv => LastEventIsState
  BY DEF OInv, EventInv, LastEventIsState, Quiescent, Emitting
<1> QED
  BY <1>1, OrderedInvariance, PTL

(***************************************************************************)
(* Of any number of overlapping calls of StartWithContent the one that took*)
(* the highest sequence number is served in the end, whatever the order in *)
(* which they got startMu (startSeq in startWithJSON).                     *)
(***************************************************************************)
THEOREM LatestIsServed == ASSUME Serialized PROVE Spec => []LatestStartWins
<1>1. OInv => LatestStartWins
  BY DEF OInv, LatestInv, LatestStartWins, Quiescent
<1> QED
  BY <1>1, OrderedInvariance, PTL

----------------------------------------------------------------------------
(* The refinement: what each access to the shared state is in the          *)
(* documented life cycle.                                                  *)

(***************************************************************************)
(* Every step of the service is a step of the documented life cycle or     *)
(* leaves it unchanged: the compare-and-swaps are its transitions, and the *)
(* published instance changes only outside Running.                        *)
(***************************************************************************)
LEMMA LifecycleStep ==
  ASSUME IInv, SoloInv, DataInv, EventInv, SerialNext \/ UNCHANGED vars
  PROVE  [Documented!Next]_(Documented!vars)
<1> USE ConstantFacts
    DEF At, Goto, instVars, startVars, callVars, hookVars, DataInv, EventInv, IInv,
        TypeOK, State,
        Documented!Next, Documented!vars, Documented!Move, Documented!Initialize,
        Documented!Uninitialize, Documented!Begin, Documented!Serve, Documented!Halt,
        Documented!Destroy
<1>1. ASSUME NEW f \in HostMain, Quiescent, InitContext(f)
      PROVE  [Documented!Next]_(Documented!vars)
  BY <1>1 DEF InitContext, Quiescent
<1>2. ASSUME NEW f \in HostMain, Overlaps, StartWithContent(f)
      PROVE  [Documented!Next]_(Documented!vars)
  BY <1>2 DEF StartWithContent, Overlaps
<1>3. ASSUME NEW f \in HostMain, Quiescent, Destroy(f)
      PROVE  [Documented!Next]_(Documented!vars)
  BY <1>3 DEF Destroy, Quiescent
<1>4. ASSUME NEW f \in Frame, pc[f] # "idle" \/ (f \in HostMain /\ Quiescent), Stop(f)
      PROVE  [Documented!Next]_(Documented!vars)
  BY <1>4 DEF Stop, AtStop, StopReturn, Quiescent
<1>5. ASSUME NEW f \in Frame, f = WatchdogMain, Overlaps, HealthFails(f)
      PROVE  [Documented!Next]_(Documented!vars)
  BY <1>5 DEF HealthFails, Overlaps
<1>6. ASSUME NEW f \in Frame, InitFail(f) PROVE [Documented!Next]_(Documented!vars)
  BY <1>6 DEF InitFail
<1>7. ASSUME NEW f \in Frame, InitDone(f) PROVE [Documented!Next]_(Documented!vars)
  BY <1>7 DEF InitDone
<1>8. ASSUME NEW f \in Frame, TranslateFail(f) PROVE [Documented!Next]_(Documented!vars)
  BY <1>8 DEF TranslateFail
<1>9. ASSUME NEW f \in Frame, TakeSeq(f) PROVE [Documented!Next]_(Documented!vars)
  BY <1>9 DEF TakeSeq
<1>10. ASSUME NEW f \in Frame, LockStart(f) PROVE [Documented!Next]_(Documented!vars)
  BY <1>10 DEF LockStart
<1>11. ASSUME NEW f \in Frame, CheckTurn(f) PROVE [Documented!Next]_(Documented!vars)
  BY <1>11 DEF CheckTurn
<1>12. ASSUME NEW f \in Frame, StartCas(f) PROVE [Documented!Next]_(Documented!vars)
  BY <1>12 DEF StartCas
<1>13. ASSUME NEW f \in Frame, StartBox(f) PROVE [Documented!Next]_(Documented!vars)
  BY <1>13 DEF StartBox
<1>14. ASSUME NEW f \in Frame, Publish(f) PROVE [Documented!Next]_(Documented!vars)
  BY <1>14 DEF Publish
<1>15. ASSUME NEW f \in Frame, RunCas(f) PROVE [Documented!Next]_(Documented!vars)
  <2>1. running = call[f] /\ running \in Call
    BY <1>15 DEF RunCas, CallInv, BeforeBox, AfterBox
  <2> QED
    BY <1>15, <2>1 DEF RunCas
<1>16. ASSUME NEW f \in Frame, UndoSwap(f) PROVE [Documented!Next]_(Documented!vars)
  BY <1>16 DEF UndoSwap
<1>17. ASSUME NEW f \in Frame, UndoClose(f) PROVE [Documented!Next]_(Documented!vars)
  BY <1>17 DEF UndoClose
<1>18. ASSUME NEW f \in Frame, SubscribeLock(f) PROVE [Documented!Next]_(Documented!vars)
  BY <1>18 DEF SubscribeLock
<1>19. ASSUME NEW f \in Frame, SubscribeCheck(f) PROVE [Documented!Next]_(Documented!vars)
  BY <1>19 DEF SubscribeCheck
<1>20. ASSUME NEW f \in Frame, SubscribeInstall(f)
      PROVE  [Documented!Next]_(Documented!vars)
  BY <1>20 DEF SubscribeInstall
<1>21. ASSUME NEW f \in Frame, KeepProxy(f) PROVE [Documented!Next]_(Documented!vars)
  BY <1>21 DEF KeepProxy
<1>22. ASSUME NEW f \in Frame, FailCas(f) PROVE [Documented!Next]_(Documented!vars)
  BY <1>22 DEF FailCas
<1>23. ASSUME NEW f \in Frame, UnlockStart(f) PROVE [Documented!Next]_(Documented!vars)
  BY <1>23 DEF UnlockStart
<1>24. ASSUME NEW f \in Frame, EmitState(f) PROVE [Documented!Next]_(Documented!vars)
  BY <1>24 DEF EmitState, Deliver
<1>25. ASSUME NEW f \in Frame, Swap(f) PROVE [Documented!Next]_(Documented!vars)
  BY <1>25 DEF Swap
<1>26. ASSUME NEW f \in Frame, UnsubscribeHooks(f)
      PROVE  [Documented!Next]_(Documented!vars)
  BY <1>26 DEF UnsubscribeHooks, StopReturn
<1>27. ASSUME NEW f \in Frame, Close(f) PROVE [Documented!Next]_(Documented!vars)
  BY <1>27 DEF Close, StopReturn
<1>28. ASSUME NEW f \in Frame, CancelHealth(f) PROVE [Documented!Next]_(Documented!vars)
  BY <1>28 DEF CancelHealth
<1>29. ASSUME NEW f \in Frame, RestartForHealth(f)
      PROVE  [Documented!Next]_(Documented!vars)
  BY <1>29 DEF RestartForHealth
<1>30. ASSUME NEW f \in Frame, LoadProxy(f) PROVE [Documented!Next]_(Documented!vars)
  BY <1>30 DEF LoadProxy
<1>31. CASE UNCHANGED vars
  BY <1>31 DEF vars
<1> QED
  <2>1. CASE SerialNext
    BY <1>1, <1>2, <1>3, <1>4, <1>5, <1>6, <1>7, <1>8, <1>9, <1>10, <1>11, <1>12, <1>13,
       <1>14, <1>15, <1>16, <1>17, <1>18, <1>19, <1>20, <1>21, <1>22, <1>23, <1>24,
       <1>25, <1>26, <1>27, <1>28, <1>29, <1>30, <2>1 DEF SerialNext
  <2> QED
    BY <1>31, <2>1

(***************************************************************************)
(* The service implements the documented life cycle (docs/api-reference.md)*)
(* for a serialized host: Create, Init, rounds of Start and Stop, Destroy, *)
(* and one instance that serves throughout a round.  A Stop that takes out *)
(* the instance of a restart it overlaps is no step of that life cycle.    *)
(***************************************************************************)
THEOREM LifecycleImplemented == ASSUME Serialized PROVE Spec => ImplementsLifecycle
<1>1. Init => Documented!Init
  BY DEF Init, Documented!Init
<1>2. IInv /\ OInv /\ [Next]_vars => [Documented!Next]_(Documented!vars)
  BY SerializedSteps, LifecycleStep DEF OInv
<1> QED
  BY <1>1, <1>2, OrderedInvariance, PTL DEF Spec, ImplementsLifecycle, Documented!Spec
===========================================================================
