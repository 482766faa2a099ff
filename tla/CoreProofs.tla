----------------------------- MODULE CoreProofs -----------------------------
(***************************************************************************)
(* Theorems about the three parts of core that share no state, each of its *)
(* own specification: the watchdog loop for every configuration, the delay *)
(* test of a group for any number of members and slots, and the monitor of *)
(* the default interface for any number of threads and callbacks.          *)
(***************************************************************************)
EXTENDS Watchdog, GroupDelay, IfaceMonitor, FiniteSetTheorems, TLAPS

(***************************************************************************)
(* The watchdog.                                                           *)
(***************************************************************************)

(* No probe runs, and no tick waits to start one, before cooldownUntil; and*)
(* what is left of the cooldown is what has not passed since the restart.  *)
CooldownInv ==
  /\ pc = "probe" => cooldown = 0
  /\ tick = "due" => cooldown = 0
  /\ sinceEnd + cooldown >= Cooldown

(* The configuration the loop runs with is positive. *)
LEMMA Positive ==
  /\ Interval \in Nat \ {0} /\ Timeout \in Nat \ {0}
  /\ Threshold \in Nat \ {0} /\ Cooldown \in Nat \ {0}
  /\ MaxRestart \in Nat
  /\ Longest \in Nat /\ Longest >= Cooldown
<1>1. \A k \in Field : normalizeHealthConfig[k] \in Nat \ {0}
  BY WatchdogAssumption DEF normalizeHealthConfig
<1>2. /\ Interval \in Nat \ {0} /\ Timeout \in Nat \ {0}
      /\ Threshold \in Nat \ {0} /\ Cooldown \in Nat \ {0}
  BY <1>1 DEF Field, Interval, Timeout, Threshold, Cooldown
<1>3. Interval * Threshold \in Nat
  BY <1>2
<1>4. Longest \in Nat /\ Longest >= Cooldown
  BY <1>2, <1>3 DEF Longest
<1> QED
  BY <1>2, <1>4, WatchdogAssumption

LEMMA InitInv == Init => TypeOK /\ CooldownInv
  BY Positive DEF Init, TypeOK, CooldownInv

LEMMA NextInv == TypeOK /\ CooldownInv /\ [Next]_vars => TypeOK' /\ CooldownInv'
<1> SUFFICES ASSUME TypeOK, CooldownInv, [Next]_vars PROVE TypeOK' /\ CooldownInv'
  OBVIOUS
<1> USE Positive DEF TypeOK, CooldownInv, envVars
<1>1. CASE Pass
  <2>1. sinceEnd' + cooldown' >= Cooldown
    BY <1>1 DEF Pass, Up, Down
  <2>2. cooldown' \in 0..Cooldown /\ (cooldown = 0 => cooldown' = 0)
    BY <1>1 DEF Pass, Down
  <2>3. sinceEnd' \in 0..Longest /\ sinceFail' \in 0..Longest
    BY <1>1 DEF Pass, Up
  <2>4. spent' \in 0..(Timeout + MaxRestart) /\ (pc' = "probe" => spent' <= Timeout)
    BY <1>1 DEF Pass
  <2>5. until' \in 1..Interval
    BY <1>1 DEF Pass
  <2>6. tick' \in {"none", "early", "due"} /\ (tick' = "due" => cooldown' = 0)
    BY <1>1, <2>2 DEF Pass
  <2> QED
    BY <1>1, <2>1, <2>2, <2>3, <2>4, <2>5, <2>6 DEF Pass
<1>2. CASE ChangeLink
  BY <1>2 DEF ChangeLink
<1>3. CASE Cancel
  BY <1>3 DEF Cancel
<1>4. CASE Done
  BY <1>4 DEF Done
<1>5. CASE SkipTick
  BY <1>5 DEF SkipTick
<1>6. CASE StartProbe
  BY <1>6 DEF StartProbe
<1>7. CASE ProbeOk
  BY <1>7 DEF ProbeOk
<1>8. CASE ProbeFail
  BY <1>8 DEF ProbeFail
<1>9. CASE Restarted
  BY <1>9 DEF Restarted
<1>10. CASE UNCHANGED vars
  BY <1>10 DEF vars
<1> QED
  BY <1>1, <1>2, <1>3, <1>4, <1>5, <1>6, <1>7, <1>8, <1>9, <1>10 DEF Next, Loop

(* The invariant holds in every reachable state. *)
LEMMA Invariance == Spec => [](TypeOK /\ CooldownInv)
  BY InitInv, NextInv, PTL DEF Spec

(***************************************************************************)
(* The loop's counters stay in their ranges, and the threshold is reached  *)
(* only by restarting.                                                     *)
(***************************************************************************)
THEOREM TypeCorrect == Spec => []TypeOK
  BY Invariance, PTL

(***************************************************************************)
(* No restart begins before the cooldown of the previous one has passed,   *)
(* however long restarts and probes take (cooldownUntil in run).           *)
(***************************************************************************)
THEOREM RestartsAreSpaced == Spec => RestartsSpaced
<1>1. TypeOK /\ CooldownInv /\ [Next]_vars
        => [pc # "restart" /\ pc' = "restart" => sinceEnd >= Cooldown]_vars
  <2> SUFFICES ASSUME TypeOK, CooldownInv, Next, pc # "restart", pc' = "restart"
               PROVE  sinceEnd >= Cooldown
    BY DEF vars
  <2>1. ProbeFail
    BY DEF Next, Pass, ChangeLink, Cancel, Done, Loop, SkipTick, StartProbe, ProbeOk,
       Restarted, envVars
  <2> QED
    BY <2>1, Positive DEF ProbeFail, TypeOK, CooldownInv
<1> QED
  BY <1>1, Invariance, PTL DEF Spec, RestartsSpaced

----------------------------------------------------------------------------
(***************************************************************************)
(* Failures in a row: a probe that ends before the next tick starts at its *)
(* own tick, so each further failure is a whole interval later.            *)
(***************************************************************************)

(* The time n intervals take. *)
Span(n) == n * Interval

(* How long the failures counted so far have lasted at least: since the    *)
(* first of them there was a tick for each further one, and the first probe*)
(* took no longer than its timeout.                                        *)
SpanInv ==
  /\ pc = "select" /\ tick = "due" => until = Interval
  /\ pc = "probe" => tick = "none" /\ until = Interval - spent
  /\ pc = "select" /\ fails > 0 =>
       sinceFail >= Span(fails - 1) + (Interval - until) - Timeout
  /\ pc = "select" /\ fails > 0 /\ tick = "due" => sinceFail >= Span(fails) - Timeout
  /\ pc = "probe" /\ fails > 0 => sinceFail >= Span(fails) + spent - Timeout

(* Span adds up, and the failures that do not yet restart the core fit in  *)
(* the longest time the model counts.                                      *)
LEMMA SpanFacts ==
  /\ Span(0) = 0
  /\ \A n \in Nat : Span(n) \in Nat /\ Span(n + 1) = Span(n) + Interval
  /\ \A n \in Nat : n < Threshold => Span(n) + Interval <= Longest
<1>1. \A n \in Nat : Span(n) \in Nat /\ Span(n + 1) = Span(n) + Interval
  BY Positive DEF Span
<1>2. ASSUME NEW n \in Nat, n < Threshold PROVE Span(n) + Interval <= Longest
  <2> DEFINE k == Threshold - (n + 1)
  <2>1. k \in Nat /\ Threshold = (n + 1) + k
    BY <1>2, Positive
  <2>2. Interval * Threshold = Span(n + 1) + k * Interval
    BY <2>1, Positive DEF Span
  <2>3. k * Interval \in Nat
    BY <2>1, Positive
  <2>4. Interval * Threshold \in Nat /\ Interval * Threshold >= Span(n + 1)
    <3> HIDE DEF k
    <3>1. Span(n + 1) \in Nat
      BY <1>1
    <3> QED
      BY <2>2, <2>3, <3>1
  <2> QED
    BY <1>1, <2>4, Positive DEF Longest
<1> QED
  BY <1>1, <1>2, Positive DEF Span

(* Every step keeps the bound, provided a probe ends before the next tick. *)
LEMMA SpanStep ==
  ASSUME Timeout < Interval, TypeOK, CooldownInv, SpanInv, [Next]_vars
  PROVE  SpanInv'
<1> USE Positive, SpanFacts DEF TypeOK, SpanInv, envVars
<1>1. CASE Pass
  <2> USE <1>1 DEF Pass
  <2>1. CASE pc = "select"
    <3>1. ASSUME fails > 0
          PROVE  /\ sinceFail' >= Span(fails - 1) + (Interval - until) + 1 - Timeout
                 /\ Span(fails) = Span(fails - 1) + Interval
                 /\ Span(fails - 1) \in Nat
      <4>1. fails - 1 \in Nat /\ fails - 1 < Threshold /\ (fails - 1) + 1 = fails
        BY <3>1
      <4> QED
        BY <2>1, <3>1, <4>1 DEF Up
    <3>2. CASE until = 1
      <4>1. pc' = "select" /\ fails' = fails /\ until' = Interval
        BY <2>1, <3>2
      <4>2. /\ sinceFail' \in Nat
            /\ fails > 0 => sinceFail' >= Span(fails) - Timeout
        BY <2>1, <3>1, <3>2 DEF Up
      <4>3. fails > 0 => sinceFail' >= Span(fails - 1) - Timeout
        BY <3>1, <4>2
      <4> QED
        BY <4>1, <4>2, <4>3
    <3>3. CASE until > 1
      BY <2>1, <3>1, <3>3
    <3> QED
      BY <3>2, <3>3
  <2>2. CASE pc = "probe"
    <3>1. fails < Threshold
      BY <2>2
    <3>2. fails > 0 => sinceFail' >= Span(fails) + spent + 1 - Timeout
      BY <2>2, <3>1 DEF Up
    <3> QED
      BY <2>2, <3>2
  <2>3. CASE pc = "restart"
    BY <2>3
  <2> QED
    BY <2>1, <2>2, <2>3
<1>2. CASE ChangeLink
  BY <1>2 DEF ChangeLink
<1>3. CASE Cancel
  BY <1>3 DEF Cancel
<1>4. CASE Done
  BY <1>4 DEF Done
<1>5. CASE SkipTick
  BY <1>5 DEF SkipTick
<1>6. CASE StartProbe
  BY <1>6 DEF StartProbe
<1>7. CASE ProbeOk
  BY <1>7 DEF ProbeOk
<1>8. CASE ProbeFail
  <2>1. CASE fails = 0
    BY <1>8, <2>1 DEF ProbeFail
  <2>2. CASE fails > 0
    <3>1. (fails + 1) - 1 = fails
      BY <2>2
    <3> QED
      BY <1>8, <2>2, <3>1 DEF ProbeFail
  <2> QED
    BY <2>1, <2>2
<1>9. CASE Restarted
  BY <1>9 DEF Restarted
<1>10. CASE UNCHANGED vars
  BY <1>10 DEF vars
<1> QED
  BY <1>1, <1>2, <1>3, <1>4, <1>5, <1>6, <1>7, <1>8, <1>9, <1>10 DEF Next, Loop

(***************************************************************************)
(* A restart needs failures that lasted Threshold - 1 whole intervals, less *)
(* the time the first failing probe took: no short outage and no burst of  *)
(* ticks after a slow restart restarts the core (fails, failThreshold and  *)
(* the ticker of run), when a probe times out before the next tick.        *)
(***************************************************************************)
THEOREM FailuresAreSustained == ASSUME Timeout < Interval PROVE Spec => SustainedFailure
<1>1. Init => SpanInv
  BY Positive DEF Init, SpanInv
<1>2. TypeOK /\ CooldownInv /\ SpanInv /\ [Next]_vars => SpanInv'
  BY SpanStep
<1>3. TypeOK /\ SpanInv /\ [Next]_vars
        => [pc # "restart" /\ pc' = "restart" =>
              sinceFail >= (Threshold - 1) * Interval - Timeout]_vars
  <2> SUFFICES ASSUME TypeOK, SpanInv, Next, pc # "restart", pc' = "restart"
               PROVE  sinceFail >= (Threshold - 1) * Interval - Timeout
    BY DEF vars
  <2>1. ProbeFail
    BY DEF Next, Pass, ChangeLink, Cancel, Done, Loop, SkipTick, StartProbe, ProbeOk,
       Restarted, envVars
  <2>2. fails = Threshold - 1 /\ fails \in Nat /\ spent \in Nat /\ sinceFail \in Nat
    BY <2>1, Positive DEF ProbeFail, TypeOK
  <2>3. sinceFail >= Span(fails) - Timeout
    BY <2>1, <2>2, Positive, SpanFacts DEF ProbeFail, SpanInv
  <2> QED
    BY <2>2, <2>3 DEF Span
<1> QED
  BY <1>1, <1>2, <1>3, Invariance, PTL DEF Spec, SustainedFailure

(***************************************************************************)
(* The delay test of a group ends in time and leaves nothing out.          *)
(***************************************************************************)

BatchTypeInv ==
  /\ running \in BOOLEAN
  /\ caller \in {"idle", "refused", "loop", "wait", "done"}
  /\ todo \in SUBSET Member
  /\ task \in [Member -> {"none", "test", "store", "release", "done"}]
  /\ ends \in [Member -> Nat]
  /\ DOMAIN results \in SUBSET Member
  /\ clock \in Nat

\* Every member of a test that has begun is yet to come, is being tested or
\* has its result; nobody has both.
MembersInv ==
  /\ caller \in {"idle", "refused"} => \A m \in Member : task[m] = "none"
  /\ \A m \in todo : task[m] = "none"
  /\ caller \in {"loop", "wait", "done"} =>
       \A m \in Member : m \in todo \/ task[m] = "test" \/ m \in DOMAIN results
  /\ caller \in {"wait", "done"} => todo = {}
  /\ caller = "done" => \A m \in Member : task[m] \in {"none", "done"}

\* Those that hold a slot.
Holders == {m \in Member : task[m] \in {"test", "store"}}

SlotsInv == sem = Cardinality(Holders)

\* All tests end at the deadline of the batch, so nobody waits past it.
ClockInv ==
  /\ \A m \in Member : task[m] = "test" => ends[m] = BatchTimeout
  /\ caller \in {"loop", "wait", "done"} => clock <= BatchTimeout

BatchIInv == BatchTypeInv /\ MembersInv /\ SlotsInv /\ ClockInv

\* The results that Put leaves.
LEMMA PutDomain ==
  ASSUME NEW m \in Member, NEW value, Put(m, value)
  PROVE  DOMAIN results' = DOMAIN results \cup {m}
BY DEF Put

\* The slots that are taken can be counted.
LEMMA HoldersFinite == IsFiniteSet(Holders)
<1>1. Holders \in SUBSET Member
  BY DEF Holders
<1> QED
  BY <1>1, FS_Subset, GroupDelayAssumption

LEMMA BatchIInvInit ==
  ASSUME BatchInit
  PROVE  BatchIInv
<1>1. BatchTypeInv /\ MembersInv /\ ClockInv
  BY GroupDelayAssumption DEF BatchInit, BatchTypeInv, MembersInv, ClockInv
<1>2. Holders = {}
  BY DEF BatchInit, Holders
<1>3. SlotsInv
  BY <1>2, FS_EmptySet DEF BatchInit, SlotsInv
<1> QED
  BY <1>1, <1>3 DEF BatchIInv

LEMMA BatchIInvNext ==
  ASSUME BatchIInv, [BatchNext]_batchVars
  PROVE  BatchIInv'
<1> USE DEF BatchIInv, BatchTypeInv, MembersInv, ClockInv
<1>a. BatchTimeout \in Nat
  BY GroupDelayAssumption
<1>b. ASSUME UNCHANGED <<task, sem>> PROVE SlotsInv'
  BY <1>b DEF SlotsInv, Holders
<1>1. CASE StopService
  BY <1>1, <1>b DEF StopService
<1>2. CASE Tick
  <2>1. PICK m \in Member : task[m] = "test" /\ ~Aborted(m)
    BY <1>2 DEF Tick
  <2>2. clock < BatchTimeout
    BY <2>1, <1>a DEF Aborted
  <2> QED
    BY <1>2, <1>a, <1>b, <2>2 DEF Tick
<1>3. CASE TestGroupDelay
  BY <1>3, <1>a, <1>b DEF TestGroupDelay
<1>4. CASE LoopEnds
  BY <1>4, <1>b DEF LoopEnds
<1>5. CASE Return
  BY <1>5, <1>b DEF Return
<1>6. ASSUME NEW m \in Member, Spawn(m) PROVE BatchIInv'
  <2>1. BatchTypeInv' /\ MembersInv' /\ ClockInv'
    BY <1>6, <1>a DEF Spawn
  <2>2. m \notin Holders /\ Holders' = Holders \cup {m}
    BY <1>6 DEF Spawn, Holders
  <2>3. Cardinality(Holders \cup {m}) = Cardinality(Holders) + 1
    BY <2>2, HoldersFinite, FS_AddElement
  <2> QED
    BY <1>6, <2>1, <2>2, <2>3 DEF Spawn, SlotsInv
<1>7. ASSUME NEW m \in Member, Skip(m) PROVE BatchIInv'
  <2>1. DOMAIN results' = DOMAIN results \cup {m}
    BY <1>7, PutDomain DEF Skip
  <2> QED
    BY <1>7, <1>b, <2>1 DEF Skip
<1>8. ASSUME NEW m \in Member, Measure(m) PROVE BatchIInv'
  <2>1. DOMAIN results' = DOMAIN results \cup {m}
    BY <1>8, PutDomain DEF Measure
  <2>2. Holders' = Holders
    BY <1>8 DEF Measure, Holders
  <2>3. BatchTypeInv' /\ MembersInv' /\ ClockInv'
    BY <1>8, <2>1 DEF Measure
  <2> QED
    BY <1>8, <2>2, <2>3 DEF Measure, SlotsInv
<1>9. ASSUME NEW m \in Member, Release(m) PROVE BatchIInv'
  <2>1. BatchTypeInv' /\ MembersInv' /\ ClockInv'
    BY <1>9 DEF Release
  <2>2. m \in Holders /\ Holders' = Holders \ {m}
    BY <1>9 DEF Release, Holders
  <2>3. Cardinality(Holders \ {m}) = Cardinality(Holders) - 1
    BY <2>2, HoldersFinite, FS_RemoveElement
  <2> QED
    BY <1>9, <2>1, <2>2, <2>3 DEF Release, SlotsInv
<1>10. ASSUME NEW m \in Member, Finish(m) PROVE BatchIInv'
  <2>1. Holders' = Holders
    BY <1>10 DEF Finish, Holders
  <2> QED
    BY <1>10, <2>1 DEF Finish, SlotsInv
<1>11. CASE UNCHANGED batchVars
  BY <1>11, <1>b DEF batchVars
<1> QED
  BY <1>1, <1>2, <1>3, <1>4, <1>5, <1>6, <1>7, <1>8, <1>9, <1>10, <1>11 DEF BatchNext, Task

LEMMA BatchIInvInTime ==
  ASSUME BatchIInv
  PROVE  WholeBatchInTime
<1>1. caller = "done" => Holders = {} /\ DOMAIN results = Member
  BY DEF BatchIInv, BatchTypeInv, MembersInv, Holders
<1>2. Holders = {} => sem = 0
  BY FS_EmptySet DEF BatchIInv, SlotsInv
<1> QED
  BY <1>1, <1>2 DEF BatchIInv, ClockInv, WholeBatchInTime

\* The caller of TestGroupDelay never waits longer than one timeout and gets
\* a value for every member, and every slot is given back
\* (query.go:208-276).
THEOREM BatchInTime == BatchSpec => []WholeBatchInTime
<1>1. BatchInit => BatchIInv
  BY BatchIInvInit
<1>2. BatchIInv /\ [BatchNext]_batchVars => BatchIInv'
  BY BatchIInvNext
<1>3. BatchIInv => WholeBatchInTime
  BY BatchIInvInTime
<1> QED
  BY <1>1, <1>2, <1>3, PTL DEF BatchSpec

(***************************************************************************)
(* The monitor of the default interface: no callback misses it.            *)
(***************************************************************************)

MonitorTypeInv ==
  /\ version \in Nat
  /\ callbacks \in SUBSET Callback
  /\ updater \in [Updater -> Report \cup {Nothing}]
  /\ queue \in [Updater -> SUBSET Callback]
  /\ change \in [Updater -> Nat]
  /\ client \in [Callback -> {"new", "greet", "registered", "gone"}]
  /\ greet \in [Callback -> Nat]
  /\ told \in [Callback -> SUBSET Nat]

\* An interface comes from an update; a thread with callbacks to make is in
\* the middle of one; nobody speaks to a callback that was never registered.
ThreadInv ==
  /\ iface # Nothing => version > 0
  /\ \A u \in Updater : /\ change[u] # 0 => updater[u] # Nothing
                        /\ change[u] = 0 => queue[u] = {}
  /\ \A c \in Callback : client[c] = "new" =>
       /\ c \notin callbacks /\ told[c] = {}
       /\ \A u \in Updater : c \notin queue[u]

\* A callback that knows of an interface, or is about to hear of one.
Involved(c) ==
  \/ iface # Nothing \/ told[c] # {}
  \/ client[c] = "greet" /\ greet[c] > 0
  \/ \E u \in Updater : c \in queue[u]

\* It has heard of the latest change, or somebody is about to tell it.
Informed(c) ==
  \/ version \in told[c]
  \/ client[c] = "greet" /\ greet[c] = version /\ version > 0
  \/ \E u \in Updater : change[u] = version /\ c \in queue[u]

InformedInv == \A c \in callbacks : Involved(c) => Informed(c)

MonitorIInv == MonitorTypeInv /\ ThreadInv /\ InformedInv

LEMMA MonitorIInvInit == MonitorInit => MonitorIInv
  BY DEF MonitorInit, MonitorIInv, MonitorTypeInv, ThreadInv, InformedInv, Involved, Informed

LEMMA MonitorIInvNext == MonitorIInv /\ [MonitorNext]_monitorVars => MonitorIInv'
<1> SUFFICES ASSUME MonitorIInv, [MonitorNext]_monitorVars PROVE MonitorIInv'
  OBVIOUS
<1> USE DEF MonitorIInv, MonitorTypeInv, ThreadInv, InformedInv
<1>1. CASE RegisterMyInterface
  BY <1>1 DEF RegisterMyInterface, Involved, Informed
<1>2. ASSUME NEW c \in Callback, RegisterCallback(c) PROVE MonitorIInv'
  <2>1. MonitorTypeInv' /\ ThreadInv'
    BY <1>2 DEF RegisterCallback
  <2>2. Involved(c)' => Informed(c)'
    BY <1>2 DEF RegisterCallback, Involved, Informed
  <2>3. \A d \in callbacks : (Involved(d)' <=> Involved(d)) /\ (Informed(d)' <=> Informed(d))
    BY <1>2 DEF RegisterCallback, Involved, Informed
  <2> QED
    BY <1>2, <2>1, <2>2, <2>3 DEF RegisterCallback
<1>3. ASSUME NEW c \in Callback, Greet(c) PROVE MonitorIInv'
  <2>1. MonitorTypeInv' /\ ThreadInv'
    BY <1>3 DEF Greet
  <2>2. ASSUME NEW d \in callbacks, Involved(d)' PROVE Informed(d)'
    <3>1. Involved(d)
      BY <1>3, <2>2 DEF Greet, Involved
    <3>2. Informed(d)
      BY <2>2, <3>1
    <3> QED
      BY <1>3, <2>2, <3>2 DEF Greet, Informed
  <2> QED
    BY <1>3, <2>1, <2>2 DEF Greet
<1>4. ASSUME NEW c \in Callback, UnregisterCallback(c) PROVE MonitorIInv'
  <2>1. MonitorTypeInv' /\ ThreadInv'
    BY <1>4 DEF UnregisterCallback
  <2>2. \A d \in callbacks' : (Involved(d)' <=> Involved(d)) /\ (Informed(d)' <=> Informed(d))
    BY <1>4 DEF UnregisterCallback, Involved, Informed
  <2> QED
    BY <1>4, <2>1, <2>2 DEF UnregisterCallback
<1>5. ASSUME NEW u \in Updater, UpdateDefaultInterface(u) PROVE MonitorIInv'
  <2>1. MonitorTypeInv' /\ ThreadInv'
    BY <1>5 DEF UpdateDefaultInterface
  <2>2. \A d \in callbacks : (Involved(d)' <=> Involved(d)) /\ (Informed(d)' <=> Informed(d))
    BY <1>5 DEF UpdateDefaultInterface, Involved, Informed
  <2> QED
    BY <1>5, <2>1, <2>2 DEF UpdateDefaultInterface
<1>6. ASSUME NEW u \in Updater, Update(u) PROVE MonitorIInv'
  <2>1. CASE /\ updater' = [updater EXCEPT ![u] = Nothing]
             /\ UNCHANGED <<iface, version, queue, change>>
    <3>1. MonitorTypeInv' /\ ThreadInv'
      BY <1>6, <2>1 DEF Update, clientVars
    <3>2. \A d \in callbacks : (Involved(d)' <=> Involved(d)) /\ (Informed(d)' <=> Informed(d))
      BY <1>6, <2>1 DEF Update, clientVars, Involved, Informed
    <3> QED
      BY <1>6, <2>1, <3>1, <3>2 DEF Update, clientVars
  <2>2. ASSUME NEW new, SetInterface(u, new) PROVE MonitorIInv'
    <3>1. MonitorTypeInv' /\ ThreadInv'
      BY <1>6, <2>2 DEF Update, SetInterface, clientVars
    <3>2. \A d \in callbacks : change'[u] = version' /\ d \in queue'[u]
      BY <1>6, <2>2 DEF Update, SetInterface
    <3>3. callbacks' = callbacks
      BY <1>6 DEF Update, clientVars
    <3> QED
      BY <3>1, <3>2, <3>3 DEF Informed
  <2> QED
    BY <1>6, <2>1, <2>2 DEF Update
<1>7. ASSUME NEW u \in Updater, Notify(u) PROVE MonitorIInv'
  <2>1. PICK c \in queue[u] :
          /\ queue' = [queue EXCEPT ![u] = @ \ {c}]
          /\ told' = [told EXCEPT ![c] = @ \cup {change[u]}]
    BY <1>7 DEF Notify
  <2>2. MonitorTypeInv' /\ ThreadInv'
    BY <1>7, <2>1 DEF Notify, clientVars
  <2>3. ASSUME NEW d \in callbacks, Involved(d)' PROVE Informed(d)'
    <3>1. Involved(d)
      BY <1>7, <2>1, <2>3 DEF Notify, clientVars, Involved
    <3>2. Informed(d)
      BY <2>3, <3>1
    <3> QED
      BY <1>7, <2>1, <2>3, <3>2 DEF Notify, clientVars, Informed
  <2> QED
    BY <1>7, <2>2, <2>3 DEF Notify, clientVars
<1>8. ASSUME NEW u \in Updater, ResetNetwork(u) PROVE MonitorIInv'
  <2>1. MonitorTypeInv' /\ ThreadInv'
    BY <1>8 DEF ResetNetwork, clientVars
  <2>2. \A d \in callbacks : (Involved(d)' => Involved(d)) /\ (Informed(d) => Informed(d)')
    BY <1>8 DEF ResetNetwork, clientVars, Involved, Informed
  <2> QED
    BY <1>8, <2>1, <2>2 DEF ResetNetwork, clientVars
<1>9. CASE UNCHANGED monitorVars
  BY <1>9 DEF monitorVars, Involved, Informed
<1> QED
  BY <1>1, <1>2, <1>3, <1>4, <1>5, <1>6, <1>7, <1>8, <1>9 DEF MonitorNext

LEMMA IInvNoneMissed == MonitorIInv => NoUpdateMissed
<1> SUFFICES ASSUME MonitorIInv, Settled, NEW c \in callbacks, iface # Nothing \/ told[c] # {}
             PROVE  version \in told[c]
  BY DEF NoUpdateMissed
<1>1. Informed(c)
  BY DEF MonitorIInv, InformedInv, Involved
<1>2. client[c] # "greet" /\ \A u \in Updater : queue[u] = {}
  BY DEF MonitorIInv, MonitorTypeInv, ThreadInv, Settled
<1> QED
  BY <1>1, <1>2 DEF Informed

\* When nothing is under way every registered callback has been told of the
\* interface in use (callbackInterfaceMonitor, platform.go:297-397).
THEOREM NoneMissed == MonitorSpec => []NoUpdateMissed
<1>1. MonitorInit => MonitorIInv
  BY MonitorIInvInit
<1>2. MonitorIInv /\ [MonitorNext]_monitorVars => MonitorIInv'
  BY MonitorIInvNext
<1>3. MonitorIInv => NoUpdateMissed
  BY IInvNoneMissed
<1> QED
  BY <1>1, <1>2, <1>3, PTL DEF MonitorSpec
=============================================================================
