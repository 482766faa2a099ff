----------------------------- MODULE GroupDelay -----------------------------
(***************************************************************************)
(* Service.TestGroupDelay of core/query.go: the members of a group are     *)
(* tested by goroutines that share a limited number of slots, and one      *)
(* deadline holds for the whole batch.  The caller waits for the answer.   *)
(*                                                                         *)
(* Time is counted in units.  A test may take any time until its context   *)
(* ends, at the deadline or when the service stops; it then returns        *)
(* without more time passing, and so does everything else the code does.   *)
(***************************************************************************)
EXTENDS Naturals, FiniteSets

CONSTANTS
  Member,        \* the tags of the group (Group.All)
  Slots,         \* groupTestConcurrency
  BatchTimeout   \* timeoutMs, in units

ASSUME GroupDelayAssumption ==
  IsFiniteSet(Member) /\ Slots \in Nat \ {0} /\ BatchTimeout \in Nat

VARIABLES
  running,   \* whether the service runs; stopCtx ends when it stops
  caller,    \* where the caller is
  todo,      \* the members the loop has not reached yet
  task,      \* where the goroutine of each member is
  ends,      \* when the context of each member's test ends
  sem,       \* the number of slots that are taken
  results,   \* the members that are in the map, with what is reported
  clock      \* time since the call

batchVars == <<running, caller, todo, task, ends, sem, results, clock>>

Failed == "-1"

BatchInit ==
  /\ running = TRUE
  /\ caller = "idle"
  /\ todo = {}
  /\ task = [m \in Member |-> "none"]
  /\ ends = [m \in Member |-> 0]
  /\ sem = 0
  /\ results = [m \in {} |-> Failed]
  /\ clock = 0

Put(m, value) ==
  results' = [n \in DOMAIN results \cup {m} |-> IF n = m THEN value ELSE results[n]]

\* The context of the batch has ended.
Expired == ~running \/ clock >= BatchTimeout

\* The context of a test that is under way has ended.
Aborted(m) == ~running \/ clock >= ends[m]

(***************************************************************************)
(* The world: the service is stopped, time passes while there is nothing   *)
(* but tests to wait for.                                                  *)
(***************************************************************************)
StopService ==
  /\ running
  /\ running' = FALSE
  /\ UNCHANGED <<caller, todo, task, ends, sem, results, clock>>

Tick ==
  /\ \/ caller = "loop" /\ todo # {} /\ sem = Slots /\ ~Expired
     \/ caller = "wait"
  /\ \A m \in Member : task[m] \in {"none", "test", "done"}
  /\ \E m \in Member : task[m] = "test"
  /\ \A m \in Member : task[m] = "test" => ~Aborted(m)
  /\ clock' = clock + 1
  /\ UNCHANGED <<running, caller, todo, task, ends, sem, results>>

(***************************************************************************)
(* The caller.                                                             *)
(***************************************************************************)

\* Without a running service the answer is empty.
TestGroupDelay ==
  /\ caller = "idle"
  /\ IF running
       THEN caller' = "loop" /\ todo' = Member
       ELSE caller' = "refused" /\ UNCHANGED todo
  /\ clock' = 0
  /\ UNCHANGED <<running, task, ends, sem, results>>

\* mutant: every test gets a context of its own
SpawnWithOwnTimeout(m) ==
  /\ caller = "loop" /\ m \in todo
  /\ sem < Slots
  /\ sem' = sem + 1
  /\ todo' = todo \ {m}
  /\ task' = [task EXCEPT ![m] = "test"]
  /\ ends' = [ends EXCEPT ![m] = clock + BatchTimeout]
  /\ UNCHANGED <<running, caller, results, clock>>

\* A slot is taken before the goroutine is made; a select takes either of its
\* cases when both are ready.
Spawn(m) ==
  /\ caller = "loop" /\ m \in todo
  /\ sem < Slots
  /\ sem' = sem + 1
  /\ todo' = todo \ {m}
  /\ task' = [task EXCEPT ![m] = "test"]
  /\ ends' = [ends EXCEPT ![m] = BatchTimeout]
  /\ UNCHANGED <<running, caller, results, clock>>

Skip(m) ==
  /\ caller = "loop" /\ m \in todo
  /\ Expired
  /\ todo' = todo \ {m}
  /\ Put(m, Failed)
  /\ UNCHANGED <<running, caller, task, ends, sem, clock>>

LoopEnds ==
  /\ caller = "loop" /\ todo = {}
  /\ caller' = "wait"
  /\ UNCHANGED <<running, todo, task, ends, sem, results, clock>>

\* wg.Wait returns.
Return ==
  /\ caller = "wait"
  /\ \A m \in Member : task[m] \in {"none", "done"}
  /\ caller' = "done"
  /\ UNCHANGED <<running, todo, task, ends, sem, results, clock>>

(***************************************************************************)
(* The goroutine of a member.  The member may be gone, the test may fail   *)
(* at any time, and it fails once its context has ended, unless it had     *)
(* already succeeded.                                                      *)
(***************************************************************************)
Measure(m) ==
  /\ task[m] = "test"
  /\ task' = [task EXCEPT ![m] = "store"]
  /\ \E value \in {Failed, "delay"} : Put(m, value)
  /\ UNCHANGED <<running, caller, todo, ends, sem, clock>>

\* The deferred calls: the slot first, the wait group last.
Release(m) ==
  /\ task[m] = "store"
  /\ task' = [task EXCEPT ![m] = "release"]
  /\ sem' = sem - 1
  /\ UNCHANGED <<running, caller, todo, ends, results, clock>>

Finish(m) ==
  /\ task[m] = "release"
  /\ task' = [task EXCEPT ![m] = "done"]
  /\ UNCHANGED <<running, caller, todo, ends, sem, results, clock>>

Task(m) == Measure(m) \/ Release(m) \/ Finish(m)

BatchNext ==
  \/ StopService \/ Tick \/ TestGroupDelay \/ LoopEnds \/ Return
  \/ \E m \in Member : Spawn(m) \/ Skip(m) \/ Task(m)

BatchSpec == BatchInit /\ [][BatchNext]_batchVars

(***************************************************************************)
(* Properties.                                                             *)
(***************************************************************************)

\* The caller waits no longer than for one timeout, however many members
\* there are and however few slots, and also when the service stops; it then
\* has a value for every member and no slot is lost
\* (the comment of TestGroupDelay, query.go:212-216).
WholeBatchInTime ==
  /\ caller \in {"loop", "wait"} => clock <= BatchTimeout
  /\ caller = "done" => /\ clock <= BatchTimeout
                        /\ DOMAIN results = Member
                        /\ sem = 0
=============================================================================
