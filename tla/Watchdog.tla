------------------------------ MODULE Watchdog ------------------------------
(***************************************************************************)
(* The loop of healthWatchdog.run (core/watchdog.go): a ticker, probes of  *)
(* the proxy in use, a restart of the core after enough failures in a row, *)
(* and a cooldown after every restart.                                     *)
(*                                                                         *)
(* Time passes in units.  Absolute times are kept as distances from now, so*)
(* that the state space is finite without a bound on time: cooldown is how *)
(* far cooldownUntil lies ahead, and a tick in the channel of the ticker is*)
(* early when it was sent before cooldownUntil.                            *)
(***************************************************************************)
EXTENDS Integers

CONSTANTS
  Given,       \* the fields of HealthCheckConfig, 0 or less if not set
  Default,     \* the default parameters
  MaxRestart   \* bound on the time a restart takes

Field == {"interval", "timeout", "failThreshold", "cooldown"}

ASSUME WatchdogAssumption ==
  /\ Given \in [Field -> Int]
  /\ Default \in [Field -> Nat \ {0}]
  /\ MaxRestart \in Nat

normalizeHealthConfig ==
  [k \in Field |-> IF Given[k] > 0 THEN Given[k] ELSE Default[k]]

Interval  == normalizeHealthConfig.interval
Timeout   == normalizeHealthConfig.timeout
Threshold == normalizeHealthConfig.failThreshold
Cooldown  == normalizeHealthConfig.cooldown

Longest == Interval * Threshold + Timeout + Cooldown

VARIABLES
  ctx,       \* whether the context is live or cancelled
  pc,        \* the loop waits in its select, probes, restarts or is done
  fails,     \* the failures in a row
  cooldown,  \* time until cooldownUntil, 0 when it has passed
  until,     \* time until the ticker fires
  tick,      \* what the channel of the ticker holds
  spent,     \* how long the probe or the restart has taken so far
  link,      \* whether the proxy in use answers; idle: nothing to probe
  sinceEnd,  \* time since the last restart ended
  sinceFail  \* time since the first of the failures in a row

envVars == <<ctx, link>>
vars == <<ctx, pc, fails, cooldown, until, tick, spent, link, sinceEnd, sinceFail>>

TypeOK ==
  /\ ctx \in {"live", "cancelled"}
  /\ pc \in {"select", "probe", "restart", "done"}
  /\ fails \in 0..Threshold
  /\ fails = Threshold => pc = "restart"
  /\ cooldown \in 0..Cooldown
  /\ until \in 1..Interval
  /\ tick \in {"none", "early", "due"}
  /\ spent \in 0..(Timeout + MaxRestart) /\ (pc = "probe" => spent <= Timeout)
  /\ link \in {"up", "down", "idle"}
  /\ sinceEnd \in 0..Longest
  /\ sinceFail \in 0..Longest

Init ==
  /\ ctx = "live"
  /\ pc = "select"
  /\ fails = 0
  /\ cooldown = 0
  /\ until = Interval
  /\ tick = "none"
  /\ spent = 0
  /\ link \in {"up", "down", "idle"}
  /\ sinceEnd = Longest
  /\ sinceFail = 0

Up(t) == IF t < Longest THEN t + 1 ELSE t
Down(t) == IF t > 0 THEN t - 1 ELSE 0

----------------------------------------------------------------------------
(* The environment *)

(* One unit of time.  The loop takes a tick or a cancellation as soon as it *)
(* waits, a probe ends by its timeout, and the channel holds one tick.     *)
Pass ==
  /\ pc = "select" => tick = "none" /\ ctx = "live"
  /\ pc = "probe" => spent < Timeout /\ ctx = "live"
  /\ pc = "restart" => spent < MaxRestart
  /\ pc # "done"
  /\ cooldown' = Down(cooldown)
  /\ until' = IF until = 1 THEN Interval ELSE until - 1
  /\ tick' = IF until > 1 \/ tick # "none" THEN tick
             ELSE IF cooldown' > 0 THEN "early" ELSE "due"
  /\ spent' = IF pc = "select" THEN 0 ELSE spent + 1
  /\ sinceEnd' = Up(sinceEnd)
  /\ sinceFail' = Up(sinceFail)
  /\ UNCHANGED <<envVars, pc, fails>>

(* The proxy stops or starts to answer, the service stops, goes direct ... *)
ChangeLink ==
  /\ link' \in {"up", "down", "idle"} \ {link}
  /\ UNCHANGED <<ctx, pc, fails, cooldown, until, tick, spent, sinceEnd, sinceFail>>

Cancel ==
  /\ ctx = "live"
  /\ ctx' = "cancelled"
  /\ UNCHANGED <<pc, fails, cooldown, until, tick, spent, link, sinceEnd, sinceFail>>

----------------------------------------------------------------------------
(* The loop *)

BreakSelect ==  \* mutant: a break that only leaves the select
  /\ pc = "select" /\ ctx = "cancelled"
  /\ UNCHANGED vars

Done ==
  /\ pc = "select" /\ ctx = "cancelled"
  /\ pc' = "done"
  /\ UNCHANGED <<envVars, fails, cooldown, until, tick, spent, sinceEnd, sinceFail>>

ProlongCooldown ==  \* mutant: a skipped tick starts the cooldown again
  /\ pc = "select" /\ tick = "early"
  /\ tick' = "none"
  /\ cooldown' = Cooldown
  /\ UNCHANGED <<envVars, pc, fails, until, spent, sinceEnd, sinceFail>>

(* A tick before cooldownUntil is skipped. *)
SkipTick ==
  /\ pc = "select" /\ tick = "early"
  /\ tick' = "none"
  /\ UNCHANGED <<envVars, pc, fails, cooldown, until, spent, sinceEnd, sinceFail>>

StartProbe ==
  /\ pc = "select" /\ tick = "due"
  /\ tick' = "none"
  /\ pc' = "probe"
  /\ spent' = 0
  /\ UNCHANGED <<envVars, fails, cooldown, until, sinceEnd, sinceFail>>

KeepFails ==  \* mutant: a success does not end the failures in a row
  /\ pc = "probe" /\ link # "down"
  /\ pc' = "select"
  /\ sinceFail' = 0
  /\ UNCHANGED <<envVars, fails, cooldown, until, tick, spent, sinceEnd>>

(* healthProbe is true when there is nothing to probe. *)
ProbeOk ==
  /\ pc = "probe" /\ link # "down"
  /\ pc' = "select"
  /\ fails' = 0
  /\ sinceFail' = 0
  /\ UNCHANGED <<envVars, cooldown, until, tick, spent, sinceEnd>>

LateRestart ==  \* mutant: fails > threshold
  /\ pc = "probe"
  /\ link = "down" \/ spent = Timeout \/ ctx = "cancelled"
  /\ fails' = fails + 1
  /\ sinceFail' = IF fails = 0 THEN 0 ELSE sinceFail
  /\ pc' = IF fails + 1 > Threshold THEN "restart" ELSE "select"
  /\ spent' = 0
  /\ UNCHANGED <<envVars, cooldown, until, tick, sinceEnd>>

(* The proxy refuses, the timeout passes or the context is cancelled. *)
ProbeFail ==
  /\ pc = "probe"
  /\ link = "down" \/ spent = Timeout \/ ctx = "cancelled"
  /\ fails' = fails + 1
  /\ sinceFail' = IF fails = 0 THEN 0 ELSE sinceFail
  /\ pc' = IF fails + 1 >= Threshold THEN "restart" ELSE "select"
  /\ spent' = 0
  /\ UNCHANGED <<envVars, cooldown, until, tick, sinceEnd>>

CooldownFromTick ==  \* mutant: the cooldown counts from the tick, not from now
  /\ pc = "restart"
  /\ pc' = "select"
  /\ fails' = 0
  /\ cooldown' = IF spent < Cooldown THEN Cooldown - spent ELSE 0
  /\ tick' = IF tick = "due" /\ cooldown' > 0 THEN "early" ELSE tick
  /\ sinceEnd' = 0
  /\ UNCHANGED <<envVars, until, spent, sinceFail>>

(* The restart has returned: a tick that is already in the channel lies    *)
(* before the new cooldownUntil.                                           *)
Restarted ==
  /\ pc = "restart"
  /\ pc' = "select"
  /\ fails' = 0
  /\ cooldown' = Cooldown
  /\ tick' = IF tick = "due" THEN "early" ELSE tick
  /\ sinceEnd' = 0
  /\ UNCHANGED <<envVars, until, spent, sinceFail>>

Loop == SkipTick \/ StartProbe \/ ProbeOk \/ ProbeFail \/ Restarted

Next == Pass \/ ChangeLink \/ Cancel \/ Done \/ Loop

Spec == Init /\ [][Next]_vars

(***************************************************************************)
(* Time passes, probes and restarts return, and a select with two ready    *)
(* cases takes each of them in the long run (Go picks one at random).      *)
(***************************************************************************)
FairSpec == Spec /\ WF_vars(Pass) /\ WF_vars(Loop) /\ SF_vars(Done)

----------------------------------------------------------------------------
(* Properties *)

(***************************************************************************)
(* Between the end of a restart and the begin of the next one the whole    *)
(* cooldown passes, however long the restart took and whatever ticks came  *)
(* meanwhile (TestHealthWatchdog_CooldownDelaysNextRestart).               *)
(***************************************************************************)
RestartsSpaced ==
  [][pc # "restart" /\ pc' = "restart" => sinceEnd >= Cooldown]_vars

(***************************************************************************)
(* A restart follows failures that lasted as long as the threshold and the *)
(* interval say, about three minutes by default, and no success fell in    *)
(* between (the reason given for failThreshold).  It holds for a timeout   *)
(* below the interval.                                                     *)
(***************************************************************************)
SustainedFailure ==
  [][pc # "restart" /\ pc' = "restart" =>
       sinceFail >= (Threshold - 1) * Interval - Timeout]_vars

(***************************************************************************)
(* A proxy that stays down is followed by a restart, also after a restart  *)
(* that did not help.                                                      *)
(***************************************************************************)
DownRestarts ==
  pc = "select" /\ link = "down" /\ ctx = "live"
    ~> pc = "restart" \/ link # "down" \/ ctx = "cancelled"

(***************************************************************************)
(* A cancelled context ends the loop, also while ticks keep coming and     *)
(* through a probe or a restart in progress.                               *)
(***************************************************************************)
CancelEndsLoop == ctx = "cancelled" ~> pc = "done"
=============================================================================
