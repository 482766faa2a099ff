----------------------------- MODULE Lifecycle -----------------------------
(***************************************************************************)
(* What core.Service promises its host, after the comments of              *)
(* core/service.go, the diagram in mobile/api.go and docs/api-reference.md:*)
(* Create, Init, then any number of rounds of Start and Stop, and Destroy  *)
(* as the end.  While the service is Running exactly one instance serves,  *)
(* and it is never swapped for another without leaving Running.            *)
(***************************************************************************)
CONSTANTS
  Instance,   \* the sing-box instances
  None        \* no instance

VARIABLES
  phase,      \* the life-cycle state
  serving     \* the instance that serves, or None

vars == <<phase, serving>>

Init == phase = "Created" /\ serving = None

Move(from, to) ==
  /\ phase \in from
  /\ phase' = to
  /\ serving' = None

Initialize == Move({"Created"}, "Initialized")

(* A failed initialization may be tried again. *)
Uninitialize == Move({"Initialized"}, "Created")

Begin == Move({"Initialized"}, "Starting")

Serve ==
  /\ phase = "Starting"
  /\ phase' = "Running"
  /\ serving' \in Instance

(* Stop, or a start that failed. *)
Halt == Move({"Starting", "Running"}, "Initialized")

Destroy == Move({"Created", "Initialized", "Starting", "Running"}, "Destroyed")

Next == Initialize \/ Uninitialize \/ Begin \/ Serve \/ Halt \/ Destroy

Spec == Init /\ [][Next]_vars
============================================================================
