----------------------------- MODULE MCService -----------------------------
(* TLC instances of the life cycle of core.Service. *)
EXTENDS Service, TLC

Symmetry == Permutations(Host)
============================================================================
