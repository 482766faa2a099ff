---------------------------- MODULE MCIpcServer ----------------------------
(* TLC instances of the IPC server. *)
EXTENDS IpcServer, TLC

Symmetry == Permutations(Conn) \cup Permutations(Request \ Notice)
============================================================================
