---------------------------- MODULE MCIpcSocket ----------------------------
(* TLC instances of the command socket. *)
EXTENDS IpcSocket, TLC

Symmetry == Permutations(Process)
=============================================================================
