-------------------------- MODULE IpcSocketProofs --------------------------
(***************************************************************************)
(* Proofs about the path of the command socket, for any number of server   *)
(* processes and any set of them without a user to grant access to.        *)
(*                                                                         *)
(* The steps on the path are separate system calls, and the code orders    *)
(* them by nothing but the probe.  That the path still leads to whoever    *)
(* serves is lost when a start or an end overlaps another one, or when the *)
(* dial to a live process fails: the history variables tell whether that   *)
(* has happened.  The other theorems hold whatever overlaps or fails.      *)
(***************************************************************************)
EXTENDS IpcSocket, TLAPS

(* A process on its way up or down. *)
Busy(p) == place[p] \in Starting \cup Ending

OneBusy == \A p, q \in Process : Busy(p) /\ Busy(q) => p = q

(* Whoever has made its socket file and not begun to end is the one the    *)
(* path leads to.                                                          *)
OwnerReachable == \A p \in Process : place[p] \in {"grant", "serve"} => Reachable(p)

(* Nobody serves while a process changes the path: the probe has seen that *)
(* before a start, and before an end it was this process that served.      *)
NobodyElse ==
  \A p, q \in Process : place[p] \in {"clear", "bind"} \cup Ending => ~At(q, "serve")

Undisturbed == ~overlapped /\ ~misled

OrderInv == Undisturbed => OneBusy /\ OwnerReachable /\ NobodyElse

(* The path exists only as long as its process has not removed it. *)
FileHasOwner == file # None => place[file] \in {"grant", "serve", "unlink", "killed"}

----------------------------------------------------------------------------
(***************************************************************************)
(* The path names a socket file of some process or nothing, and only a     *)
(* process between its bind and the close of its listener accepts          *)
(* connections (listenUnixPrivate, Server.Run), whatever overlaps.         *)
(***************************************************************************)
THEOREM SocketTypeCorrect == SocketSpec => []SocketTypeOK
<1> USE IpcSocketAssumption DEF SocketTypeOK, Starting, Ending, At, Goto, history
<1>1. SocketInit => SocketTypeOK
  BY DEF SocketInit
<1>2. SocketTypeOK /\ [SocketNext]_socketVars => SocketTypeOK'
  <2> SUFFICES ASSUME SocketTypeOK, [SocketNext]_socketVars
               PROVE  SocketTypeOK'
    OBVIOUS
  <2>1. ASSUME NEW p \in Process, Start(p) PROVE SocketTypeOK'
    BY <2>1 DEF Start, Begin
  <2>2. ASSUME NEW p \in Process, isSocketAlive(p) PROVE SocketTypeOK'
    BY <2>2 DEF isSocketAlive
  <2>3. ASSUME NEW p \in Process, RemoveStale(p) PROVE SocketTypeOK'
    BY <2>3 DEF RemoveStale
  <2>4. ASSUME NEW p \in Process, listenUnixPrivate(p) PROVE SocketTypeOK'
    BY <2>4 DEF listenUnixPrivate
  <2>5. ASSUME NEW p \in Process, grantSocketAccess(p) PROVE SocketTypeOK'
    BY <2>5 DEF grantSocketAccess
  <2>6. ASSUME NEW p \in Process, Visit(p) PROVE SocketTypeOK'
    BY <2>6 DEF Visit
  <2>7. ASSUME NEW p \in Process, ToggleKernel(p) PROVE SocketTypeOK'
    BY <2>7 DEF ToggleKernel
  <2>8. ASSUME NEW p \in Process, Leave(p) PROVE SocketTypeOK'
    BY <2>8 DEF Leave, Begin
  <2>9. ASSUME NEW p \in Process, Terminate(p) PROVE SocketTypeOK'
    BY <2>9 DEF Terminate, Begin
  <2>10. ASSUME NEW p \in Process, Unlink(p) PROVE SocketTypeOK'
    BY <2>10 DEF Unlink
  <2>11. ASSUME NEW p \in Process, CloseListener(p) PROVE SocketTypeOK'
    BY <2>11 DEF CloseListener
  <2>12. ASSUME NEW p \in Process, cleanupPlatform(p) PROVE SocketTypeOK'
    BY <2>12 DEF cleanupPlatform
  <2>13. ASSUME NEW p \in Process, Crash(p) PROVE SocketTypeOK'
    BY <2>13 DEF Crash
  <2>14. CASE UNCHANGED socketVars
    BY <2>14 DEF socketVars, history
  <2>15. QED
    BY <2>1, <2>2, <2>3, <2>4, <2>5, <2>6, <2>7,
       <2>8, <2>9, <2>10, <2>11, <2>12, <2>13, <2>14
    DEF SocketNext, Step
<1>3. QED
  BY <1>1, <1>2, PTL DEF SocketSpec

----------------------------------------------------------------------------
(***************************************************************************)
(* The inductive step: as long as no start or end has overlapped another   *)
(* one and no dial to a live process has failed, what holds of the path is *)
(* kept by every system call, the crash of a process included              *)
(* (listenPlatform, Server.Run, cleanupPlatform).                          *)
(***************************************************************************)
LEMMA OrderStep ==
  ASSUME SocketTypeOK, SocketTypeOK', OrderInv, [SocketNext]_socketVars
  PROVE  OrderInv'
<1> USE IpcSocketAssumption
    DEF SocketTypeOK, OrderInv, Undisturbed, OneBusy, OwnerReachable, NobodyElse,
        Busy, Reachable, Starting, Ending, At, Goto, history
<1>0. ASSUME NEW p \in Process, NEW l, Begin(p, l), ~overlapped'
      PROVE  ~overlapped /\ (\A q \in Process : ~Busy(q)) /\ Goto(p, l)
  BY <1>0 DEF Begin
<1>1. ASSUME NEW p \in Process, Start(p) PROVE OrderInv'
  <2>1. CASE ~Undisturbed'
    BY <2>1
  <2>2. CASE Undisturbed'
    <3>1. ~overlapped /\ (\A q \in Process : ~Busy(q)) /\ Goto(p, "probe")
      BY <1>1, <1>0, <2>2 DEF Start
    <3>2. QED
      BY <1>1, <2>2, <3>1 DEF Start
  <2>3. QED
    BY <2>1, <2>2
<1>2. ASSUME NEW p \in Process, isSocketAlive(p) PROVE OrderInv'
  BY <1>2 DEF isSocketAlive
<1>3. ASSUME NEW p \in Process, RemoveStale(p) PROVE OrderInv'
  BY <1>3 DEF RemoveStale
<1>4. ASSUME NEW p \in Process, listenUnixPrivate(p) PROVE OrderInv'
  BY <1>4 DEF listenUnixPrivate
<1>5. ASSUME NEW p \in Process, grantSocketAccess(p) PROVE OrderInv'
  BY <1>5 DEF grantSocketAccess
<1>6. ASSUME NEW p \in Process, Visit(p) PROVE OrderInv'
  BY <1>6 DEF Visit
<1>7. ASSUME NEW p \in Process, ToggleKernel(p) PROVE OrderInv'
  BY <1>7 DEF ToggleKernel
<1>8. ASSUME NEW p \in Process, Leave(p) PROVE OrderInv'
  BY <1>8 DEF Leave, Begin
<1>9. ASSUME NEW p \in Process, Terminate(p) PROVE OrderInv'
  <2>1. CASE ~Undisturbed'
    BY <2>1
  <2>2. CASE Undisturbed'
    <3>1. ~overlapped /\ (\A q \in Process : ~Busy(q)) /\ Goto(p, "unlink")
      BY <1>9, <1>0, <2>2 DEF Terminate
    <3>2. QED
      BY <1>9, <2>2, <3>1 DEF Terminate
  <2>3. QED
    BY <2>1, <2>2
<1>10. ASSUME NEW p \in Process, Unlink(p) PROVE OrderInv'
  BY <1>10 DEF Unlink
<1>11. ASSUME NEW p \in Process, CloseListener(p) PROVE OrderInv'
  BY <1>11 DEF CloseListener
<1>12. ASSUME NEW p \in Process, cleanupPlatform(p) PROVE OrderInv'
  BY <1>12 DEF cleanupPlatform
<1>13. ASSUME NEW p \in Process, Crash(p) PROVE OrderInv'
  BY <1>13 DEF Crash
<1>14. CASE UNCHANGED socketVars
  BY <1>14 DEF socketVars, history
<1>15. QED
  BY <1>1, <1>2, <1>3, <1>4, <1>5, <1>6, <1>7,
     <1>8, <1>9, <1>10, <1>11, <1>12, <1>13, <1>14
  DEF SocketNext, Step

(***************************************************************************)
(* The path leads to the process that serves: a second process started by  *)
(* mistake fails at the probe and does not take the path away (comment of  *)
(* listenPlatform), neither do killed processes and failed starts, until a *)
(* start or an end overlaps another one or a dial to a live process fails. *)
(***************************************************************************)
THEOREM ServingIsReachable == SocketSpec => []ServingReachable
<1>1. SocketInit => OrderInv
  BY DEF SocketInit, OrderInv, OneBusy, OwnerReachable, NobodyElse,
         Busy, Starting, Ending, At
<1>2. SocketTypeOK /\ SocketTypeOK' /\ OrderInv /\ [SocketNext]_socketVars => OrderInv'
  BY OrderStep
<1>3. OrderInv => ServingReachable
  BY DEF OrderInv, Undisturbed, OwnerReachable, ServingReachable, At
<1>4. QED
  BY <1>1, <1>2, <1>3, SocketTypeCorrect, PTL DEF SocketSpec

----------------------------------------------------------------------------
(***************************************************************************)
(* Whatever overlaps and whichever dial fails: a process that serves and   *)
(* that the path leads to lets its GUI user in, though setfacl names only  *)
(* the path, which may have become another process's between the bind and  *)
(* the grant (grantSocketAccess).                                          *)
(***************************************************************************)
THEOREM ServingIsGranted == SocketSpec => []ServingGranted
<1>1. SocketInit => ServingGranted
  BY DEF SocketInit, ServingGranted, At
<1>2. SocketTypeOK /\ ServingGranted /\ [SocketNext]_socketVars => ServingGranted'
  <2> USE IpcSocketAssumption
      DEF SocketTypeOK, ServingGranted, Starting, Ending, At, Goto, history
  <2> SUFFICES ASSUME SocketTypeOK, ServingGranted, [SocketNext]_socketVars
               PROVE  ServingGranted'
    OBVIOUS
  <2>1. ASSUME NEW p \in Process, Start(p) PROVE ServingGranted'
    BY <2>1 DEF Start, Begin
  <2>2. ASSUME NEW p \in Process, isSocketAlive(p) PROVE ServingGranted'
    BY <2>2 DEF isSocketAlive
  <2>3. ASSUME NEW p \in Process, RemoveStale(p) PROVE ServingGranted'
    BY <2>3 DEF RemoveStale
  <2>4. ASSUME NEW p \in Process, listenUnixPrivate(p) PROVE ServingGranted'
    BY <2>4 DEF listenUnixPrivate
  <2>5. ASSUME NEW p \in Process, grantSocketAccess(p) PROVE ServingGranted'
    BY <2>5 DEF grantSocketAccess
  <2>6. ASSUME NEW p \in Process, Visit(p) PROVE ServingGranted'
    BY <2>6 DEF Visit
  <2>7. ASSUME NEW p \in Process, ToggleKernel(p) PROVE ServingGranted'
    BY <2>7 DEF ToggleKernel
  <2>8. ASSUME NEW p \in Process, Leave(p) PROVE ServingGranted'
    BY <2>8 DEF Leave, Begin
  <2>9. ASSUME NEW p \in Process, Terminate(p) PROVE ServingGranted'
    BY <2>9 DEF Terminate, Begin
  <2>10. ASSUME NEW p \in Process, Unlink(p) PROVE ServingGranted'
    BY <2>10 DEF Unlink
  <2>11. ASSUME NEW p \in Process, CloseListener(p) PROVE ServingGranted'
    BY <2>11 DEF CloseListener
  <2>12. ASSUME NEW p \in Process, cleanupPlatform(p) PROVE ServingGranted'
    BY <2>12 DEF cleanupPlatform
  <2>13. ASSUME NEW p \in Process, Crash(p) PROVE ServingGranted'
    BY <2>13 DEF Crash
  <2>14. CASE UNCHANGED socketVars
    BY <2>14 DEF socketVars, history
  <2>15. QED
    BY <2>1, <2>2, <2>3, <2>4, <2>5, <2>6, <2>7,
       <2>8, <2>9, <2>10, <2>11, <2>12, <2>13, <2>14
    DEF SocketNext, Step
<1>3. QED
  BY <1>1, <1>2, SocketTypeCorrect, PTL DEF SocketSpec

(***************************************************************************)
(* Whatever overlaps and whichever dial fails: when every process has      *)
(* ended in an orderly way or failed to start, the path is gone, though    *)
(* each of them removes it without looking whose it is, and a bind may     *)
(* come between the two removals of another (cleanupPlatform).             *)
(***************************************************************************)
THEOREM NothingIsLeft == SocketSpec => []NothingLeft
<1>1. SocketInit => FileHasOwner
  BY DEF SocketInit, FileHasOwner
<1>2. SocketTypeOK /\ FileHasOwner /\ [SocketNext]_socketVars => FileHasOwner'
  <2> USE IpcSocketAssumption
      DEF SocketTypeOK, FileHasOwner, Starting, Ending, At, Goto, history
  <2> SUFFICES ASSUME SocketTypeOK, FileHasOwner, [SocketNext]_socketVars
               PROVE  FileHasOwner'
    OBVIOUS
  <2>1. ASSUME NEW p \in Process, Start(p) PROVE FileHasOwner'
    BY <2>1 DEF Start, Begin
  <2>2. ASSUME NEW p \in Process, isSocketAlive(p) PROVE FileHasOwner'
    BY <2>2 DEF isSocketAlive
  <2>3. ASSUME NEW p \in Process, RemoveStale(p) PROVE FileHasOwner'
    BY <2>3 DEF RemoveStale
  <2>4. ASSUME NEW p \in Process, listenUnixPrivate(p) PROVE FileHasOwner'
    BY <2>4 DEF listenUnixPrivate
  <2>5. ASSUME NEW p \in Process, grantSocketAccess(p) PROVE FileHasOwner'
    BY <2>5 DEF grantSocketAccess
  <2>6. ASSUME NEW p \in Process, Visit(p) PROVE FileHasOwner'
    BY <2>6 DEF Visit
  <2>7. ASSUME NEW p \in Process, ToggleKernel(p) PROVE FileHasOwner'
    BY <2>7 DEF ToggleKernel
  <2>8. ASSUME NEW p \in Process, Leave(p) PROVE FileHasOwner'
    BY <2>8 DEF Leave, Begin
  <2>9. ASSUME NEW p \in Process, Terminate(p) PROVE FileHasOwner'
    BY <2>9 DEF Terminate, Begin
  <2>10. ASSUME NEW p \in Process, Unlink(p) PROVE FileHasOwner'
    BY <2>10 DEF Unlink
  <2>11. ASSUME NEW p \in Process, CloseListener(p) PROVE FileHasOwner'
    BY <2>11 DEF CloseListener
  <2>12. ASSUME NEW p \in Process, cleanupPlatform(p) PROVE FileHasOwner'
    BY <2>12 DEF cleanupPlatform
  <2>13. ASSUME NEW p \in Process, Crash(p) PROVE FileHasOwner'
    BY <2>13 DEF Crash
  <2>14. CASE UNCHANGED socketVars
    BY <2>14 DEF socketVars, history
  <2>15. QED
    BY <2>1, <2>2, <2>3, <2>4, <2>5, <2>6, <2>7,
       <2>8, <2>9, <2>10, <2>11, <2>12, <2>13, <2>14
    DEF SocketNext, Step
<1>3. SocketTypeOK /\ FileHasOwner => NothingLeft
  BY DEF SocketTypeOK, FileHasOwner, NothingLeft
<1>4. QED
  BY <1>1, <1>2, <1>3, SocketTypeCorrect, PTL DEF SocketSpec
=============================================================================
