----------------------------- MODULE IpcSocket -----------------------------
(***************************************************************************)
(* Several server processes and the one path of the command socket         *)
(* (ipc/listen_posix.go and the ends of Server.Run in ipc/server.go).      *)
(*                                                                         *)
(* The path names at most one socket file, made by the process whose bind  *)
(* created it; a connection to the path succeeds while that process still  *)
(* listens.  One step is one system call on the path or the listener.      *)
(***************************************************************************)
CONSTANTS
  Process,    \* server processes, each of which lives once
  NoUser,     \* those that have no GUI user to grant access to
  None        \* no file at the path

ASSUME IpcSocketAssumption ==
  /\ None \notin Process
  /\ NoUser \subseteq Process

VARIABLES
  file,       \* whose socket file the path names, or None
  listening,  \* the processes whose listener is open
  granted,    \* the processes whose socket file the GUI user may open
  visited,    \* the processes that accepted a connection which was then closed
  kernel,     \* the processes whose kernel runs
  place,      \* where each process is
  overlapped, \* history: one started or ended while another was at it
  misled      \* history: a dial failed though the process at the path listened

history == <<overlapped, misled>>
socketVars == <<file, listening, granted, visited, kernel, place, history>>

Starting == {"probe", "clear", "bind", "grant"}
Ending   == {"unlink", "close", "remove"}

SocketTypeOK ==
  /\ file \in Process \cup {None}
  /\ listening \subseteq Process
  /\ granted \subseteq Process
  /\ visited \subseteq Process
  /\ kernel \subseteq Process
  /\ place \in [Process -> {"off", "serve", "done", "failed", "killed"} \cup Starting \cup Ending]
  /\ {overlapped, misled} \subseteq BOOLEAN
  /\ \A p \in listening : place[p] \in {"grant", "serve", "unlink", "close"}

SocketInit ==
  /\ file = None
  /\ listening = {} /\ granted = {} /\ visited = {} /\ kernel = {}
  /\ place = [p \in Process |-> "off"]
  /\ overlapped = FALSE /\ misled = FALSE

At(p, l) == place[p] = l
Goto(p, l) == place' = [place EXCEPT ![p] = l]

Reachable(p) == file = p /\ p \in listening

(* A process begins to start or to end.                                    *)
Begin(p, l) ==
  /\ Goto(p, l)
  /\ overlapped' = (overlapped \/ \E q \in Process : place[q] \in Starting \cup Ending)

Start(p) ==
  /\ At(p, "off")
  /\ Begin(p, "probe")
  /\ UNCHANGED <<file, listening, granted, visited, kernel, misled>>

----------------------------------------------------------------------------
(* listenPlatform *)

SkipProbe(p) ==  \* mutant: the path is cleared without asking
  /\ At(p, "probe")
  /\ Goto(p, "clear")
  /\ UNCHANGED <<file, listening, granted, visited, kernel, history>>

(* The probe is itself a connection that is opened and closed.  Any error  *)
(* of the dial counts as a file that a dead process left: also a context   *)
(* that is cancelled, a socket of another user, a full backlog.            *)
isSocketAlive(p) ==
  /\ At(p, "probe")
  /\ \/ \E q \in Process :
          /\ Reachable(q)
          /\ visited' = visited \cup {q}
          /\ Goto(p, "failed")
          /\ UNCHANGED misled
     \/ /\ misled' = (misled \/ \E q \in Process : Reachable(q))
        /\ Goto(p, "clear")
        /\ UNCHANGED visited
  /\ UNCHANGED <<file, listening, granted, kernel, overlapped>>

RemoveStale(p) ==
  /\ At(p, "clear")
  /\ file' = None
  /\ Goto(p, "bind")
  /\ UNCHANGED <<listening, granted, visited, kernel, history>>

(* A path that exists again is in use; a mount that stays read-only also   *)
(* ends the retries.                                                       *)
listenUnixPrivate(p) ==
  /\ At(p, "bind")
  /\ \/ /\ file = None
        /\ file' = p
        /\ listening' = listening \cup {p}
        /\ Goto(p, "grant")
     \/ /\ Goto(p, "failed")
        /\ UNCHANGED <<file, listening>>
  /\ UNCHANGED <<granted, visited, kernel, history>>

GrantUnchecked(p) ==  \* mutant: a failed setfacl is ignored
  /\ At(p, "grant")
  /\ granted' \in {granted, granted \cup ({file} \ {None})}
  /\ Goto(p, "serve")
  /\ UNCHANGED <<file, listening, visited, kernel, history>>

GrantLeak(p) ==  \* mutant: a failed setfacl only returns the error
  /\ At(p, "grant")
  /\ \/ /\ file # None
        /\ granted' = granted \cup {file}
        /\ Goto(p, "serve")
     \/ /\ Goto(p, "failed")
        /\ UNCHANGED granted
  /\ UNCHANGED <<file, listening, visited, kernel, history>>

(* setfacl names the path, not the listener; it fails on a missing file,   *)
(* and then the listener is closed and the path removed.                   *)
grantSocketAccess(p) ==
  /\ At(p, "grant")
  /\ \/ /\ p \notin NoUser /\ file # None
        /\ granted' = granted \cup {file}
        /\ Goto(p, "serve")
     \/ /\ p \in NoUser
        /\ Goto(p, "serve")
        /\ UNCHANGED granted
     \/ /\ Goto(p, "unlink")
        /\ UNCHANGED granted
  /\ UNCHANGED <<file, listening, visited, kernel, history>>

----------------------------------------------------------------------------
(* Server.Run and cleanupPlatform *)

(* A GUI connects through the path and leaves. *)
Visit(p) ==
  /\ At(p, "serve") /\ Reachable(p)
  /\ visited' = visited \cup {p}
  /\ UNCHANGED <<file, listening, granted, kernel, place, history>>

ToggleKernel(p) ==
  /\ At(p, "serve")
  /\ kernel' = IF p \in kernel THEN kernel \ {p} ELSE kernel \cup {p}
  /\ UNCHANGED <<file, listening, granted, visited, place, history>>

(* A closed connection ends Run when the kernel does not run. *)
Leave(p) ==
  /\ At(p, "serve") /\ p \in visited
  /\ visited' = visited \ {p}
  /\ \/ p \in kernel /\ UNCHANGED <<place, overlapped>>
     \/ p \notin kernel /\ Begin(p, "unlink")
  /\ UNCHANGED <<file, listening, granted, kernel, misled>>

Terminate(p) ==
  /\ At(p, "serve")
  /\ Begin(p, "unlink")
  /\ UNCHANGED <<file, listening, granted, visited, kernel, misled>>

(* Closing a UnixListener unlinks its path, once, ... *)
Unlink(p) ==
  /\ At(p, "unlink")
  /\ file' = None
  /\ Goto(p, "close")
  /\ UNCHANGED <<listening, granted, visited, kernel, history>>

StayOpen(p) ==  \* mutant: the listener is not closed
  /\ At(p, "close")
  /\ Goto(p, "remove")
  /\ UNCHANGED <<file, listening, granted, visited, kernel, history>>

(* ... and then closes the descriptor. *)
CloseListener(p) ==
  /\ At(p, "close")
  /\ listening' = listening \ {p}
  /\ Goto(p, "remove")
  /\ UNCHANGED <<file, granted, visited, kernel, history>>

(* The path is removed again, whoever's it has become. *)
cleanupPlatform(p) ==
  /\ At(p, "remove")
  /\ file' = None
  /\ Goto(p, "done")
  /\ UNCHANGED <<listening, granted, visited, kernel, history>>

(* A killed process leaves its socket file behind. *)
Crash(p) ==
  /\ place[p] \in {"serve"} \cup Starting \cup Ending
  /\ listening' = listening \ {p}
  /\ kernel' = kernel \ {p}
  /\ Goto(p, "killed")
  /\ UNCHANGED <<file, granted, visited, history>>

Step(p) ==
  \/ isSocketAlive(p) \/ RemoveStale(p) \/ listenUnixPrivate(p) \/ grantSocketAccess(p)
  \/ Leave(p) \/ Unlink(p) \/ CloseListener(p) \/ cleanupPlatform(p)

SocketNext ==
  \E p \in Process :
    Start(p) \/ Visit(p) \/ ToggleKernel(p) \/ Terminate(p) \/ Crash(p) \/ Step(p)

SocketSpec == SocketInit /\ [][SocketNext]_socketVars

----------------------------------------------------------------------------
(* Properties *)

(***************************************************************************)
(* A process that serves is the one the path leads to, so that its GUI can *)
(* always come back (comment of listenPlatform): a failed dial to a live   *)
(* process, and starts and ends that overlap, are all that takes the path  *)
(* of a process away.  A killed process, a second start and a failed one   *)
(* do not.                                                                 *)
(***************************************************************************)
ServingReachable ==
  ~overlapped /\ ~misled => \A p \in Process : At(p, "serve") => Reachable(p)

(***************************************************************************)
(* The probe alone keeps the path with the process that serves (comment of *)
(* listenPlatform).                                                        *)
(***************************************************************************)
ProbeProtects ==
  ~misled => \A p \in Process : At(p, "serve") => Reachable(p)

(***************************************************************************)
(* Whom a GUI user reaches through the path, lets him in, whatever         *)
(* overlaps: setfacl names only the path, which may lead to another        *)
(* process by then, yet a process whose own socket was not granted is not  *)
(* the one the path leads to while it serves (grantSocketAccess).          *)
(***************************************************************************)
ServingGranted ==
  \A p \in Process \ NoUser : At(p, "serve") /\ file = p => p \in granted

(***************************************************************************)
(* Processes that all ended in an orderly way, or failed to start, leave   *)
(* nothing at the path, in whatever order their starts and ends mixed      *)
(* (listenPlatform, cleanupPlatform).                                      *)
(***************************************************************************)
NothingLeft ==
  (\A p \in Process : place[p] \in {"off", "done", "failed"}) => file = None
=============================================================================
