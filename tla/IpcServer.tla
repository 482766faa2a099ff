----------------------------- MODULE IpcServer -----------------------------
(***************************************************************************)
(* The JSON-RPC server of ipc/server.go: the accept loop of Server.Run, the*)
(* goroutine that reacts to the cancelled context, one goroutine per       *)
(* request, and the core goroutines whose events become notifications.     *)
(*                                                                         *)
(* Every message leaves through clientConn.send, which locks the mutex of  *)
(* the connection, writes to a bufio.Writer and ignores the error of       *)
(* Flush; the writer keeps that error and the next Write reports it.  send *)
(* then logs a warning while it holds the mutex, and a warning is itself an*)
(* event: it comes back through onCoreEvent to the active connection.      *)
(*                                                                         *)
(* GUI clients are the environment: they dial, send requests, hang up.     *)
(* The core service is reduced to whether its kernel runs.                 *)
(***************************************************************************)
EXTENDS Sequences

CONSTANTS
  Conn,         \* connections the GUIs may open
  Request,      \* messages they may send
  Notice,       \* those without an id: nothing is answered
  None

ASSUME IpcServerAssumption ==
  /\ None \notin Conn \cup Request \cup {"main", "core"}
  /\ Conn \cap Request = {}
  /\ {"wait", "listener", "load", "done"} \cap Conn = {}
  /\ {"main", "core"} \cap (Conn \cup Request) = {}
  /\ Notice \subseteq Request

(* The goroutines that send: the accept loop, the requests, and the core.  *)
Sender == Request \cup {"main", "core"}

VARIABLES
  ctx,       \* whether the context of Run is live or cancelled
  listening, \* whether the listener is open
  conn,      \* each connection on the server's side
  gone,      \* the connections whose GUI has hung up
  broken,    \* the connections whose writer keeps an error
  mu,        \* clientConn.mu of each connection: the holder or None
  active,    \* Server.active
  cur,       \* the connection Run serves, or None
  closer,    \* where the goroutine waiting for ctx.Done is
  kernel,    \* whether the kernel runs
  from,      \* the connection each request was sent on, or None
  answer,    \* the connection each response was written to, or None
  kind,      \* what each request asks for
  inbox,     \* what was sent on each connection and is not yet decoded
  stage,     \* what each sender sends: an event, its last log entry, a response
  target,    \* the connection each sender is writing to
  pc

connVars == <<conn, gone, broken>>
reqVars  == <<from, answer, kind, inbox>>
sendVars == <<stage, target>>
vars == <<ctx, listening, connVars, mu, active, cur, closer, kernel, reqVars, sendVars, pc>>

Sending == {"load", "mutex", "write", "unwind"}

TypeOK ==
  /\ ctx \in {"live", "cancelled"}
  /\ listening \in BOOLEAN
  /\ conn \in [Conn -> {"none", "pending", "open", "closed"}]
  /\ gone \subseteq Conn /\ broken \subseteq Conn
  /\ mu \in [Conn -> Sender \cup {None}]
  /\ active \in Conn \cup {None}
  /\ cur \in Conn \cup {None}
  /\ closer \in {"wait", "listener", "load", "done"} \cup Conn
  /\ kernel \in {"down", "up"}
  /\ from \in [Request -> Conn \cup {None}]
  /\ answer \in [Request -> Conn \cup {None}]
  /\ kind \in [Request -> {"start", "stop", "query"}]
  /\ inbox \in [Conn -> Seq(Request)]
  /\ stage \in [Sender -> {"event", "log", "response"}]
  /\ target \in [Sender -> Conn \cup {None}]
  /\ pc \in [Sender -> Sending \cup {"idle", "handle", "done", "accept", "store", "check",
                         "decode", "detach", "hangup", "state"}]
  /\ \A g \in Sender : pc[g] \in {"mutex", "write"} => target[g] # None
  /\ pc["main"] \notin {"accept", "state", "done"} => cur # None

Init ==
  /\ ctx = "live"
  /\ listening = TRUE
  /\ conn = [c \in Conn |-> "none"]
  /\ gone = {} /\ broken = {}
  /\ mu = [c \in Conn |-> None]
  /\ active = None
  /\ cur = None
  /\ closer = "wait"
  /\ kernel = "down"
  /\ from = [r \in Request |-> None]
  /\ answer = [r \in Request |-> None]
  /\ kind = [r \in Request |-> "query"]
  /\ inbox = [c \in Conn |-> <<>>]
  /\ stage = [g \in Sender |-> "event"]
  /\ target = [g \in Sender |-> None]
  /\ pc = [g \in Sender |-> IF g = "main" THEN "accept" ELSE "idle"]

At(g, l) == pc[g] = l
Goto(g, l) == pc' = [pc EXCEPT ![g] = l]

Holds(g) == {c \in Conn : mu[c] = g}
Waits(g, h) == At(g, "mutex") /\ mu[target[g]] = h

----------------------------------------------------------------------------
(* The GUIs *)

Dial(c) ==
  /\ conn[c] = "none" /\ listening
  /\ conn' = [conn EXCEPT ![c] = "pending"]
  /\ UNCHANGED <<ctx, listening, gone, broken, mu, active, cur, closer, kernel, reqVars,
                 sendVars, pc>>

Send(c, r, k) ==
  /\ conn[c] \in {"pending", "open"} /\ c \notin gone
  /\ from[r] = None
  /\ from' = [from EXCEPT ![r] = c]
  /\ kind' = [kind EXCEPT ![r] = k]
  /\ inbox' = [inbox EXCEPT ![c] = Append(@, r)]
  /\ UNCHANGED <<ctx, listening, connVars, mu, active, cur, closer, kernel, answer,
                 sendVars, pc>>

HangUp(c) ==
  /\ conn[c] \in {"pending", "open"} /\ c \notin gone
  /\ gone' = gone \cup {c}
  /\ UNCHANGED <<ctx, listening, conn, broken, mu, active, cur, closer, kernel, reqVars,
                 sendVars, pc>>

(* SIGTERM, or the host stopping the server. *)
Cancel ==
  /\ ctx = "live"
  /\ ctx' = "cancelled"
  /\ UNCHANGED <<listening, connVars, mu, active, cur, closer, kernel, reqVars, sendVars,
                 pc>>

----------------------------------------------------------------------------
(* The goroutine that waits for ctx.Done; the deferred cancel of Run also  *)
(* wakes it.                                                               *)

CloserWake ==
  /\ closer = "wait"
  /\ ctx = "cancelled" \/ At("main", "done")
  /\ closer' = "listener"
  /\ UNCHANGED <<ctx, listening, connVars, mu, active, cur, kernel, reqVars, sendVars, pc>>

CloseListener ==
  /\ closer = "listener"
  /\ listening' = FALSE
  /\ closer' = "load"
  /\ UNCHANGED <<ctx, connVars, mu, active, cur, kernel, reqVars, sendVars, pc>>

LoadActive ==
  /\ closer = "load"
  /\ closer' = IF active = None THEN "done" ELSE active
  /\ UNCHANGED <<ctx, listening, connVars, mu, active, cur, kernel, reqVars, sendVars, pc>>

CloseActive ==
  /\ closer \in Conn
  /\ conn' = [conn EXCEPT ![closer] = "closed"]
  /\ closer' = "done"
  /\ UNCHANGED <<ctx, listening, gone, broken, mu, active, cur, kernel, reqVars, sendVars,
                 pc>>

Closer == CloserWake \/ CloseListener \/ LoadActive \/ CloseActive

----------------------------------------------------------------------------
(* clientConn.send *)

NoNilCheck(g) ==  \* mutant: the active connection is used unchecked
  /\ At(g, "load")
  /\ target' = [target EXCEPT ![g] = active]
  /\ Goto(g, "mutex")
  /\ UNCHANGED <<ctx, listening, connVars, mu, active, cur, closer, kernel, reqVars, stage>>

(* sendNotification: nothing is sent without an active connection. *)
LoadTarget(g) ==
  /\ At(g, "load")
  /\ \/ /\ active = None
        /\ Goto(g, "unwind")
        /\ UNCHANGED target
     \/ /\ active # None
        /\ target' = [target EXCEPT ![g] = active]
        /\ Goto(g, "mutex")
  /\ UNCHANGED <<ctx, listening, connVars, mu, active, cur, closer, kernel, reqVars, stage>>

NoLock(g) ==  \* mutant: the writer is not locked
  /\ At(g, "mutex")
  /\ mu' = [mu EXCEPT ![target[g]] = g]
  /\ Goto(g, "write")
  /\ UNCHANGED <<ctx, listening, connVars, active, cur, closer, kernel, reqVars, sendVars>>

Lock(g) ==
  /\ At(g, "mutex")
  /\ mu[target[g]] = None
  /\ mu' = [mu EXCEPT ![target[g]] = g]
  /\ Goto(g, "write")
  /\ UNCHANGED <<ctx, listening, connVars, active, cur, closer, kernel, reqVars, sendVars>>

(* A response is what a request writes when it is not logging a failure.   *)
IsResponse(g) == stage[g] = "response" /\ Holds(g) = {target[g]}

(* Write and Flush.  A writer that keeps an error makes send log a warning *)
(* with the mutex still locked: the log entry is the next notification.    *)
Write(g) ==
  LET c == target[g] IN
  /\ At(g, "write")
  /\ \/ /\ c \in broken
        /\ Goto(g, "load")
        /\ UNCHANGED <<broken, answer>>
     \/ /\ c \notin broken
        /\ c \in gone \/ conn[c] = "closed"
        /\ broken' = broken \cup {c}
        /\ Goto(g, "unwind")
        /\ UNCHANGED answer
     \/ /\ c \notin broken \cup gone /\ conn[c] # "closed"
        /\ answer' = IF IsResponse(g) THEN [answer EXCEPT ![g] = c] ELSE answer
        /\ Goto(g, "unwind")
        /\ UNCHANGED broken
  /\ UNCHANGED <<ctx, listening, conn, gone, mu, active, cur, closer, kernel, from, kind,
                 inbox, sendVars>>

(* Where a sender goes when send has returned. *)
Sent(g) ==
  CASE g = "core" -> "idle"
    [] g = "main" -> IF stage[g] = "log" THEN "detach" ELSE "check"
    [] OTHER -> "done"

RespondToActive(g) ==  \* mutant: the response goes to the active connection
  /\ At(g, "unwind")
  /\ mu' = [c \in Conn |-> IF mu[c] = g THEN None ELSE mu[c]]
  /\ IF g \in Request /\ stage[g] = "event" /\ active # None
       THEN /\ stage' = [stage EXCEPT ![g] = "response"]
            /\ target' = [target EXCEPT ![g] = active]
            /\ Goto(g, "mutex")
       ELSE /\ target' = [target EXCEPT ![g] = None]
            /\ stage' = [stage EXCEPT ![g] = "event"]
            /\ Goto(g, Sent(g))
  /\ UNCHANGED <<ctx, listening, connVars, active, cur, closer, kernel, reqVars>>

NoUnlock(g) ==  \* mutant: the mutex is kept
  /\ At(g, "unwind")
  /\ \/ /\ g \in Request /\ stage[g] = "event"
        /\ stage' = [stage EXCEPT ![g] = "response"]
        /\ target' = [target EXCEPT ![g] = from[g]]
        /\ Goto(g, "mutex")
     \/ /\ g \notin Request \/ stage[g] = "response"
        /\ target' = [target EXCEPT ![g] = None]
        /\ stage' = [stage EXCEPT ![g] = "event"]
        /\ Goto(g, Sent(g))
  /\ UNCHANGED <<ctx, listening, connVars, mu, active, cur, closer, kernel, reqVars>>

(* The deferred unlocks; a request goes on to its response, which is       *)
(* written to the connection it came from.                                 *)
Unwind(g) ==
  /\ At(g, "unwind")
  /\ mu' = [c \in Conn |-> IF mu[c] = g THEN None ELSE mu[c]]
  /\ \/ /\ g \in Request /\ stage[g] = "event"
        /\ stage' = [stage EXCEPT ![g] = "response"]
        /\ target' = [target EXCEPT ![g] = from[g]]
        /\ Goto(g, "mutex")
     \/ /\ g \notin Request \/ stage[g] = "response"
        /\ target' = [target EXCEPT ![g] = None]
        /\ stage' = [stage EXCEPT ![g] = "event"]
        /\ Goto(g, Sent(g))
  /\ UNCHANGED <<ctx, listening, connVars, active, cur, closer, kernel, reqVars>>

SendStep(g) == LoadTarget(g) \/ Lock(g) \/ Write(g) \/ Unwind(g)

----------------------------------------------------------------------------
(* The goroutine of a request: Handler.Handle, then the response *)

(* A start or stop that changes the state emits it before Handle returns.  *)
(* A start stops the kernel that runs before it can fail.                  *)
Asked(r, k) == IF kind[r] = "start" THEN k \in {"up", "down"} ELSE k = "down"

ChangeKernel(r) ==
  /\ At(r, "handle")
  /\ kind[r] \in {"start", "stop"}
  /\ \E k \in {"up", "down"} : Asked(r, k) /\ kernel' = k
  /\ Goto(r, "load")
  /\ UNCHANGED <<ctx, listening, connVars, mu, active, cur, closer, reqVars, sendVars>>

(* A query, a start that fails before anything changed, a stop of what     *)
(* does not run.                                                           *)
OnlyAnswer(r) ==
  /\ At(r, "handle")
  /\ stage' = [stage EXCEPT ![r] = "response"]
  /\ target' = [target EXCEPT ![r] = from[r]]
  /\ Goto(r, "mutex")
  /\ UNCHANGED <<ctx, listening, connVars, mu, active, cur, closer, kernel, reqVars>>

(* The statistics, connection, mode and log events of other goroutines. *)
CoreEvent ==
  /\ At("core", "idle")
  /\ Goto("core", "load")
  /\ UNCHANGED <<ctx, listening, connVars, mu, active, cur, closer, kernel, reqVars, sendVars>>

----------------------------------------------------------------------------
(* Server.Run and serveConnection *)

Accept ==
  /\ At("main", "accept")
  /\ listening
  /\ \E c \in Conn :
       /\ conn[c] = "pending"
       /\ conn' = [conn EXCEPT ![c] = "open"]
       /\ cur' = c
  /\ Goto("main", "store")
  /\ UNCHANGED <<ctx, listening, gone, broken, mu, active, closer, kernel, reqVars, sendVars>>

(* Accept fails on the closed listener, which is closed after ctx.Done. *)
AcceptError ==
  /\ At("main", "accept")
  /\ ~listening
  /\ Goto("main", "done")
  /\ UNCHANGED <<ctx, listening, connVars, mu, active, cur, closer, kernel, reqVars, sendVars>>

(* Any other error of Accept is logged, which reaches nobody, and Run goes *)
(* on unless the context was cancelled meanwhile.                          *)
AcceptFails ==
  /\ At("main", "accept")
  /\ listening
  /\ Goto("main", IF ctx = "cancelled" THEN "done" ELSE "accept")
  /\ UNCHANGED <<ctx, listening, connVars, mu, active, cur, closer, kernel, reqVars, sendVars>>

StoreActive ==
  /\ At("main", "store")
  /\ active' = cur
  /\ Goto("main", "check")
  /\ UNCHANGED <<ctx, listening, connVars, mu, cur, closer, kernel, reqVars, sendVars>>

NoCheck ==  \* mutant: ctx is not looked at before decoding
  /\ At("main", "check")
  /\ Goto("main", "decode")
  /\ UNCHANGED <<ctx, listening, connVars, mu, active, cur, closer, kernel, reqVars, sendVars>>

CheckDone ==
  /\ At("main", "check")
  /\ Goto("main", IF ctx = "cancelled" THEN "detach" ELSE "decode")
  /\ UNCHANGED <<ctx, listening, connVars, mu, active, cur, closer, kernel, reqVars, sendVars>>

(* A request gets its own goroutine.  The decoder may have read it before  *)
(* the connection was closed.                                              *)
DecodeRequest ==
  /\ At("main", "decode")
  /\ inbox[cur] # <<>>
  /\ inbox' = [inbox EXCEPT ![cur] = Tail(@)]
  /\ LET r == Head(inbox[cur]) IN
       /\ r \notin Notice
       /\ pc' = [pc EXCEPT !["main"] = "check", ![r] = "handle"]
  /\ UNCHANGED <<ctx, listening, connVars, mu, active, cur, closer, kernel, from, answer,
                 kind, sendVars>>

(* A message without an id is handled before the next one is read: the     *)
(* accept loop itself emits the new state of a start or a stop.            *)
DecodeNotice ==
  /\ At("main", "decode")
  /\ inbox[cur] # <<>>
  /\ inbox' = [inbox EXCEPT ![cur] = Tail(@)]
  /\ LET r == Head(inbox[cur]) IN
       /\ r \in Notice
       /\ \/ /\ kind[r] \in {"start", "stop"}
             /\ \E k \in {"up", "down"} : Asked(r, k) /\ kernel' = k
             /\ Goto("main", "load")
          \/ /\ Goto("main", "check")
             /\ UNCHANGED kernel
  /\ UNCHANGED <<ctx, listening, connVars, mu, active, cur, closer, from, answer, kind,
                 sendVars>>

(* io.EOF after the last request, or net.ErrClosed. *)
DecodeEnd ==
  /\ At("main", "decode")
  /\ \/ conn[cur] = "closed"
     \/ cur \in gone /\ inbox[cur] = <<>>
  /\ Goto("main", "detach")
  /\ UNCHANGED <<ctx, listening, connVars, mu, active, cur, closer, kernel, reqVars, sendVars>>

(* Any other error of the connection, and what is no JSON, is logged,      *)
(* hence notified.                                                         *)
DecodeError ==
  /\ At("main", "decode")
  /\ stage' = [stage EXCEPT !["main"] = "log"]
  /\ Goto("main", "load")
  /\ UNCHANGED <<ctx, listening, connVars, mu, active, cur, closer, kernel, reqVars, target>>

(* The deferred CompareAndSwap(cc, nil) ... *)
Detach ==
  /\ At("main", "detach")
  /\ active' = IF active = cur THEN None ELSE active
  /\ Goto("main", "hangup")
  /\ UNCHANGED <<ctx, listening, connVars, mu, cur, closer, kernel, reqVars, sendVars>>

(* ... and Close. *)
CloseConn ==
  /\ At("main", "hangup")
  /\ conn' = [conn EXCEPT ![cur] = "closed"]
  /\ cur' = None
  /\ Goto("main", "state")
  /\ UNCHANGED <<ctx, listening, gone, broken, mu, active, closer, kernel, reqVars, sendVars>>

ReturnAlways ==  \* mutant: Run returns with the first GUI
  /\ At("main", "state")
  /\ Goto("main", "done")
  /\ UNCHANGED <<ctx, listening, connVars, mu, active, cur, closer, kernel, reqVars, sendVars>>

(* A running kernel keeps the service alive without a GUI. *)
CheckState ==
  /\ At("main", "state")
  /\ Goto("main", IF kernel = "up" THEN "accept" ELSE "done")
  /\ UNCHANGED <<ctx, listening, connVars, mu, active, cur, closer, kernel, reqVars, sendVars>>

Run ==
  \/ Accept \/ AcceptError \/ StoreActive \/ CheckDone
  \/ DecodeRequest \/ DecodeNotice \/ DecodeEnd
  \/ Detach \/ CloseConn \/ CheckState

Fault == AcceptFails \/ DecodeError

Gui ==
  \/ \E c \in Conn : Dial(c) \/ HangUp(c)
  \/ \E c \in Conn, r \in Request, k \in {"start", "stop", "query"} : Send(c, r, k)

RequestStep(r) == ChangeKernel(r) \/ OnlyAnswer(r)

Next ==
  \/ Gui
  \/ Cancel
  \/ Closer
  \/ Run
  \/ Fault
  \/ CoreEvent
  \/ \E r \in Request : RequestStep(r)
  \/ \E g \in Sender : SendStep(g)

Spec == Init /\ [][Next]_vars

(***************************************************************************)
(* Go runs the goroutines, and a GUI that stays connected reads what it is *)
(* sent, so that a Write returns.  A mutex that is released again and again*)
(* is handed to its waiter (sync.Mutex in starvation mode): strong fairness*)
(* for Lock.                                                               *)
(***************************************************************************)
FairSpec ==
  /\ Spec
  /\ WF_vars(Closer)
  /\ WF_vars(Run)
  /\ \A r \in Request : WF_vars(RequestStep(r))
  /\ \A g \in Sender : WF_vars(SendStep(g)) /\ SF_vars(Lock(g))

----------------------------------------------------------------------------
(* Properties *)

(***************************************************************************)
(* A response is written to the connection its request came from, also     *)
(* when the GUI has reconnected meanwhile (comment of clientConn).         *)
(***************************************************************************)
ResponseToOriginator == \A r \in Request : answer[r] \in {None, from[r]}

(***************************************************************************)
(* Two goroutines never write to one connection at once, so no message is  *)
(* torn (clientConn.mu).                                                   *)
(***************************************************************************)
OneWriter ==
  \A g, h \in Sender :
    g # h /\ At(g, "write") /\ At(h, "write") => target[g] # target[h]

(***************************************************************************)
(* No goroutine waits for a mutex it holds itself: the event callback does *)
(* not block on the log entry it causes (comment of SetOnLogEvent).        *)
(***************************************************************************)
NoSelfWait == \A g \in Sender : ~Waits(g, g)

(***************************************************************************)
(* A kernel that runs outlives its GUI (the TUN protection of Run): Run    *)
(* ends it without being told to only when a GUI hung up before the start  *)
(* it had asked for was answered.                                          *)
(***************************************************************************)
KernelKept ==
  At("main", "done") /\ ctx = "live" /\ kernel = "up" =>
    \E r \in Request \ Notice : kind[r] = "start" /\ ~At(r, "idle") /\ answer[r] = None

(***************************************************************************)
(* A cancelled context ends Run, whether it waits in Accept, in Decode or  *)
(* is on its way from one to the other (the goroutine of Run and the check *)
(* of ctx.Done in serveConnection), unless a sender waits for itself, on a *)
(* mutex that the accept loop may then wait for too.                       *)
(***************************************************************************)
CancelEndsRun ==
  ctx = "cancelled" ~> At("main", "done") \/ \E g \in Sender : Waits(g, g)

(***************************************************************************)
(* A request that was decoded is answered, unless its connection is gone.  *)
(***************************************************************************)
RequestAnswered ==
  \A r \in Request :
    At(r, "handle") ~> \/ answer[r] # None
                      \/ \E c \in Conn : from[r] = c /\ (c \in gone \/ conn[c] = "closed")
============================================================================
