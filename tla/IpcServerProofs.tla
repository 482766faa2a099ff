-------------------------- MODULE IpcServerProofs --------------------------
(***************************************************************************)
(* Proofs about the IPC server, for any number of connections and requests.*)
(*                                                                         *)
(* The four properties rest on one invariant: what waits in an inbox has   *)
(* not been handled; who holds the mutex of a connection, and why; where a *)
(* response can still go; and which connection a handled request belongs to*)
(* once Run has moved on.                                                  *)
(***************************************************************************)
EXTENDS IpcServer, Naturals, TLAPS

(* What was sent and not decoded belongs to its connection, waits once and *)
(* has no goroutine yet; a request with a goroutine was sent by somebody.  *)
QueueInv ==
  /\ \A c \in Conn : \A i \in 1..Len(inbox[c]) :
       from[inbox[c][i]] = c /\ At(inbox[c][i], "idle")
  /\ \A c \in Conn : \A i, j \in 1..Len(inbox[c]) : inbox[c][i] = inbox[c][j] => i = j
  /\ \A r \in Request : ~At(r, "idle") => from[r] # None /\ r \notin Notice

(* A sender holds mutexes only on its way through send: the one of the     *)
(* connection it writes to, and those of writers that kept an error, which *)
(* it is still logging about.                                              *)
HolderInv ==
  \A g \in Sender :
    /\ At(g, "write") => mu[target[g]] = g
    /\ \A c \in Conn : mu[c] = g =>
         \/ At(g, "unwind")
         \/ At(g, "write") /\ c = target[g]
         \/ pc[g] \in Sending /\ c \in broken

(* A request that answers holds the mutex of the connection it came from or*)
(* is about to take it, however many failures it logs on the way.          *)
ResponseInv ==
  \A r \in Request :
    /\ pc[r] \in {"idle", "handle", "done"} => stage[r] = "event"
    /\ stage[r] = "response" /\ pc[r] \in {"load", "mutex", "write"} =>
         \/ mu[from[r]] = r
         \/ At(r, "mutex") /\ target[r] = from[r]
    /\ pc[r] \in {"idle", "handle"} => answer[r] = None
    /\ answer[r] \in {None, from[r]}

(* Run serves one connection at a time and closes it before the next one:  *)
(* a request it has decoded is of that connection or of a closed one.      *)
ServedInv ==
  /\ pc["main"] \in {"accept", "state", "done"} => cur = None
  /\ \A r \in Request : ~At(r, "idle") => from[r] = cur \/ conn[from[r]] = "closed"

(* The listener is closed only after a cancellation or the end of Run, and *)
(* a kernel that runs then was started by a request not yet answered.      *)
EndInv ==
  /\ closer # "wait" \/ ~listening => ctx = "cancelled" \/ At("main", "done")
  /\ At("main", "done") /\ ctx = "live" /\ kernel = "up" =>
       \E r \in Request \ Notice :
         kind[r] = "start" /\ pc[r] \notin {"idle", "handle"} /\ answer[r] = None

IInv == TypeOK /\ QueueInv /\ HolderInv /\ ResponseInv /\ ServedInv /\ EndInv

----------------------------------------------------------------------------
(* The accept loop, the core and the requests are different senders, none  *)
(* of which is None.                                                       *)
LEMMA SenderFacts ==
  /\ Request \subseteq Sender /\ "main" \in Sender /\ "core" \in Sender
  /\ "main" \notin Request /\ "core" \notin Request
  /\ None \notin Sender /\ None \notin Conn
  /\ {"wait", "listener", "load", "done"} \cap Conn = {}
  BY IpcServerAssumption DEF Sender

(* What is left of an inbox when its first request is taken. *)
LEMMA TailFacts ==
  ASSUME NEW S, NEW s \in Seq(S), s # <<>>
  PROVE  /\ Head(s) \in S /\ Head(s) = s[1] /\ 1 \in 1..Len(s)
         /\ Tail(s) \in Seq(S)
         /\ \A i \in 1..Len(Tail(s)) : i + 1 \in 1..Len(s) /\ Tail(s)[i] = s[i + 1]
  OBVIOUS

(* The invariant holds when Run begins to accept. *)
LEMMA InitIInv == Init => IInv
  BY SenderFacts
  DEF Init, IInv, TypeOK, QueueInv, HolderInv, ResponseInv, ServedInv, EndInv, At, Sending

(***************************************************************************)
(* Every step of the GUIs, of the goroutines and of Run keeps the invariant*)
(***************************************************************************)
LEMMA NextIInv == IInv /\ [Next]_vars => IInv'
<1> SUFFICES ASSUME IInv, [Next]_vars PROVE IInv'
  OBVIOUS
<1> USE SenderFacts
    DEF IInv, TypeOK, QueueInv, HolderInv, ResponseInv, ServedInv, EndInv, At, Goto, Sending,
        connVars, reqVars, sendVars
<1>1. ASSUME NEW c \in Conn, Dial(c) PROVE IInv'
  BY <1>1 DEF Dial
<1>2. ASSUME NEW c \in Conn, HangUp(c) PROVE IInv'
  BY <1>2 DEF HangUp
<1>3. ASSUME NEW c \in Conn, NEW r \in Request, NEW k \in {"start", "stop", "query"},
             Send(c, r, k)
      PROVE  IInv'
  BY <1>3 DEF Send
<1>4. ASSUME Cancel PROVE IInv'
  BY <1>4 DEF Cancel
<1>5. ASSUME CloserWake PROVE IInv'
  BY <1>5 DEF CloserWake
<1>6. ASSUME CloseListener PROVE IInv'
  <2>1. TypeOK'
    <3>1. /\ listening' \in BOOLEAN /\ closer' = "load"
          /\ UNCHANGED <<ctx, connVars, mu, active, cur, kernel, reqVars, sendVars, pc>>
      BY <1>6 DEF CloseListener
    <3> QED
      BY <3>1
  <2>2. QueueInv'
    BY <1>6 DEF CloseListener
  <2>3. HolderInv'
    BY <1>6 DEF CloseListener
  <2>4. ResponseInv'
    BY <1>6 DEF CloseListener
  <2>5. ServedInv'
    BY <1>6 DEF CloseListener
  <2>6. EndInv'
    BY <1>6 DEF CloseListener
  <2> QED
    BY <2>1, <2>2, <2>3, <2>4, <2>5, <2>6
<1>7. ASSUME LoadActive PROVE IInv'
  BY <1>7 DEF LoadActive
<1>8. ASSUME CloseActive PROVE IInv'
  BY <1>8 DEF CloseActive
<1>9. ASSUME NEW g \in Sender, LoadTarget(g) PROVE IInv'
  <2>1. CASE active = None /\ pc' = [pc EXCEPT ![g] = "unwind"] /\ UNCHANGED target
    BY <1>9, <2>1 DEF LoadTarget
  <2>2. CASE /\ active # None
             /\ target' = [target EXCEPT ![g] = active]
             /\ pc' = [pc EXCEPT ![g] = "mutex"]
    BY <1>9, <2>2 DEF LoadTarget
  <2> QED
    BY <1>9, <2>1, <2>2 DEF LoadTarget
<1>10. ASSUME NEW g \in Sender, Lock(g) PROVE IInv'
  BY <1>10 DEF Lock
<1>11. ASSUME NEW g \in Sender, Write(g) PROVE IInv'
  <2>1. CASE /\ target[g] \in broken
             /\ pc' = [pc EXCEPT ![g] = "load"] /\ UNCHANGED <<broken, answer>>
    BY <1>11, <2>1 DEF Write
  <2>2. CASE /\ broken' \in {broken, broken \cup {target[g]}}
             /\ pc' = [pc EXCEPT ![g] = "unwind"] /\ UNCHANGED answer
    BY <1>11, <2>2 DEF Write
  <2>3. CASE /\ IsResponse(g) /\ g \in Request /\ conn[target[g]] # "closed"
             /\ answer' = [answer EXCEPT ![g] = target[g]]
             /\ pc' = [pc EXCEPT ![g] = "unwind"] /\ UNCHANGED broken
    <3>1. target[g] \in Conn /\ from[g] \in Conn
      BY <1>11, <2>3 DEF Write
    <3>2. mu[from[g]] = g
      BY <1>11, <2>3 DEF Write, IsResponse
    <3>3. target[g] = from[g]
      BY <2>3, <3>1, <3>2 DEF IsResponse, Holds
    <3>4. ~At("main", "done")
      BY <1>11, <2>3, <3>1, <3>3 DEF Write
    <3> QED
      BY <1>11, <2>3, <3>1, <3>3, <3>4 DEF Write
  <2> QED
    BY <1>11, <2>1, <2>2, <2>3 DEF Write
<1>12. ASSUME NEW g \in Sender, Unwind(g) PROVE IInv'
  <2>1. CASE /\ g \in Request
             /\ stage' = [stage EXCEPT ![g] = "response"]
             /\ target' = [target EXCEPT ![g] = from[g]]
             /\ pc' = [pc EXCEPT ![g] = "mutex"]
    BY <1>12, <2>1 DEF Unwind
  <2>2. CASE /\ target' = [target EXCEPT ![g] = None]
             /\ stage' = [stage EXCEPT ![g] = "event"]
             /\ pc' = [pc EXCEPT ![g] = Sent(g)]
    <3>1. \/ g = "core" /\ Sent(g) = "idle"
          \/ g = "main" /\ Sent(g) \in {"detach", "check"}
          \/ g \in Request /\ Sent(g) = "done"
      BY DEF Sent, Sender
    <3> QED
      BY <1>12, <2>2, <3>1 DEF Unwind
  <2> QED
    BY <1>12, <2>1, <2>2 DEF Unwind
<1>13. ASSUME NEW r \in Request, ChangeKernel(r) PROVE IInv'
  BY <1>13 DEF ChangeKernel, Asked
<1>14. ASSUME NEW r \in Request, OnlyAnswer(r) PROVE IInv'
  BY <1>14 DEF OnlyAnswer
<1>15. ASSUME CoreEvent PROVE IInv'
  BY <1>15 DEF CoreEvent
<1>16. ASSUME Accept PROVE IInv'
  BY <1>16 DEF Accept
<1>17. ASSUME AcceptError \/ AcceptFails PROVE IInv'
  <2>1. CASE AcceptError
    BY <2>1 DEF AcceptError
  <2>2. CASE AcceptFails /\ ctx = "cancelled"
    BY <2>2 DEF AcceptFails
  <2>3. CASE AcceptFails /\ ctx # "cancelled"
    <3>1. pc' = [pc EXCEPT !["main"] = "accept"] /\ pc["main"] = "accept"
      BY <2>3 DEF AcceptFails
    <3>2. pc' = pc
      BY <3>1
    <3> QED
      BY <2>3, <3>2 DEF AcceptFails
  <2> QED
    BY <1>17, <2>1, <2>2, <2>3
<1>18. ASSUME StoreActive PROVE IInv'
  BY <1>18 DEF StoreActive
<1>19. ASSUME CheckDone PROVE IInv'
  BY <1>19 DEF CheckDone
<1>20. ASSUME DecodeRequest PROVE IInv'
  <2> DEFINE r == Head(inbox[cur])
  <2>0. cur \in Conn /\ r \in Request /\ At(r, "idle") /\ Tail(inbox[cur]) \in Seq(Request)
    BY <1>20, TailFacts DEF DecodeRequest
  <2> HIDE DEF r
  <2>1. TypeOK'
    <3>1. inbox' \in [Conn -> Seq(Request)]
      BY <1>20, <2>0 DEF DecodeRequest
    <3>2. UNCHANGED <<ctx, listening, connVars, mu, active, cur, closer, from, answer, kind,
                      sendVars>>
      BY <1>20 DEF DecodeRequest
    <3>3. pc' \in [Sender -> Sending \cup {"idle", "handle", "done", "accept", "store", "check",
                         "decode", "detach", "hangup", "state"}]
      BY <1>20, <2>0 DEF DecodeRequest, r
    <3>4. pc'["main"] \in {"check", "load"} /\ At("main", "decode")
      BY <1>20, <2>0 DEF DecodeRequest, r
    <3>5. \A g \in Sender : pc'[g] \in {"mutex", "write"} => pc[g] \in {"mutex", "write"}
      BY <1>20, <2>0 DEF DecodeRequest, r
    <3>6. kernel' \in {"down", "up"}
      BY <1>20 DEF DecodeRequest
    <3> QED
      BY <3>1, <3>2, <3>3, <3>4, <3>5, <3>6
  <2>2. QueueInv'
    BY <1>20, TailFacts DEF DecodeRequest
  <2>3. HolderInv'
    BY <1>20, <2>0 DEF DecodeRequest, r
  <2>4. ResponseInv'
    BY <1>20 DEF DecodeRequest
  <2>5. ServedInv'
    BY <1>20 DEF DecodeRequest
  <2>6. EndInv'
    BY <1>20 DEF DecodeRequest
  <2> QED
    BY <2>1, <2>2, <2>3, <2>4, <2>5, <2>6
<1>21. ASSUME DecodeNotice PROVE IInv'
  <2> DEFINE r == Head(inbox[cur])
  <2>0. cur \in Conn /\ r \in Request /\ At(r, "idle") /\ Tail(inbox[cur]) \in Seq(Request)
    BY <1>21, TailFacts DEF DecodeNotice
  <2> HIDE DEF r
  <2>1. TypeOK'
    <3>1. inbox' \in [Conn -> Seq(Request)]
      BY <1>21, <2>0 DEF DecodeNotice
    <3>2. UNCHANGED <<ctx, listening, connVars, mu, active, cur, closer, from, answer, kind,
                      sendVars>>
      BY <1>21 DEF DecodeNotice
    <3>0. PICK l \in {"check", "load"} : pc' = [pc EXCEPT !["main"] = l]
      BY <1>21 DEF DecodeNotice
    <3>3. pc' \in [Sender -> Sending \cup {"idle", "handle", "done", "accept", "store", "check",
                         "decode", "detach", "hangup", "state"}]
      BY <3>0
    <3>4. pc'["main"] \in {"check", "load"} /\ At("main", "decode")
      BY <1>21, <3>0 DEF DecodeNotice
    <3>5. \A g \in Sender : pc'[g] \in {"mutex", "write"} => pc[g] \in {"mutex", "write"}
      BY <3>0
    <3>6. kernel' \in {"down", "up"}
      BY <1>21 DEF DecodeNotice
    <3> QED
      BY <3>1, <3>2, <3>3, <3>4, <3>5, <3>6
  <2>2. QueueInv'
    BY <1>21 DEF DecodeNotice
  <2>3. HolderInv'
    BY <1>21 DEF DecodeNotice
  <2>4. ResponseInv'
    BY <1>21 DEF DecodeNotice
  <2>5. ServedInv'
    BY <1>21 DEF DecodeNotice
  <2>6. EndInv'
    BY <1>21 DEF DecodeNotice
  <2> QED
    BY <2>1, <2>2, <2>3, <2>4, <2>5, <2>6
<1>22. ASSUME DecodeEnd PROVE IInv'
  BY <1>22 DEF DecodeEnd
<1>23. ASSUME DecodeError PROVE IInv'
  BY <1>23 DEF DecodeError
<1>24. ASSUME Detach PROVE IInv'
  BY <1>24 DEF Detach
<1>25. ASSUME CloseConn PROVE IInv'
  BY <1>25 DEF CloseConn
<1>26. ASSUME CheckState PROVE IInv'
  BY <1>26 DEF CheckState
<1>27. CASE UNCHANGED vars
  BY <1>27 DEF vars
<1> HIDE DEF IInv, TypeOK, QueueInv, HolderInv, ResponseInv, ServedInv, EndInv, At, Goto,
             Sending, connVars, reqVars, sendVars
<1>28. CASE Gui
  BY <1>28, <1>1, <1>2, <1>3 DEF Gui
<1>29. CASE Closer
  BY <1>29, <1>5, <1>6, <1>7, <1>8 DEF Closer
<1>30. CASE Run
  BY <1>30, <1>16, <1>17, <1>18, <1>19, <1>20, <1>21, <1>22, <1>24, <1>25, <1>26
  DEF Run
<1>31. ASSUME NEW r \in Request, RequestStep(r) PROVE IInv'
  BY <1>31, <1>13, <1>14 DEF RequestStep
<1>32. ASSUME NEW g \in Sender, SendStep(g) PROVE IInv'
  BY <1>32, <1>9, <1>10, <1>11, <1>12 DEF SendStep
<1> QED
  BY <1>4, <1>15, <1>17, <1>23, <1>27, <1>28, <1>29, <1>30, <1>31, <1>32 DEF Next, Fault

(* It holds in every reachable state. *)
LEMMA Invariance == Spec => []IInv
  BY InitIInv, NextIInv, PTL DEF Spec

----------------------------------------------------------------------------
(***************************************************************************)
(* The server's state is what its declarations say, and a sender that has  *)
(* chosen a connection has one to write to (sendNotification's nil check). *)
(***************************************************************************)
THEOREM ServerTypeCorrect == Spec => []TypeOK
  BY Invariance, PTL DEF IInv

(***************************************************************************)
(* A response reaches the connection its request came from or none, also   *)
(* when the GUI has reconnected meanwhile and when sending it logs failures*)
(* that are themselves notifications (clientConn.send, handleRequest).     *)
(***************************************************************************)
THEOREM ResponseReachesOriginator == Spec => []ResponseToOriginator
<1>1. IInv => ResponseToOriginator
  BY DEF IInv, ResponseInv, ResponseToOriginator
<1> QED
  BY <1>1, Invariance, PTL

(***************************************************************************)
(* No two goroutines write to one connection at once: whoever writes holds *)
(* its mutex (clientConn.mu).                                              *)
(***************************************************************************)
THEOREM WritersExclude == Spec => []OneWriter
<1>1. IInv => OneWriter
  BY DEF IInv, HolderInv, OneWriter
<1> QED
  BY <1>1, Invariance, PTL

(***************************************************************************)
(* Run does not end by itself over a running kernel, except one that was   *)
(* started by a request whose GUI left before the answer (Server.Run).     *)
(***************************************************************************)
THEOREM KernelIsKept == Spec => []KernelKept
<1>1. IInv => KernelKept
  BY DEF IInv, EndInv, KernelKept, At
<1> QED
  BY <1>1, Invariance, PTL

----------------------------------------------------------------------------
(* Who waits for a mutex it holds waits for a writer that kept an error. *)
SelfWaitOnBroken ==
  \A g \in Sender : At(g, "mutex") /\ mu[target[g]] = g => target[g] \in broken

(***************************************************************************)
(* The only way for a sender to wait for a mutex it holds itself is the    *)
(* warning it logs about a writer that kept an error (clientConn.send).    *)
(***************************************************************************)
THEOREM SelfWaitIsOnBroken == Spec => []SelfWaitOnBroken
<1>1. IInv => SelfWaitOnBroken
  <2> SUFFICES ASSUME IInv, NEW g \in Sender, At(g, "mutex"), mu[target[g]] = g
               PROVE  target[g] \in broken
    BY DEF SelfWaitOnBroken
  <2>1. target[g] \in Conn
    BY DEF IInv, TypeOK, At
  <2> QED
    BY <2>1 DEF IInv, HolderInv, At
<1> QED
  BY <1>1, Invariance, PTL

----------------------------------------------------------------------------
(***************************************************************************)
(* The order in which Run accepted the connections, as a history variable: *)
(* older[c] are those accepted before c.                                   *)
(***************************************************************************)
VARIABLE older

(* The connections accepted so far. *)
Accepted == {c \in Conn : conn[c] \in {"open", "closed"}}

OrderedInit == Init /\ older = [c \in Conn |-> {}]
OrderedNext ==
  /\ [Next]_vars
  /\ older' = IF At("main", "accept") /\ cur' # None
              THEN [older EXCEPT ![cur'] = Accepted]
              ELSE older
OrderedSpec == OrderedInit /\ [][OrderedNext]_<<vars, older>>

(* The connections accepted before a connection, and those before them,    *)
(* make a strict order.                                                    *)
OlderIsOrder ==
  \A c, d \in Conn : d \in older[c] => c \notin older[d] /\ older[d] \subseteq older[c]

(* A sender that waits for another one, which waits itself, waits for an   *)
(* older connection than that one, or they wait for the same connection.   *)
WaitsGrow ==
  \A g, h \in Sender :
    g # h /\ Waits(g, h) /\ At(h, "mutex") =>
      target[h] = target[g] \/ target[g] \in older[target[h]]

(* Only accepted connections are used; the one served is the latest.       *)
LatestInv ==
  /\ older \in [Conn -> SUBSET Conn]
  /\ active # None => active = cur
  /\ pc["main"] \in {"accept", "store", "hangup", "state", "done"} => active = None
  /\ cur # None => cur \in Accepted /\ Accepted \subseteq older[cur] \cup {cur}
  /\ closer \in Conn => closer \in Accepted
  /\ \A g \in Sender : target[g] # None => target[g] \in Accepted
  /\ \A c \in Conn : mu[c] # None => c \in Accepted
  /\ \A c \in Conn : older[c] \subseteq Accepted /\ c \notin older[c]
  /\ \A c \in Conn : c \notin Accepted => older[c] = {}

(* What a sender holds on its way to another mutex is of older connections.*)
LockOrder ==
  \A g \in Sender, c \in Conn :
    mu[c] = g /\ pc[g] \in {"mutex", "write"} => c = target[g] \/ c \in older[target[g]]

OrderInv == LatestInv /\ OlderIsOrder /\ LockOrder

(***************************************************************************)
(* Every step keeps the order: a sender takes a new connection only from   *)
(* `active', which is the latest one, or, as the response to a request it  *)
(* decoded, when it holds nothing (LoadTarget, Unwind).                    *)
(***************************************************************************)
LEMMA OrderStep == IInv /\ IInv' /\ OrderInv /\ OrderedNext => OrderInv'
<1> SUFFICES ASSUME IInv, IInv', OrderInv, OrderedNext PROVE LatestInv' /\ OlderIsOrder' /\ LockOrder'
  BY DEF OrderInv
<1> USE SenderFacts
    DEF OrderInv, OrderedNext, LatestInv, OlderIsOrder, LockOrder, Accepted, IInv, TypeOK,
        HolderInv, ServedInv, At, Goto, Sending, connVars, reqVars, sendVars
<1>1. ASSUME NEW c \in Conn, Dial(c)
      PROVE  LatestInv' /\ OlderIsOrder' /\ LockOrder'
  BY <1>1 DEF Dial
<1>2. ASSUME NEW c \in Conn, HangUp(c)
      PROVE  LatestInv' /\ OlderIsOrder' /\ LockOrder'
  BY <1>2 DEF HangUp
<1>3. ASSUME NEW c \in Conn, NEW r \in Request, NEW k \in {"start", "stop", "query"}, Send(c, r, k)
      PROVE  LatestInv' /\ OlderIsOrder' /\ LockOrder'
  BY <1>3 DEF Send
<1>4. ASSUME Cancel
      PROVE  LatestInv' /\ OlderIsOrder' /\ LockOrder'
  BY <1>4 DEF Cancel
<1>5. ASSUME CloserWake
      PROVE  LatestInv' /\ OlderIsOrder' /\ LockOrder'
  BY <1>5 DEF CloserWake
<1>6. ASSUME CloseListener
      PROVE  LatestInv' /\ OlderIsOrder' /\ LockOrder'
  BY <1>6 DEF CloseListener
<1>7. ASSUME LoadActive
      PROVE  LatestInv' /\ OlderIsOrder' /\ LockOrder'
  BY <1>7 DEF LoadActive
<1>8. ASSUME CloseActive
      PROVE  LatestInv' /\ OlderIsOrder' /\ LockOrder'
  BY <1>8 DEF CloseActive
<1>9. ASSUME NEW g \in Sender, LoadTarget(g)
      PROVE  LatestInv' /\ OlderIsOrder' /\ LockOrder'
  <2>1. CASE pc' = [pc EXCEPT ![g] = "unwind"] /\ UNCHANGED target
    BY <1>9, <2>1 DEF LoadTarget
  <2>2. CASE /\ active # None
             /\ target' = [target EXCEPT ![g] = active]
             /\ pc' = [pc EXCEPT ![g] = "mutex"]
    <3>1. active \in Accepted /\ (\A c \in Accepted : c = active \/ c \in older[active])
      BY <2>2
    <3> QED
      BY <1>9, <2>2, <3>1 DEF LoadTarget
  <2> QED
    BY <1>9, <2>1, <2>2 DEF LoadTarget
<1>10. ASSUME NEW g \in Sender, Lock(g)
      PROVE  LatestInv' /\ OlderIsOrder' /\ LockOrder'
  BY <1>10 DEF Lock
<1>11. ASSUME NEW g \in Sender, Write(g)
      PROVE  LatestInv' /\ OlderIsOrder' /\ LockOrder'
  BY <1>11 DEF Write
<1>12. ASSUME NEW g \in Sender, Unwind(g)
      PROVE  LatestInv' /\ OlderIsOrder' /\ LockOrder'
  <2>1. \A c \in Conn : mu'[c] # g
    BY <1>12 DEF Unwind
  <2>2. ASSUME g \in Request, pc[g] = "unwind" PROVE from[g] \in Accepted
    BY <2>2 DEF QueueInv
  <2>3. ASSUME NEW l, NEW t \in Conn \cup {None}, t # None => t \in Accepted,
               pc' = [pc EXCEPT ![g] = l], target' = [target EXCEPT ![g] = t],
               g = "main" => l \in {"check", "detach"},
               mu' = [c \in Conn |-> IF mu[c] = g THEN None ELSE mu[c]],
               UNCHANGED <<conn, active, cur, closer, older>>
        PROVE  LatestInv' /\ OlderIsOrder' /\ LockOrder'
    BY <2>1, <2>3
  <2>4. UNCHANGED <<conn, active, cur, closer, older>>
    BY <1>12 DEF Unwind
  <2> QED
    BY <1>12, <2>2, <2>3, <2>4 DEF Unwind, Sent, Sender
<1>13. ASSUME NEW r \in Request, ChangeKernel(r)
      PROVE  LatestInv' /\ OlderIsOrder' /\ LockOrder'
  BY <1>13 DEF ChangeKernel
<1>14. ASSUME NEW r \in Request, OnlyAnswer(r)
      PROVE  LatestInv' /\ OlderIsOrder' /\ LockOrder'
  <2>1. from[r] \in Accepted /\ (\A c \in Conn : mu[c] # r)
    <3>1. pc[r] = "handle" /\ r \in Sender
      BY <1>14 DEF OnlyAnswer
    <3>2. from[r] \in Conn /\ (from[r] = cur \/ conn[from[r]] = "closed")
      BY <3>1 DEF QueueInv
    <3>3. ASSUME NEW c \in Conn, mu[c] = r PROVE FALSE
      BY <3>1, <3>3
    <3> QED
      BY <3>2, <3>3
  <2> QED
    BY <1>14, <2>1 DEF OnlyAnswer
<1>15. ASSUME CoreEvent
      PROVE  LatestInv' /\ OlderIsOrder' /\ LockOrder'
  BY <1>15 DEF CoreEvent
<1>16. ASSUME Accept
      PROVE  LatestInv' /\ OlderIsOrder' /\ LockOrder'
  BY <1>16 DEF Accept
<1>17. ASSUME AcceptError \/ AcceptFails
      PROVE  LatestInv' /\ OlderIsOrder' /\ LockOrder'
  BY <1>17 DEF AcceptError, AcceptFails
<1>18. ASSUME StoreActive
      PROVE  LatestInv' /\ OlderIsOrder' /\ LockOrder'
  BY <1>18 DEF StoreActive
<1>19. ASSUME CheckDone
      PROVE  LatestInv' /\ OlderIsOrder' /\ LockOrder'
  BY <1>19 DEF CheckDone
<1>20. ASSUME DecodeRequest
      PROVE  LatestInv' /\ OlderIsOrder' /\ LockOrder'
  BY <1>20 DEF DecodeRequest
<1>21. ASSUME DecodeNotice
      PROVE  LatestInv' /\ OlderIsOrder' /\ LockOrder'
  BY <1>21 DEF DecodeNotice
<1>22. ASSUME DecodeEnd
      PROVE  LatestInv' /\ OlderIsOrder' /\ LockOrder'
  BY <1>22 DEF DecodeEnd
<1>23. ASSUME DecodeError
      PROVE  LatestInv' /\ OlderIsOrder' /\ LockOrder'
  BY <1>23 DEF DecodeError
<1>24. ASSUME Detach
      PROVE  LatestInv' /\ OlderIsOrder' /\ LockOrder'
  BY <1>24 DEF Detach
<1>25. ASSUME CloseConn
      PROVE  LatestInv' /\ OlderIsOrder' /\ LockOrder'
  BY <1>25 DEF CloseConn
<1>26. ASSUME CheckState
      PROVE  LatestInv' /\ OlderIsOrder' /\ LockOrder'
  BY <1>26 DEF CheckState
<1>27. CASE UNCHANGED vars
  BY <1>27 DEF vars
<1> HIDE DEF OrderInv, LatestInv, OlderIsOrder, LockOrder, Accepted, IInv, TypeOK,
             HolderInv, ServedInv, At, Goto, Sending, connVars, reqVars, sendVars
<1>28. CASE Gui
  BY <1>28, <1>1, <1>2, <1>3 DEF Gui
<1>29. CASE Closer
  BY <1>29, <1>5, <1>6, <1>7, <1>8 DEF Closer
<1>30. CASE Run
  BY <1>30, <1>16, <1>17, <1>18, <1>19, <1>20, <1>21, <1>22, <1>24, <1>25, <1>26
  DEF Run
<1>31. ASSUME NEW r \in Request, RequestStep(r)
      PROVE  LatestInv' /\ OlderIsOrder' /\ LockOrder'
  BY <1>31, <1>13, <1>14 DEF RequestStep
<1>32. ASSUME NEW g \in Sender, SendStep(g)
      PROVE  LatestInv' /\ OlderIsOrder' /\ LockOrder'
  BY <1>32, <1>9, <1>10, <1>11, <1>12 DEF SendStep
<1> QED
  BY <1>4, <1>15, <1>17, <1>23, <1>27, <1>28, <1>29, <1>30, <1>31, <1>32
  DEF Next, Fault, OrderedNext

(***************************************************************************)
(* Senders never wait for each other in a circle, except one that waits    *)
(* for itself: along a chain of waiting senders the connections they wait  *)
(* for get newer in the order Run accepted them, though clientConn.send    *)
(* takes a second mutex when it logs a failed write with the first one     *)
(* locked.                                                                 *)
(***************************************************************************)
THEOREM NoCircularWait == OrderedSpec => [](OlderIsOrder /\ WaitsGrow)
<1>1. OrderedInit => IInv /\ OrderInv
  BY InitIInv, SenderFacts
  DEF OrderedInit, Init, OrderInv, LatestInv, OlderIsOrder, LockOrder, Accepted
<1>2. IInv /\ OrderInv /\ [OrderedNext]_<<vars, older>> => IInv' /\ OrderInv'
  <2> SUFFICES ASSUME IInv, OrderInv, [OrderedNext]_<<vars, older>> PROVE IInv' /\ OrderInv'
    OBVIOUS
  <2>1. CASE OrderedNext
    BY <2>1, NextIInv, OrderStep DEF OrderedNext
  <2>2. CASE UNCHANGED <<vars, older>>
    <3>1. IInv'
      BY <2>2, NextIInv
    <3>2. OrderInv'
      BY <2>2 DEF OrderInv, LatestInv, OlderIsOrder, LockOrder, Accepted, vars, connVars, sendVars
    <3> QED
      BY <3>1, <3>2
  <2> QED
    BY <2>1, <2>2
<1>3. IInv /\ OrderInv => OlderIsOrder /\ WaitsGrow
  <2> SUFFICES ASSUME IInv, OrderInv, NEW g \in Sender, NEW h \in Sender,
                      Waits(g, h), At(h, "mutex")
               PROVE  target[h] = target[g] \/ target[g] \in older[target[h]]
    BY DEF WaitsGrow, OrderInv
  <2>1. target[g] \in Conn
    BY DEF IInv, TypeOK, Waits, At
  <2> QED
    BY <2>1 DEF OrderInv, LockOrder, Waits, At
<1> QED
  BY <1>1, <1>2, <1>3, PTL DEF OrderedSpec
=============================================================================
