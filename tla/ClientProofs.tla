---------------------------- MODULE ClientProofs ----------------------------
(***************************************************************************)
(* The safety properties of Client, for any numbers of namespaces, engines, *)
(* connect() calls and reconnection attempts; and, at the end, what the     *)
(* numbers of Numeric are bounded by: the delay before an attempt is never  *)
(* negative and never exceeds the maximum, and the numbers of packet        *)
(* headers never overflow, for all values of their arguments.               *)
(***************************************************************************)
EXTENDS Client, Numeric, TLAPS

\* The places of the threads.
PcOK == /\ pc \in [Threads -> UserPcs \cup IoPcs \cup WorkerPcs] /\ pc[User] \in UserPcs
        /\ \A t \in IoThreads : pc[t] \in IoPcs
        /\ \A t \in Workers : pc[t] \in WorkerPcs

\* Who has the handle of a running worker, and from where on a shutdown finds none.
ShutPcs == {"close_sockets", "close_engine", "stop", "join", "sync_join", "synced"}
WorkerInv ==
    /\ joins # Nobody => pc[User] = "join"
    /\ pc[User] \in ShutPcs => intentional
    /\ pc[User] \in {"join", "sync_join", "synced"} => reconnect = Nobody
    /\ rlock # Nobody => reconnect # Nobody
    /\ \A e \in Engines : pc[Io(e)] = "reap" => rlock = Io(e)
    /\ OneWorker

\* An engine its creator still has in hand is nobody else's, and reports nothing yet.
EngineInv ==
    /\ current <= made /\ \A t \in Threads : mine[t] <= made
    /\ \A t, u \in Threads : t # u /\ mine[t] # None => mine[t] # mine[u]
    /\ \A e \in Engines : e > made => up[e] = "unused" /\ pc[Io(e)] = "idle"
    /\ \A t \in Threads : mine[t] # None =>
          /\ up[mine[t]] = "new" \/ (up[mine[t]] = "closed" /\ closing[mine[t]])
          /\ pc[Io(mine[t])] = "idle"

\* A connection that is over.
Over == {"lost", "ended", "closed"}

\* Where the thread of an engine decides what becomes of the client: from the test that
\* the engine is the client's own, to the replacement or to the start of a worker.
Deciding(e) == pc[Io(e)] \in
    {"fallback", "ensure", "install", "close_mark", "on_disconnect", "on_close", "close_flag",
     "close_sockets", "close_engine", "close_decide", "schedule", "count", "schedule_lock",
     "reap"}

\* A worker that has not replaced the engine yet.
Pending(n) == pc[Worker(n)] \in {"wait", "check", "ensure", "install"}

\* A shutdown is complete, or a connect() that is not the first has yet to replace the engine.
Quiet == \/ pc[User] \in {"synced", "reset", "mode", "ensure", "install"}
         \/ call = "connect" /\ pc[User] \in {"stop", "join"}

\* One thread at a time decides, as long as a connection is reported lost once and
\* connect() follows sync_close().
OrderlyInv ==
    /\ connects = 0 => pc[User] = "idle" /\ current = None
    /\ connects = 0 \/ Quiet => \A n \in 1 .. MaxWorkers : ~Running(n)
    /\ pc[User] \in {"stop", "join", "sync_join"} => current = None \/ closing[current]
    /\ Quiet => current = None \/ (closing[current] /\ pc[Io(current)] = "idle")
    /\ \A e \in Engines : Deciding(e) => current = e /\ up[e] \in Over
    /\ \A e \in Engines : pc[Io(e)] = "close_check" => up[e] \in Over
    /\ \A e \in Engines :
          kind[e] = "polling" /\ pc[Io(e)] \in {"error_check", "error_listen", "open"}
          => up[e] \in Over
    /\ \A e \in Engines : pc[Io(e)] = "error_check" => up[e] \in Over \cup {"open"}
    /\ \A n \in 1 .. MaxWorkers : Pending(n) =>
          current # None /\ pc[Io(current)] = "idle" /\ up[current] \in Over
    /\ attempts <= Attempts
    /\ \A e \in Engines : pc[Io(e)] = "count" => attempts < Attempts

\* No engine has heard a CLOSE packet over a transport that goes on.
NoHalf == \A e \in Engines : up[e] # "half"

IInv == /\ TypeOK /\ SelectedOrRejected /\ WorkerInv /\ EngineInv /\ NamespacesAnnounced
        /\ Quirks = {} => OrderlyInv /\ NoHalf
-----------------------------------------------------------------------------
(* The threads are distinct, and there is no other.                                *)
LEMMA ThreadNames ==
    /\ User \in Threads /\ User \notin IoThreads /\ User \notin Workers
    /\ \A e \in Engines : Io(e) \in Threads /\ Io(e) \in IoThreads /\ Io(e) \notin Workers
                          /\ Io(e) # User /\ Io(e) # Nobody
    /\ \A n \in 1 .. MaxWorkers : Worker(n) \in Threads /\ Worker(n) \in Workers
                          /\ Worker(n) \notin IoThreads /\ Worker(n) # User /\ Worker(n) # Nobody
    /\ \A t \in IoThreads : \E e \in Engines : t = Io(e)
    /\ \A t \in Workers : \E n \in 1 .. MaxWorkers : t = Worker(n)
    /\ \A t \in Threads : t = User \/ t \in IoThreads \/ t \in Workers
    /\ \A e, f : Io(e) = Io(f) => e = f
    /\ \A n, m : Worker(n) = Worker(m) => n = m
    /\ \A e, n : Io(e) # Worker(n)
BY DEF Threads, IoThreads, Workers, User, Io, Worker, Nobody

\* The places of all threads but those in T are what they were.
Stay(T) == /\ User \notin T => pc'[User] = pc[User]
           /\ \A e \in Engines : Io(e) \notin T => pc'[Io(e)] = pc[Io(e)]
           /\ \A n \in 1 .. MaxWorkers : Worker(n) \notin T => pc'[Worker(n)] = pc[Worker(n)]

(* A jump of one thread, within its program.                                      *)
LEMMA Jump ==
    ASSUME PcOK, NEW t \in Threads, NEW l, Goto(t, l),
           t = User => l \in UserPcs, t \in IoThreads => l \in IoPcs,
           t \in Workers => l \in WorkerPcs
    PROVE  PcOK' /\ pc'[t] = l /\ \A u \in Threads : u # t => pc'[u] = pc[u]
BY ThreadNames DEF PcOK, Goto

(* A jump of the application's thread ...                                          *)
LEMMA UserMoves ==
    ASSUME PcOK, NEW l \in UserPcs, Goto(User, l)
    PROVE  PcOK' /\ pc'[User] = l /\ Stay({User})
BY Jump, ThreadNames DEF Stay

(* ... of the thread of an engine ...                                              *)
LEMMA IoMoves ==
    ASSUME PcOK, NEW e \in Engines, NEW l \in IoPcs, Goto(Io(e), l)
    PROVE  PcOK' /\ pc'[Io(e)] = l /\ Stay({Io(e)})
BY Jump, ThreadNames DEF Stay

(* ... of a reconnect worker ...                                                   *)
LEMMA WorkerMoves ==
    ASSUME PcOK, NEW n \in 1 .. MaxWorkers, NEW l \in WorkerPcs, Goto(Worker(n), l)
    PROVE  PcOK' /\ pc'[Worker(n)] = l /\ Stay({Worker(n)})
BY Jump, ThreadNames DEF Stay

(* ... and the start of a worker, by the thread of an engine that is done.          *)
LEMMA SpawnMoves ==
    ASSUME PcOK, NEW e \in Engines, Spawn(e), spawned \in Nat
    PROVE  /\ PcOK' /\ pc'[Io(e)] = "idle"
           /\ \E n \in 1 .. MaxWorkers : /\ n = spawned + 1 /\ reconnect' = Worker(n)
                                         /\ pc'[Worker(n)] = "wait"
                                         /\ Stay({Io(e), Worker(n)})
<1> DEFINE n == spawned + 1
<1>1. /\ n \in 1 .. MaxWorkers /\ reconnect' = Worker(n)
      /\ pc' = [pc EXCEPT ![Worker(n)] = "wait", ![Io(e)] = "idle"]
  BY ClientAssumption DEF Spawn, MaxWorkers
<1> HIDE DEF n
<1>2. /\ pc'[Worker(n)] = "wait" /\ pc'[Io(e)] = "idle"
      /\ \A u \in Threads : u # Worker(n) /\ u # Io(e) => pc'[u] = pc[u]
      /\ pc' \in [Threads -> UserPcs \cup IoPcs \cup WorkerPcs]
  <2>1. pc \in [Threads -> UserPcs \cup IoPcs \cup WorkerPcs] /\ Worker(n) # Io(e)
        /\ Worker(n) \in Threads /\ Io(e) \in Threads
    BY <1>1, ThreadNames DEF PcOK
  <2> QED
    BY <1>1, <2>1 DEF WorkerPcs, IoPcs
<1>3. PcOK'
  BY <1>1, <1>2, ThreadNames DEF PcOK, WorkerPcs, IoPcs
<1> QED
  BY <1>1, <1>2, <1>3, ThreadNames DEF Stay, n
-----------------------------------------------------------------------------
(* Steps that leave the threads and the handle of the worker alone.                    *)
LEMMA WorkerKept ==
    ASSUME WorkerInv, UNCHANGED <<joins, reconnect, rlock>>, intentional => intentional',
           Stay({})
    PROVE  WorkerInv'
BY DEF WorkerInv, OneWorker, Running, Stay

(* A jump that leaves the handle of the worker and its mutex alone: the application's  *)
(* thread shuts down in order, and only a worker that runs moves.                       *)
LEMMA WorkerJump ==
    ASSUME PcOK, WorkerInv, NEW t \in Threads, NEW l, Goto(t, l),
           UNCHANGED <<joins, reconnect, rlock>>,
           t = User => /\ l \in UserPcs \ {"join"} /\ pc[t] # "join"
                       /\ l \in ShutPcs => intentional'
                       /\ l \in {"sync_join", "synced"} => reconnect = Nobody,
           t # User => (intentional => intentional'),
           t \in IoThreads => l \in IoPcs \ {"reap"} /\ pc[t] # "reap",
           t \in Workers => l \in WorkerPcs /\ pc[t] \notin {"unborn", "done"}
    PROVE  WorkerInv'
<1>1. pc'[t] = l /\ \A u \in Threads : u # t => pc'[u] = pc[u]
  BY Jump
<1>2. CASE t = User
  <2>1. pc'[User] = l /\ Stay({User})
    BY <1>1, <1>2, ThreadNames DEF Stay
  <2> QED
    BY <1>2, <2>1, ThreadNames DEF WorkerInv, OneWorker, Running, Stay
<1>3. CASE t # User
  <2>1. /\ pc'[User] = pc[User]
        /\ \A e \in Engines : pc'[Io(e)] = "reap" => pc[Io(e)] = "reap"
        /\ \A n \in 1 .. MaxWorkers : Running(n)' => Running(n)
    BY <1>1, <1>3, ThreadNames DEF Running
  <2> QED
    BY <1>3, <2>1 DEF WorkerInv, OneWorker
<1> QED
  BY <1>2, <1>3

(* A new worker starts when no other runs, and its handle is kept.                      *)
LEMMA WorkerSpawn ==
    ASSUME PcOK, WorkerInv, spawned \in Nat, NEW e \in Engines, Spawn(e), rlock' = Nobody,
           UNCHANGED <<joins, intentional>>,
           reconnect = Nobody \/ pc[reconnect] = "done",
           pc[User] \notin {"join", "sync_join", "synced"},
           \A f \in Engines : pc[Io(f)] = "reap" => f = e
    PROVE  WorkerInv'
<1>1. PICK n \in 1 .. MaxWorkers :
         /\ reconnect' = Worker(n) /\ pc'[Worker(n)] = "wait" /\ pc'[Io(e)] = "idle"
         /\ Stay({Io(e), Worker(n)})
  BY SpawnMoves
<1>2. /\ pc'[User] = pc[User] /\ \A f \in Engines : pc'[Io(f)] # "reap"
      /\ \A m \in 1 .. MaxWorkers : Running(m)' => m = n \/ Running(m)
  BY <1>1, ThreadNames DEF Stay, Running
<1>3. OneWorker'
  BY <1>1, <1>2, ThreadNames DEF WorkerInv, OneWorker, Running
<1> QED
  BY <1>1, <1>2, <1>3, ThreadNames DEF WorkerInv

(* Every step keeps the handle of the worker that runs.                                  *)
LEMMA WorkerInvStep ==
    ASSUME TypeOK, WorkerInv, [Next]_vars
    PROVE  WorkerInv'
<1>0. PcOK /\ spawned \in Nat
  BY ClientAssumption DEF TypeOK, PcOK, MaxWorkers
<1> USE <1>0, ThreadNames DEF sharedVars
<1>1. ASSUME NEW t \in Threads, EnsureEngineio(t) PROVE WorkerInv'
  BY <1>1, WorkerJump DEF EnsureEngineio, UserPcs, IoPcs, WorkerPcs, ShutPcs
<1>2. ASSUME NEW t \in Threads, InstallEngineio(t) PROVE WorkerInv'
  <2>1. \E l \in {"idle", "done", "error_listen", "reconnecting", "open"} :
           /\ Goto(t, l)
           /\ l = "idle" => t = User
           /\ l \in {"done", "reconnecting"} => t \in Workers
           /\ l = "error_listen" => t \in IoThreads
    BY <1>2 DEF InstallEngineio, Done
  <2> QED
    BY <1>2, <2>1, WorkerJump DEF InstallEngineio, UserPcs, IoPcs, WorkerPcs, ShutPcs
<1>3. ASSUME NEW t \in Threads, OpenEngineio(t) PROVE WorkerInv'
  <2>1. \E l \in {"idle", "done", "error_listen"} :
           /\ Goto(t, l)
           /\ l = "idle" => t = User
           /\ l = "done" => t \in Workers
           /\ l = "error_listen" => t \in IoThreads
    BY <1>3 DEF OpenEngineio, Done
  <2> QED
    BY <1>3, <2>1, WorkerJump DEF OpenEngineio, UserPcs, IoPcs, WorkerPcs, ShutPcs
<1>4. ASSUME NEW t \in {User} \cup IoThreads, CloseFlag(t) \/ CloseSockets(t) \/ CloseEngine(t)
      PROVE  WorkerInv'
  <2>0. t \in Threads /\ t \notin Workers
    BY DEF Threads
  <2>1. /\ pc[t] \in {"close_flag", "close_sockets", "close_engine"}
        /\ UNCHANGED <<joins, reconnect, rlock>>
    BY <1>4, Zenon DEF CloseFlag, CloseSockets, CloseEngine, callVars
  <2>a. intentional => intentional'
    BY <1>4, Zenon DEF CloseFlag, CloseSockets, CloseEngine
  <2>2. \E l \in {"close_sockets", "close_engine", "close_decide", "stop", "idle"} :
           /\ Goto(t, l)
           /\ l = "close_sockets" => intentional'
           /\ l \in {"close_engine", "close_decide", "stop", "idle"} => pc[t] # "close_flag"
           /\ l = "close_decide" => t # User
           /\ l = "stop" => t = User
    BY <1>4, <2>1, Zenon DEF CloseFlag, CloseSockets, CloseEngine
  <2>3. t = User => (pc[t] # "close_flag" => intentional)
    BY <2>1 DEF WorkerInv, ShutPcs
  <2> QED
    BY <2>0, <2>1, <2>2, <2>3, <2>a, WorkerJump DEF UserPcs, IoPcs
<1>5. CASE Connect \/ ConnectReset \/ ConnectMode \/ Close("close") \/ Close("sync") \/ SyncJoin
  BY <1>5, WorkerJump
     DEF Connect, ConnectReset, ConnectMode, Close, SyncJoin, callVars, UserPcs, ShutPcs, WorkerInv
<1>6. CASE StopReconnectThread
  <2>1. pc'[User] = "join" /\ Stay({User})
    BY <1>6, UserMoves DEF StopReconnectThread, UserPcs
  <2>2. /\ pc[User] = "stop" /\ intentional' = intentional /\ rlock' = rlock /\ rlock = Nobody
        /\ joins' = reconnect /\ reconnect' = Nobody
    BY <1>6 DEF StopReconnectThread
  <2> QED
    BY <2>1, <2>2 DEF WorkerInv, OneWorker, Running, Stay, ShutPcs
<1>7. CASE JoinReconnectThread
  <2>1. /\ pc'[User] \in {"reset", "sync_join"} /\ Stay({User})
    BY <1>7, UserMoves, Zenon DEF JoinReconnectThread, UserPcs
  <2>2. /\ pc[User] = "join" /\ UNCHANGED <<intentional, rlock, reconnect>>
        /\ joins' = Nobody
        /\ joins # Nobody => pc[joins] = "done"
    BY <1>7 DEF JoinReconnectThread
  <2> QED
    BY <2>1, <2>2, Zenon DEF WorkerInv, OneWorker, Running, Stay, ShutPcs
<1>8. ASSUME NEW e \in Engines,
             \/ HandleOpen(e) \/ HandleError(e) \/ ActivatePollingFallback(e) \/ ErrorListener(e)
             \/ HandleClose(e) \/ MarkSockets(e) \/ DisconnectListener(e) \/ CloseListener(e)
             \/ CloseDecide(e) \/ ScheduleReconnect(e) \/ CountAttempt(e) \/ OnEngineioOpen(e)
             \/ Events(e)
      PROVE  WorkerInv'
  <2>1. /\ UNCHANGED <<joins, reconnect, rlock, intentional>> /\ pc[Io(e)] # "reap"
        /\ \E l \in IoPcs \ {"reap"} : Goto(Io(e), l)
    <3>1. CASE HandleOpen(e) \/ HandleError(e) \/ ActivatePollingFallback(e) \/ ErrorListener(e)
      BY <3>1, Zenon DEF HandleOpen, HandleError, ActivatePollingFallback, ErrorListener, AfterError,
                  callVars, IoPcs
    <3>2. CASE HandleClose(e) \/ MarkSockets(e) \/ DisconnectListener(e) \/ CloseListener(e)
      BY <3>2, Zenon DEF HandleClose, MarkSockets, DisconnectListener, CloseListener, callVars, IoPcs
    <3>3. CASE CloseDecide(e) \/ ScheduleReconnect(e) \/ CountAttempt(e) \/ OnEngineioOpen(e)
      BY <3>3, Zenon DEF CloseDecide, ScheduleReconnect, CountAttempt, OnEngineioOpen, callVars, IoPcs
    <3>4. CASE Events(e)
      BY <3>4 DEF Events, Handshake, ConnectFails, Lost, WriteFails, LateWriteFails, CloseFrame,
                  Report, IoPcs
    <3> QED
      BY <1>8, <3>1, <3>2, <3>3, <3>4, Zenon
  <2> QED
    BY <2>1, WorkerJump, Zenon
<1>9. ASSUME NEW e \in Engines, ScheduleLocked(e) PROVE WorkerInv'
  <2>1. /\ rlock = Nobody /\ pc[Io(e)] = "schedule_lock"
        /\ \A f \in Engines : pc[Io(f)] # "reap"
        /\ UNCHANGED <<joins, intentional>>
    BY <1>9, Zenon DEF ScheduleLocked, WorkerInv
  <2>2. CASE intentional
    BY <1>9, <2>1, <2>2, WorkerJump, Zenon DEF ScheduleLocked, IoPcs
  <2>3. CASE ~intentional /\ reconnect = Nobody
    BY <1>9, <2>1, <2>3, WorkerSpawn, Zenon DEF ScheduleLocked, WorkerInv, ShutPcs
  <2>4. CASE ~intentional /\ reconnect # Nobody
    <3>1. rlock' = Io(e) /\ UNCHANGED <<reconnect, spawned>> /\ Goto(Io(e), "reap")
      BY <1>9, <2>4, Zenon DEF ScheduleLocked
    <3>2. pc'[Io(e)] = "reap" /\ Stay({Io(e)})
      BY <3>1, IoMoves, Zenon DEF IoPcs
    <3> QED
      BY <2>1, <2>4, <3>1, <3>2, Zenon DEF WorkerInv, OneWorker, Running, Stay
  <2> QED
    BY <2>2, <2>3, <2>4
<1>10. ASSUME NEW e \in Engines, Reap(e) PROVE WorkerInv'
  <2>1. /\ rlock = Io(e) /\ reconnect # Nobody
        /\ \A f \in Engines : pc[Io(f)] = "reap" => f = e
    BY <1>10, Zenon DEF Reap, WorkerInv
  <2> QED
    BY <1>10, <2>1, WorkerSpawn DEF Reap, WorkerInv
<1>11. ASSUME NEW n \in 1 .. MaxWorkers, WorkerWait(n) \/ WorkerCheck(n) \/ WorkerReconnecting(n)
       PROVE  WorkerInv'
  BY <1>11, WorkerJump DEF WorkerWait, WorkerCheck, WorkerReconnecting, WorkerStep, WorkerPcs
<1>12. CASE UNCHANGED vars \/ \E nsp \in Namespaces : Socket(nsp)
  <2>1. UNCHANGED <<pc, joins, reconnect, rlock>>
    BY <1>12, Zenon DEF vars, callVars, Socket
  <2>2. intentional => intentional'
    BY <1>12, Zenon DEF vars, Socket
  <2> QED
    BY <2>1, <2>2, WorkerKept DEF Stay
<1>13. ASSUME NEW t \in Threads, Engine(t) PROVE WorkerInv'
  BY <1>1, <1>2, <1>3, <1>13 DEF Engine
<1>14. CASE UserRuns
  BY <1>4, <1>5, <1>6, <1>7, <1>13, <1>14 DEF UserRuns, Closing
<1>15. ASSUME NEW e \in Engines, IoRuns(e) PROVE WorkerInv'
  BY <1>4, <1>8, <1>9, <1>10, <1>13, <1>15, Zenon DEF IoRuns, Closing
<1>16. ASSUME NEW n \in 1 .. MaxWorkers, WorkerRuns(n) PROVE WorkerInv'
  BY <1>11, <1>13, <1>16 DEF WorkerRuns
<1> QED
  BY <1>5, <1>8, <1>12, <1>14, <1>15, <1>16 DEF Next
-----------------------------------------------------------------------------
\* The part of the types that the engines need.
EngineTypes ==
    /\ PcOK /\ current \in Engines \cup {None} /\ made \in 0 .. MaxEngines
    /\ up \in [Engines -> Connections] /\ closing \in [Engines -> BOOLEAN]
    /\ mine \in [Threads -> Engines \cup {None}]

(* A step that leaves the engines alone, except that a creator may let go of its engine;   *)
(* no thread of an engine becomes busy.                                                   *)
LEMMA EngineKept ==
    ASSUME EngineTypes, EngineInv, UNCHANGED <<made, up, closing, current>>,
           \A u \in Threads : mine'[u] = mine[u] \/ mine'[u] = None,
           \A e \in Engines : pc[Io(e)] = "idle" => pc'[Io(e)] = "idle"
    PROVE  EngineInv'
<1>1. 0 <= made /\ \A u \in Threads : mine[u] # None => mine[u] \in Engines
  BY DEF EngineTypes
<1> QED
  BY <1>1 DEF EngineInv, None

(* ... in a jump of one thread.                                                          *)
LEMMA EngineJump ==
    ASSUME EngineTypes, EngineInv, NEW t \in Threads, NEW l, Goto(t, l),
           t \notin IoThreads \/ pc[t] # "idle",
           UNCHANGED <<made, up, closing, current, mine>>
    PROVE  EngineInv'
<1>1. \A u \in IoThreads : pc[u] = "idle" => pc'[u] = "idle"
  BY Zenon DEF EngineTypes, PcOK, Goto, Threads
<1> QED
  BY <1>1, EngineKept, ThreadNames

(* ensure_engineio makes an engine that nobody else has.                                    *)
LEMMA EngineEnsure ==
    ASSUME EngineTypes, EngineInv, NEW t \in Threads, EnsureEngineio(t)
    PROVE  EngineInv'
<1> DEFINE new == made + 1
<1>1. /\ made \in Nat /\ new \in Engines /\ new # None /\ made' = new /\ current' = current
      /\ \A e \in Engines : e \in Nat /\ (e > new => e > made /\ e # new) /\ (e <= made => e <= new)
      /\ UNCHANGED closing /\ new > made
  BY ClientAssumption DEF EngineTypes, EnsureEngineio, Engines, None, sharedVars
<1>2. /\ mine'[t] = new /\ \A u \in Threads : u # t => mine'[u] = mine[u]
      /\ up'[new] = "new" /\ \A e \in Engines : e # new => up'[e] = up[e]
  BY <1>1, Zenon DEF EnsureEngineio, Set, EngineTypes
<1>3. pc[Io(new)] = "idle" /\ pc'[Io(new)] = "idle"
      /\ \A e \in Engines : pc[Io(e)] = "idle" => pc'[Io(e)] = "idle"
  <2>1. pc[Io(new)] = "idle"
    BY <1>1 DEF EngineInv
  <2>2. \A u \in Threads : pc[u] = "idle" => pc'[u] = "idle"
    BY DEF EnsureEngineio, Goto, EngineTypes, PcOK
  <2> QED
    BY <1>1, <2>1, <2>2, ThreadNames
<1>4. \A u \in Threads : mine[u] # None => mine[u] \in Engines /\ mine[u] # new
  BY <1>1 DEF EngineInv, EngineTypes
<1> HIDE DEF new
<1>5. /\ \A u \in Threads : mine'[u] <= made'
      /\ current' <= made'
  BY <1>1, <1>2 DEF EngineInv, EngineTypes, None
<1>6. \A u, v \in Threads : u # v /\ mine'[u] # None => mine'[u] # mine'[v]
  BY <1>1, <1>2, <1>4 DEF EngineInv
<1>7. \A e \in Engines : e > made' => up'[e] = "unused" /\ pc'[Io(e)] = "idle"
  BY <1>1, <1>2, <1>3 DEF EngineInv
<1>8. \A u \in Threads : mine'[u] # None =>
          /\ up'[mine'[u]] = "new" \/ (up'[mine'[u]] = "closed" /\ closing'[mine'[u]])
          /\ pc'[Io(mine'[u])] = "idle"
  BY <1>1, <1>2, <1>3, <1>4 DEF EngineInv
<1> QED
  BY <1>5, <1>6, <1>7, <1>8 DEF EngineInv

(* The engine that is released is nobody's; the one that is installed is its creator's.       *)
LEMMA EngineInstall ==
    ASSUME EngineTypes, EngineInv, NEW t \in Threads, InstallEngineio(t)
    PROVE  EngineInv'
<1>1. /\ \A u \in Threads : mine'[u] = mine[u] \/ mine'[u] = None
      /\ current' = current \/ current' = mine[t]
      /\ UNCHANGED <<made, closing>>
      /\ \A u \in Threads : pc[u] = "idle" => pc'[u] = "idle"
  BY DEF InstallEngineio, Set, Goto, EngineTypes, PcOK
<1>2. \A e \in Engines : \/ up'[e] = up[e]
                         \/ e = current /\ \A u \in Threads : mine[u] # e
  BY DEF InstallEngineio, Release, Held, Set, EngineTypes
<1>3. /\ made \in Nat /\ \A u \in Threads : mine[u] \in Nat /\ mine[u] <= made
      /\ \A u \in Threads : mine[u] # None => mine[u] \in Engines
      /\ current <= made /\ 0 <= made
  BY ClientAssumption DEF EngineInv, EngineTypes, Engines, None
<1>4. /\ \A u \in Threads : mine'[u] <= made'
      /\ current' <= made'
  BY <1>1, <1>3 DEF None
<1>5. \A u, v \in Threads : u # v /\ mine'[u] # None => mine'[u] # mine'[v]
  BY <1>1 DEF EngineInv
<1>6. \A e \in Engines : e > made' => up'[e] = "unused" /\ pc'[Io(e)] = "idle"
  <2>1. \A e \in Engines : e > made => e # current
    BY <1>3 DEF Engines
  <2> QED
    BY <1>1, <1>2, <2>1, ThreadNames DEF EngineInv
<1>7. \A u \in Threads : mine'[u] # None =>
          /\ up'[mine'[u]] = "new" \/ (up'[mine'[u]] = "closed" /\ closing'[mine'[u]])
          /\ pc'[Io(mine'[u])] = "idle"
  BY <1>1, <1>2, <1>3, ThreadNames DEF EngineInv
<1> QED
  BY <1>4, <1>5, <1>6, <1>7 DEF EngineInv

(* engineio->open(): the creator lets go of the engine it opens.                              *)
LEMMA EngineOpen ==
    ASSUME EngineTypes, EngineInv, NEW t \in Threads, OpenEngineio(t)
    PROVE  EngineInv'
<1>1. /\ mine'[t] = None /\ \A u \in Threads : u # t => mine'[u] = mine[u]
      /\ UNCHANGED <<made, closing, current>>
      /\ \A u \in Threads : pc[u] = "idle" => pc'[u] = "idle"
  BY DEF OpenEngineio, Set, Goto, EngineTypes, PcOK, sharedVars
<1>2. \A e \in Engines : up'[e] = up[e] \/ e = mine[t]
  BY DEF OpenEngineio, Set, EngineTypes
<1>3. /\ made \in Nat /\ \A u \in Threads : mine[u] \in Nat /\ mine[u] <= made
      /\ \A u \in Threads : mine[u] # None => mine[u] \in Engines
      /\ current <= made /\ 0 <= made
  BY ClientAssumption DEF EngineInv, EngineTypes, Engines, None
<1>4. /\ \A u \in Threads : mine'[u] <= made'
      /\ current' <= made'
  BY <1>1, <1>3, Zenon DEF None
<1>5. \A u, v \in Threads : u # v /\ mine'[u] # None => mine'[u] # mine'[v]
  BY <1>1 DEF EngineInv
<1>6. \A e \in Engines : e > made' => up'[e] = "unused" /\ pc'[Io(e)] = "idle"
  <2>1. \A e \in Engines : e > made => e # mine[t]
    BY <1>3 DEF Engines
  <2> QED
    BY <1>1, <1>2, <2>1, ThreadNames DEF EngineInv
<1>7. \A u \in Threads : mine'[u] # None =>
          /\ up'[mine'[u]] = "new" \/ (up'[mine'[u]] = "closed" /\ closing'[mine'[u]])
          /\ pc'[Io(mine'[u])] = "idle"
  BY <1>1, <1>2, <1>3, ThreadNames DEF EngineInv
<1> QED
  BY <1>4, <1>5, <1>6, <1>7 DEF EngineInv

(* The engine of the client is closed: if somebody still has it in hand, it stays closed.       *)
LEMMA EngineClose ==
    ASSUME EngineTypes, EngineInv, NEW t \in Threads, CloseEngine(t)
    PROVE  EngineInv'
<1>1. /\ UNCHANGED <<made, current, mine>>
      /\ \A u \in Threads : pc[u] = "idle" => pc'[u] = "idle"
  BY DEF CloseEngine, Goto, EngineTypes, PcOK, sharedVars
<1>2. \A e \in Engines : \/ up'[e] = up[e] /\ closing'[e] = closing[e]
                         \/ e = current /\ up'[e] = "closed" /\ closing'[e]
  BY DEF CloseEngine, Set, EngineTypes
<1>3. /\ \A u \in Threads : mine[u] # None => mine[u] \in Engines
      /\ \A e \in Engines : e > made => e # current
  BY ClientAssumption DEF EngineInv, EngineTypes, Engines, None
<1>6. \A e \in Engines : e > made' => up'[e] = "unused" /\ pc'[Io(e)] = "idle"
  BY <1>1, <1>2, <1>3, ThreadNames DEF EngineInv
<1>7. \A u \in Threads : mine'[u] # None =>
          /\ up'[mine'[u]] = "new" \/ (up'[mine'[u]] = "closed" /\ closing'[mine'[u]])
          /\ pc'[Io(mine'[u])] = "idle"
  BY <1>1, <1>2, <1>3, ThreadNames DEF EngineInv
<1> QED
  BY <1>1, <1>6, <1>7 DEF EngineInv

(* An engine that reports was opened, and nobody has it in hand.                              *)
LEMMA EngineReport ==
    ASSUME EngineTypes, EngineInv, NEW e \in Engines, NEW from, NEW to, NEW label \in IoPcs,
           from \subseteq {"connecting", "open", "half", "lost"}, Report(e, from, to, label)
    PROVE  EngineInv'
<1>1. /\ UNCHANGED <<made, current, mine, closing>> /\ up[e] \notin {"unused", "new", "closed"}
      /\ \A f \in Engines : f # e => up'[f] = up[f]
  BY DEF Report, Set, EngineTypes, sharedVars
<1>2. \A f \in Engines : f # e => pc'[Io(f)] = pc[Io(f)]
  <2>1. PcOK /\ Goto(Io(e), label)
    BY Zenon DEF Report, EngineTypes
  <2>2. Stay({Io(e)})
    BY <2>1, IoMoves, Zenon
  <2> QED
    BY <2>2, ThreadNames, Zenon DEF Stay
<1>3. \A u \in Threads : mine[u] # None => mine[u] \in Engines
  BY Zenon DEF EngineTypes
<1>4. \A f \in Engines : f > made' => up'[f] = "unused" /\ pc'[Io(f)] = "idle"
  BY <1>1, <1>2, Zenon DEF EngineInv
<1>5. \A u \in Threads : mine'[u] # None =>
          /\ up'[mine'[u]] = "new" \/ (up'[mine'[u]] = "closed" /\ closing'[mine'[u]])
          /\ pc'[Io(mine'[u])] = "idle"
  <2>1. \A u \in Threads : mine[u] # e
    BY <1>1 DEF EngineInv, Engines, None
  <2> QED
    BY <1>1, <1>2, <1>3, <2>1, Zenon DEF EngineInv
<1> QED
  BY <1>1, <1>4, <1>5, Zenon DEF EngineInv

(* Every step keeps the engines that are in somebody's hand apart.                             *)
LEMMA EngineInvStep ==
    ASSUME TypeOK, EngineInv, [Next]_vars
    PROVE  EngineInv'
<1>0. EngineTypes /\ PcOK
  BY Zenon DEF TypeOK, EngineTypes, PcOK
<1> USE <1>0, ThreadNames DEF sharedVars, engineVars, callVars
<1>1. ASSUME NEW t \in Threads, Engine(t) PROVE EngineInv'
  BY <1>1, EngineEnsure, EngineInstall, EngineOpen, Zenon DEF Engine
<1>2. ASSUME NEW t \in Threads, Closing(t) PROVE EngineInv'
  BY <1>2, EngineClose, EngineJump, Zenon DEF Closing, CloseFlag, CloseSockets
<1>3. CASE \/ Connect \/ ConnectReset \/ ConnectMode \/ Close("close") \/ Close("sync")
           \/ SyncJoin \/ StopReconnectThread \/ JoinReconnectThread
  <2>1. /\ UNCHANGED <<made, up, closing, current, mine>>
        /\ \E l : Goto(User, l)
    BY <1>3, Zenon DEF Connect, ConnectReset, ConnectMode, Close, SyncJoin, StopReconnectThread,
                JoinReconnectThread
  <2> QED
    BY <2>1, EngineJump
<1>4. ASSUME NEW e \in Engines, IoRuns(e), ~Engine(Io(e)), ~Closing(Io(e)) PROVE EngineInv'
  <2>1. CASE HandleOpen(e) \/ HandleError(e) \/ ActivatePollingFallback(e) \/ ErrorListener(e)
    BY <2>1, EngineJump, Zenon DEF HandleOpen, HandleError, ActivatePollingFallback, ErrorListener
  <2>2. CASE HandleClose(e) \/ MarkSockets(e) \/ DisconnectListener(e) \/ CloseListener(e)
    BY <2>2, EngineJump DEF HandleClose, MarkSockets, DisconnectListener, CloseListener
  <2>3. CASE CloseDecide(e) \/ ScheduleReconnect(e) \/ CountAttempt(e) \/ OnEngineioOpen(e)
    BY <2>3, EngineJump, Zenon DEF CloseDecide, ScheduleReconnect, CountAttempt, OnEngineioOpen
  <2>4. ASSUME Spawn(e), UNCHANGED <<made, up, closing, current, mine>> PROVE EngineInv'
    <3>1. \A u \in IoThreads : pc[u] = "idle" => pc'[u] = "idle"
      BY <2>4 DEF Spawn, PcOK, Threads
    <3> QED
      BY <2>4, <3>1, EngineKept, Zenon
  <2>5. CASE ScheduleLocked(e)
    BY <2>4, <2>5, EngineJump, Zenon DEF ScheduleLocked
  <2>6. CASE Reap(e)
    BY <2>4, <2>6, Zenon DEF Reap
  <2> QED
    BY <1>4, <2>1, <2>2, <2>3, <2>5, <2>6, Zenon DEF IoRuns
<1>5. ASSUME NEW e \in Engines, Events(e) PROVE EngineInv'
  BY <1>5, EngineReport, Zenon
     DEF Events, Handshake, ConnectFails, Lost, WriteFails, LateWriteFails, CloseFrame, IoPcs
<1>6. ASSUME NEW n \in 1 .. MaxWorkers, WorkerWait(n) \/ WorkerCheck(n) \/ WorkerReconnecting(n)
      PROVE  EngineInv'
  <2>1. /\ UNCHANGED <<made, up, closing, current>>
        /\ \E l : Goto(Worker(n), l)
        /\ \A u \in Threads : mine'[u] = mine[u] \/ mine'[u] = None
    BY <1>6, Zenon DEF WorkerWait, WorkerCheck, WorkerReconnecting, WorkerStep, Set, EngineTypes
  <2>2. \A u \in IoThreads : pc'[u] = pc[u]
    BY <2>1 DEF PcOK, Goto, Threads
  <2> QED
    BY <2>1, <2>2, EngineKept, Zenon
<1>7. CASE UNCHANGED vars \/ \E nsp \in Namespaces : Socket(nsp)
  <2>1. UNCHANGED <<made, up, closing, current, mine, pc>>
    BY <1>7 DEF vars, Socket
  <2> QED
    BY <2>1, EngineKept, Zenon
<1> QED
  BY <1>1, <1>2, <1>3, <1>4, <1>5, <1>6, <1>7, Zenon DEF Next, UserRuns, WorkerRuns
-----------------------------------------------------------------------------
(* A jump that opens no engine and announces nothing; the thread of the client's engine is   *)
(* past its announcements, or goes to make them.                                            *)
LEMMA NamesJump ==
    ASSUME EngineTypes, NamespacesAnnounced, NEW t \in Threads, NEW l, Goto(t, l),
           UNCHANGED <<current, sockets, announced>>,
           \A e \in Engines : up'[e] = "open" => up[e] = "open",
           \/ t \notin IoThreads \/ pc[t] \notin {"open_check", "open_connect"}
           \/ l \in {"open_check", "open_connect"} \/ t # Io(current)
    PROVE  NamespacesAnnounced'
<1>1. /\ current # None => current \in Engines
      /\ pc'[t] = l /\ \A u \in Threads : u # t => pc'[u] = pc[u]
  BY Zenon DEF EngineTypes, PcOK, Goto
<1> QED
  BY <1>1, ThreadNames, Zenon DEF NamespacesAnnounced, IsOpen

(* Every step keeps the namespaces announced on the open engine.                              *)
LEMMA NamesStep ==
    ASSUME TypeOK, EngineInv, NamespacesAnnounced, [Next]_vars
    PROVE  NamespacesAnnounced'
<1>0. /\ EngineTypes /\ PcOK
      /\ announced \in [Engines -> SUBSET Namespaces] /\ sockets \subseteq Namespaces
  BY Zenon DEF TypeOK, EngineTypes, PcOK
<1> USE <1>0, ThreadNames DEF sharedVars, engineVars, callVars
<1>1. ASSUME NEW t \in Threads, EnsureEngineio(t) PROVE NamespacesAnnounced'
  <2>1. \A e \in Engines : up'[e] = "open" => up[e] = "open"
    BY <1>1, Zenon DEF EnsureEngineio, Set, EngineTypes
  <2> QED
    BY <1>1, <2>1, NamesJump, Zenon DEF EnsureEngineio
<1>2. ASSUME NEW t \in Threads, InstallEngineio(t) PROVE NamespacesAnnounced'
  <2>1. CASE intentional
    <3>1. up' = up /\ UNCHANGED <<current, sockets, announced>> /\ pc[t] = "install"
      BY <1>2, <2>1, Zenon DEF InstallEngineio, Release
    <3> QED
      BY <1>2, <2>1, <3>1, NamesJump DEF InstallEngineio
  <2>2. CASE ~intentional
    <3>1. current' = mine[t] /\ up'[mine[t]] = up[mine[t]]
      BY <1>2, <2>2 DEF InstallEngineio, Release, Set, EngineTypes
    <3>2. current' # None => up'[current'] # "open"
      BY <3>1, Zenon DEF EngineInv
    <3> QED
      BY <3>2, Zenon DEF NamespacesAnnounced, IsOpen
  <2> QED
    BY <2>1, <2>2, Zenon
<1>3. ASSUME NEW t \in Threads, OpenEngineio(t) \/ CloseEngine(t) PROVE NamespacesAnnounced'
  <2>1. \A e \in Engines : up'[e] = "open" => up[e] = "open"
    BY <1>3 DEF OpenEngineio, CloseEngine, Set, EngineTypes
  <2>2. /\ UNCHANGED <<current, sockets, announced>> /\ pc[t] \in {"open", "close_engine"}
        /\ \E l : Goto(t, l)
    BY <1>3, Zenon DEF OpenEngineio, CloseEngine
  <2> QED
    BY <2>1, <2>2, NamesJump, Zenon
<1>4. ASSUME NEW t \in Threads, CloseFlag(t) \/ CloseSockets(t) PROVE NamespacesAnnounced'
  BY <1>4, NamesJump, Zenon DEF CloseFlag, CloseSockets
<1>5. CASE \/ Connect \/ ConnectReset \/ ConnectMode \/ Close("close") \/ Close("sync")
           \/ SyncJoin \/ StopReconnectThread \/ JoinReconnectThread
  <2>1. /\ UNCHANGED <<current, sockets, announced, up>>
        /\ \E l : Goto(User, l)
    BY <1>5, Zenon DEF Connect, ConnectReset, ConnectMode, Close, SyncJoin, StopReconnectThread,
                JoinReconnectThread
  <2> QED
    BY <2>1, NamesJump
<1>6. ASSUME NEW nsp \in Namespaces, Socket(nsp) PROVE NamespacesAnnounced'
  <2>1. /\ UNCHANGED <<current, up, pc>> /\ sockets' = sockets \cup {nsp}
        /\ current # None /\ IsOpen(current) =>
              announced'[current] = announced[current] \cup {nsp}
    BY <1>6, Zenon DEF Socket, Announce, Set, EngineTypes
  <2> QED
    BY <2>1, Zenon DEF NamespacesAnnounced, IsOpen
<1>7. ASSUME NEW e \in Engines, OnEngineioOpen(e) PROVE NamespacesAnnounced'
  <2>1. /\ UNCHANGED <<current, up, sockets>> /\ Goto(Io(e), "idle")
        /\ current # None /\ IsOpen(current) => sockets \subseteq announced'[current]
    BY <1>7, Zenon DEF OnEngineioOpen, Announce, Set, EngineTypes
  <2> QED
    BY <2>1, Zenon DEF NamespacesAnnounced, IsOpen
<1>8. ASSUME NEW e \in Engines, IoRuns(e), ~Engine(Io(e)), ~Closing(Io(e)), ~OnEngineioOpen(e)
      PROVE  NamespacesAnnounced'
  <2>1. CASE HandleOpen(e)
    BY <2>1, NamesJump DEF HandleOpen
  <2>2. CASE HandleError(e) \/ ActivatePollingFallback(e) \/ ErrorListener(e) \/ HandleClose(e)
    BY <2>2, NamesJump, Zenon DEF HandleError, ActivatePollingFallback, ErrorListener, HandleClose
  <2>3. CASE MarkSockets(e) \/ DisconnectListener(e) \/ CloseListener(e) \/ CloseDecide(e)
    BY <2>3, NamesJump, Zenon DEF MarkSockets, DisconnectListener, CloseListener, CloseDecide
  <2>4. CASE ScheduleReconnect(e) \/ CountAttempt(e)
    BY <2>4, NamesJump, Zenon DEF ScheduleReconnect, CountAttempt
  <2>5. ASSUME Spawn(e), UNCHANGED <<current, sockets, announced, up>>,
               pc[Io(e)] \in {"schedule_lock", "reap"}
        PROVE  NamespacesAnnounced'
    <3>1. \A u \in IoThreads : pc'[u] = pc[u] \/ pc[u] \in {"schedule_lock", "reap"}
      BY <2>5 DEF Spawn, PcOK, Threads
    <3>2. current # None => Io(current) \in IoThreads
      BY Zenon DEF EngineTypes
    <3> QED
      BY <2>5, <3>1, <3>2, Zenon DEF NamespacesAnnounced, IsOpen
  <2>6. CASE ScheduleLocked(e)
    BY <2>5, <2>6, NamesJump, Zenon DEF ScheduleLocked
  <2>7. CASE Reap(e)
    BY <2>5, <2>7, Zenon DEF Reap
  <2> QED
    BY <1>8, <2>1, <2>2, <2>3, <2>4, <2>6, <2>7, Zenon DEF IoRuns
<1>9. ASSUME NEW e \in Engines, Events(e) PROVE NamespacesAnnounced'
  <2>1. CASE Handshake(e)
    <3>1. /\ UNCHANGED <<current, sockets, announced>> /\ Goto(Io(e), "open_check")
          /\ \A f \in Engines : f # e => up'[f] = up[f]
      BY <2>1, Zenon DEF Handshake, Report, Set, EngineTypes
    <3>2. pc'[Io(e)] = "open_check" /\ \A f \in Engines : f # e => pc'[Io(f)] = pc[Io(f)]
      BY <3>1 DEF PcOK, Goto
    <3> QED
      BY <3>1, <3>2 DEF NamespacesAnnounced, IsOpen, EngineTypes
  <2>2. ASSUME NEW from, NEW to, NEW label, Report(e, from, to, label),
               to = "open" => from = {"open"}
        PROVE  NamespacesAnnounced'
    <3>1. \A f \in Engines : up'[f] = "open" => up[f] = "open"
      BY <2>2, Zenon DEF Report, Set, EngineTypes
    <3> QED
      BY <2>2, <3>1, NamesJump, Zenon DEF Report
  <2> QED
    BY <1>9, <2>1, <2>2, Zenon DEF Events, ConnectFails, Lost, WriteFails, LateWriteFails, CloseFrame
<1>10. ASSUME NEW n \in 1 .. MaxWorkers, WorkerWait(n) \/ WorkerCheck(n) \/ WorkerReconnecting(n)
       PROVE  NamespacesAnnounced'
  BY <1>10, NamesJump, Zenon DEF WorkerWait, WorkerCheck, WorkerReconnecting, WorkerStep
<1>11. CASE UNCHANGED vars
  BY <1>11, Zenon DEF vars, NamespacesAnnounced, IsOpen
<1> QED
  BY <1>1, <1>2, <1>3, <1>4, <1>5, <1>6, <1>7, <1>8, <1>9, <1>10, <1>11, Zenon
     DEF Next, UserRuns, WorkerRuns, IoRuns, Engine, Closing
-----------------------------------------------------------------------------
(* Once close() has been to the engine, no thread installs another.                            *)
LEMMA SelectedStep ==
    ASSUME TypeOK, SelectedOrRejected, [Next]_vars
    PROVE  SelectedOrRejected'
<1>0. current \in Engines \cup {None} /\ closing \in [Engines -> BOOLEAN]
  BY DEF TypeOK
<1> USE <1>0 DEF sharedVars, engineVars, callVars
<1>1. ASSUME UNCHANGED <<intentional, shut, current, closing>> PROVE SelectedOrRejected'
  BY <1>1, Zenon DEF SelectedOrRejected
<1>2. ASSUME NEW t, EnsureEngineio(t) \/ OpenEngineio(t) PROVE SelectedOrRejected'
  BY <1>1, <1>2, Zenon DEF EnsureEngineio, OpenEngineio
<1>3. ASSUME NEW t, InstallEngineio(t) PROVE SelectedOrRejected'
  <2>1. CASE intentional
    BY <1>1, <1>3, <2>1, Zenon DEF InstallEngineio
  <2>2. CASE ~intentional
    BY <1>3, <2>2, Zenon DEF InstallEngineio, SelectedOrRejected
  <2> QED
    BY <2>1, <2>2
<1>4. ASSUME NEW t, CloseFlag(t) PROVE SelectedOrRejected'
  BY <1>4, Zenon DEF CloseFlag, SelectedOrRejected
<1>5. ASSUME NEW t, CloseSockets(t) PROVE SelectedOrRejected'
  BY <1>1, <1>5 DEF CloseSockets
<1>6. ASSUME NEW t, CloseEngine(t) PROVE SelectedOrRejected'
  <2>1. current' = current /\ (current = None \/ closing'[current])
    BY <1>6 DEF CloseEngine, Set
  <2> QED
    BY <2>1, Zenon DEF SelectedOrRejected
<1>7. CASE ConnectReset
  BY <1>7, Zenon DEF ConnectReset, SelectedOrRejected
<1>8. CASE \/ Connect \/ ConnectMode \/ Close("close") \/ Close("sync")
           \/ SyncJoin \/ StopReconnectThread \/ JoinReconnectThread
  BY <1>1, <1>8, Zenon DEF Connect, ConnectMode, Close, SyncJoin, StopReconnectThread,
                    JoinReconnectThread
<1>9. ASSUME NEW e \in Engines, IoRuns(e), ~Engine(Io(e)), ~Closing(Io(e))
      PROVE  SelectedOrRejected'
  <2>1. CASE HandleOpen(e) \/ HandleError(e) \/ ActivatePollingFallback(e) \/ ErrorListener(e)
    BY <1>1, <2>1, Zenon DEF HandleOpen, HandleError, ActivatePollingFallback, ErrorListener
  <2>2. CASE HandleClose(e) \/ MarkSockets(e) \/ DisconnectListener(e) \/ CloseListener(e)
    BY <1>1, <2>2, Zenon DEF HandleClose, MarkSockets, DisconnectListener, CloseListener
  <2>3. CASE CloseDecide(e) \/ ScheduleReconnect(e) \/ CountAttempt(e) \/ OnEngineioOpen(e)
    BY <1>1, <2>3, Zenon DEF CloseDecide, ScheduleReconnect, CountAttempt, OnEngineioOpen
  <2>4. CASE ScheduleLocked(e) \/ Reap(e)
    BY <1>1, <2>4 DEF ScheduleLocked, Reap
  <2> QED
    BY <1>9, <2>1, <2>2, <2>3, <2>4, Zenon DEF IoRuns
<1>10. ASSUME NEW e \in Engines, Events(e) PROVE SelectedOrRejected'
  BY <1>1, <1>10, Zenon
     DEF Events, Handshake, ConnectFails, Lost, WriteFails, LateWriteFails, CloseFrame, Report
<1>11. ASSUME NEW n \in 1 .. MaxWorkers, WorkerWait(n) \/ WorkerCheck(n) \/ WorkerReconnecting(n)
       PROVE  SelectedOrRejected'
  BY <1>1, <1>11, Zenon DEF WorkerWait, WorkerCheck, WorkerReconnecting, WorkerStep
<1>12. CASE UNCHANGED vars \/ \E nsp \in Namespaces : Socket(nsp)
  BY <1>1, <1>12 DEF vars, Socket
<1> QED
  BY <1>2, <1>3, <1>4, <1>5, <1>6, <1>7, <1>8, <1>9, <1>10, <1>11, <1>12, Zenon
     DEF Next, UserRuns, WorkerRuns, IoRuns, Engine, Closing
-----------------------------------------------------------------------------
(* Without the CLOSE packet no engine is closed over a transport that goes on.                  *)
LEMMA HalfStep ==
    ASSUME Quirks = {}, TypeOK, NoHalf, [Next]_vars
    PROVE  NoHalf'
<1>0. /\ up \in [Engines -> Connections] /\ current \in Engines \cup {None}
      /\ mine \in [Threads -> Engines \cup {None}]
  BY DEF TypeOK
<1> USE <1>0 DEF sharedVars, engineVars, callVars
<1>1. ASSUME up' = up PROVE NoHalf'
  BY <1>1, Zenon DEF NoHalf
<1>2. ASSUME NEW k, NEW v, v # "half", up' = up \/ up' = Set(up, k, v) PROVE NoHalf'
  BY <1>2 DEF NoHalf, Set
<1>3. ASSUME NEW t, EnsureEngineio(t) PROVE NoHalf'
  <2>1. up' = up \/ up' = Set(up, made + 1, "new")
    BY <1>3, Zenon DEF EnsureEngineio
  <2> QED
    BY <1>2, <2>1
<1>4. ASSUME NEW t, InstallEngineio(t) PROVE NoHalf'
  <2>1. \E k : up' = up \/ up' = Set(up, k, "closed")
    BY <1>4, Zenon DEF InstallEngineio, Release
  <2> QED
    BY <1>2, <2>1
<1>5. ASSUME NEW t, OpenEngineio(t) PROVE NoHalf'
  <2>1. up' = up \/ up' = Set(up, mine[t], "connecting")
    BY <1>5, Zenon DEF OpenEngineio
  <2> QED
    BY <1>2, <2>1
<1>6. ASSUME NEW t, CloseFlag(t) \/ CloseSockets(t) \/ CloseEngine(t) PROVE NoHalf'
  <2>1. up' = up \/ up' = Set(up, current, "closed")
    BY <1>6 DEF CloseFlag, CloseSockets, CloseEngine
  <2> QED
    BY <1>2, <2>1
<1>7. ASSUME NEW e \in Engines, NEW from, NEW to, NEW label, Report(e, from, to, label), to # "half"
      PROVE  NoHalf'
  BY <1>2, <1>7, Zenon DEF Report
<1>8. ASSUME NEW e \in Engines, Events(e) PROVE NoHalf'
  <2>1. CASE Handshake(e) \/ ConnectFails(e) \/ Lost(e)
    BY <1>7, <2>1 DEF Handshake, ConnectFails, Lost
  <2>2. CASE WriteFails(e)
    BY <1>7, <2>2, Zenon DEF WriteFails, NoHalf
  <2> QED
    BY <1>8, <2>1, <2>2, Zenon DEF Events, LateWriteFails, CloseFrame
<1>9. CASE \/ Connect \/ ConnectReset \/ ConnectMode \/ Close("close") \/ Close("sync")
           \/ SyncJoin \/ StopReconnectThread \/ JoinReconnectThread
  BY <1>1, <1>9, Zenon DEF Connect, ConnectReset, ConnectMode, Close, SyncJoin,
                    StopReconnectThread, JoinReconnectThread
<1>10. ASSUME NEW e \in Engines, IoRuns(e), ~Engine(Io(e)), ~Closing(Io(e)) PROVE NoHalf'
  <2>1. CASE HandleOpen(e) \/ HandleError(e) \/ ActivatePollingFallback(e) \/ ErrorListener(e)
    BY <1>1, <2>1, Zenon DEF HandleOpen, HandleError, ActivatePollingFallback, ErrorListener
  <2>2. CASE HandleClose(e) \/ MarkSockets(e) \/ DisconnectListener(e) \/ CloseListener(e)
    BY <1>1, <2>2, Zenon DEF HandleClose, MarkSockets, DisconnectListener, CloseListener
  <2>3. CASE CloseDecide(e) \/ ScheduleReconnect(e) \/ CountAttempt(e) \/ OnEngineioOpen(e)
    BY <1>1, <2>3, Zenon DEF CloseDecide, ScheduleReconnect, CountAttempt, OnEngineioOpen
  <2>4. CASE ScheduleLocked(e) \/ Reap(e)
    BY <1>1, <2>4 DEF ScheduleLocked, Reap
  <2> QED
    BY <1>10, <2>1, <2>2, <2>3, <2>4, Zenon DEF IoRuns
<1>11. ASSUME NEW n \in 1 .. MaxWorkers, WorkerWait(n) \/ WorkerCheck(n) \/ WorkerReconnecting(n)
       PROVE  NoHalf'
  BY <1>1, <1>11, Zenon DEF WorkerWait, WorkerCheck, WorkerReconnecting, WorkerStep
<1>12. CASE UNCHANGED vars \/ \E nsp \in Namespaces : Socket(nsp)
  BY <1>1, <1>12 DEF vars, Socket
<1> QED
  BY <1>3, <1>4, <1>5, <1>6, <1>8, <1>9, <1>10, <1>11, <1>12, Zenon
     DEF Next, UserRuns, WorkerRuns, IoRuns, Engine, Closing
-----------------------------------------------------------------------------
\* What no step but a report and a replacement does to the engines: a busy engine stays as it
\* is or is closed, and what is over stays over.
Steady == \A f \in Engines :
    /\ pc[Io(f)] # "idle" => up'[f] \in {up[f], "closed"} /\ kind'[f] = kind[f]
    /\ up[f] \in Over => up'[f] \in Over
    /\ closing[f] => closing'[f]

NoWorker == \A n \in 1 .. MaxWorkers : ~Running(n)
Settled  == current = None \/ (closing[current] /\ pc[Io(current)] = "idle")

(* While a thread decides, the application neither connects nor has shut down, and no worker  *)
(* waits to replace the engine.                                                              *)
LEMMA OneDecides ==
    ASSUME EngineTypes, OrderlyInv, NEW e \in Engines, Deciding(e)
    PROVE  /\ current = e /\ up[e] \in Over /\ connects # 0 /\ ~Quiet
           /\ \A f \in Engines : Deciding(f) => f = e
           /\ \A n \in 1 .. MaxWorkers : ~Pending(n)
<1>1. current = e /\ up[e] \in Over /\ pc[Io(e)] # "idle" /\ e # None
  BY DEF OrderlyInv, Deciding, Engines, None
<1> QED
  BY <1>1, Zenon DEF OrderlyInv

(* A jump of the application's thread.                                                        *)
LEMMA OrderlyUser ==
    ASSUME EngineTypes, OrderlyInv, NEW l \in UserPcs, Goto(User, l), Steady,
           UNCHANGED current, connects' # 0,
           l \in {"stop", "join", "sync_join"} => current = None \/ closing'[current],
           Quiet' => NoWorker /\ (current = None \/ (closing'[current] /\ pc[Io(current)] = "idle")),
           attempts' = attempts \/ (Quiet /\ attempts' = 0)
    PROVE  OrderlyInv'
<1>1. pc'[User] = l /\ Stay({User})
  BY UserMoves DEF EngineTypes
<1>2. /\ \A e \in Engines : pc'[Io(e)] = pc[Io(e)]
      /\ \A n \in 1 .. MaxWorkers : pc'[Worker(n)] = pc[Worker(n)]
      /\ current # None => current \in Engines
  BY <1>1, ThreadNames, Zenon DEF Stay, EngineTypes
<1>3. connects' = 0 \/ Quiet' => NoWorker'
  BY <1>2, Zenon DEF NoWorker, Running
<1>4. /\ pc'[User] \in {"stop", "join", "sync_join"} => current' = None \/ closing'[current']
      /\ Quiet' => current' = None \/ (closing'[current'] /\ pc'[Io(current')] = "idle")
  BY <1>1, <1>2
<1>5. \A e \in Engines : Deciding(e)' => current' = e /\ up'[e] \in Over
  BY <1>2, Zenon DEF OrderlyInv, Deciding, Steady
<1>6. \A e \in Engines :
         /\ pc'[Io(e)] = "close_check" => up'[e] \in Over
         /\ kind'[e] = "polling" /\ pc'[Io(e)] \in {"error_check", "error_listen", "open"}
            => up'[e] \in Over
         /\ pc'[Io(e)] = "error_check" => up'[e] \in Over \cup {"open"}
  BY <1>2 DEF OrderlyInv, Steady, Over
<1>7. \A n \in 1 .. MaxWorkers : Pending(n)' =>
          current' # None /\ pc'[Io(current')] = "idle" /\ up'[current'] \in Over
  BY <1>2, Zenon DEF OrderlyInv, Steady, Pending
<1>8. attempts' <= Attempts /\ \A e \in Engines : pc'[Io(e)] = "count" => attempts' < Attempts
  <2>1. CASE attempts' = attempts
    BY <1>2, <2>1, Zenon DEF OrderlyInv
  <2>2. CASE Quiet /\ attempts' = 0
    BY <1>2, <2>2, OneDecides, ClientAssumption DEF Deciding
  <2> QED
    BY <2>1, <2>2
<1> QED
  BY <1>3, <1>4, <1>5, <1>6, <1>7, <1>8, Zenon DEF OrderlyInv, NoWorker

(* A jump of the thread of an engine that was busy.                                            *)
LEMMA OrderlyIo ==
    ASSUME EngineTypes, OrderlyInv, NEW e \in Engines, NEW l \in IoPcs, Goto(Io(e), l), Steady,
           pc[Io(e)] # "idle", l # "error_check", UNCHANGED <<current, call, connects>>,
           Deciding(e)' => current = e /\ up[e] \in Over,
           l = "close_check" \/ (kind[e] = "polling" /\ l \in {"error_listen", "open"}) =>
              up[e] \in Over,
           attempts' = attempts \/ Deciding(e), attempts' <= Attempts,
           l = "count" => attempts' < Attempts
    PROVE  OrderlyInv'
<1>1. pc'[Io(e)] = l /\ Stay({Io(e)})
  BY IoMoves, Zenon DEF EngineTypes
<1>2. /\ \A f \in Engines : f # e => pc'[Io(f)] = pc[Io(f)]
      /\ \A n \in 1 .. MaxWorkers : pc'[Worker(n)] = pc[Worker(n)]
      /\ pc'[User] = pc[User]
      /\ current # None => current \in Engines
  BY <1>1, ThreadNames, Zenon DEF Stay, EngineTypes
<1>3. /\ connects' = 0 => pc'[User] = "idle" /\ current' = None
      /\ connects' = 0 \/ Quiet' => NoWorker'
  BY <1>2, Zenon DEF NoWorker, Running, OrderlyInv, Quiet
<1>4. /\ pc'[User] \in {"stop", "join", "sync_join"} => current' = None \/ closing'[current']
      /\ Quiet' => current' = None \/ (closing'[current'] /\ pc'[Io(current')] = "idle")
  BY <1>2, Zenon DEF OrderlyInv, Quiet, Steady
<1>5. \A f \in Engines : Deciding(f)' => current' = f /\ up'[f] \in Over
  BY <1>2, Zenon DEF OrderlyInv, Deciding, Steady
<1>6. \A f \in Engines :
         /\ pc'[Io(f)] = "close_check" => up'[f] \in Over
         /\ kind'[f] = "polling" /\ pc'[Io(f)] \in {"error_check", "error_listen", "open"}
            => up'[f] \in Over
         /\ pc'[Io(f)] = "error_check" => up'[f] \in Over \cup {"open"}
  BY <1>1, <1>2 DEF OrderlyInv, Steady, Over
<1>7. \A n \in 1 .. MaxWorkers : Pending(n)' =>
          current' # None /\ pc'[Io(current')] = "idle" /\ up'[current'] \in Over
  BY <1>2, Zenon DEF OrderlyInv, Steady, Pending
<1>8. \A f \in Engines : pc'[Io(f)] = "count" => attempts' < Attempts
  BY <1>1, <1>2, OneDecides, Zenon DEF OrderlyInv, Deciding
<1> QED
  BY <1>3, <1>4, <1>5, <1>6, <1>7, <1>8, Zenon DEF OrderlyInv, NoWorker

(* A jump of a worker.                                                                        *)
LEMMA OrderlyWorker ==
    ASSUME EngineTypes, OrderlyInv, NEW n \in 1 .. MaxWorkers, NEW l \in WorkerPcs,
           Goto(Worker(n), l), Steady, Running(n), Pending(n)' => Pending(n),
           UNCHANGED <<current, call, connects, attempts>>
    PROVE  OrderlyInv'
<1>1. pc'[Worker(n)] = l /\ Stay({Worker(n)})
  BY WorkerMoves DEF EngineTypes
<1>2. /\ \A f \in Engines : pc'[Io(f)] = pc[Io(f)]
      /\ \A m \in 1 .. MaxWorkers : m # n => pc'[Worker(m)] = pc[Worker(m)]
      /\ pc'[User] = pc[User]
      /\ current # None => current \in Engines
  BY <1>1, ThreadNames, Zenon DEF Stay, EngineTypes
<1>3. /\ connects' = 0 => pc'[User] = "idle" /\ current' = None
      /\ connects' = 0 \/ Quiet' => NoWorker'
  BY <1>2, Zenon DEF NoWorker, Running, OrderlyInv, Quiet
<1>4. /\ pc'[User] \in {"stop", "join", "sync_join"} => current' = None \/ closing'[current']
      /\ Quiet' => current' = None \/ (closing'[current'] /\ pc'[Io(current')] = "idle")
  BY <1>2, Zenon DEF OrderlyInv, Quiet, Steady
<1>5. \A f \in Engines : Deciding(f)' => current' = f /\ up'[f] \in Over
  BY <1>2 DEF OrderlyInv, Deciding, Steady
<1>6. \A f \in Engines :
         /\ pc'[Io(f)] = "close_check" => up'[f] \in Over
         /\ kind'[f] = "polling" /\ pc'[Io(f)] \in {"error_check", "error_listen", "open"}
            => up'[f] \in Over
         /\ pc'[Io(f)] = "error_check" => up'[f] \in Over \cup {"open"}
  BY <1>2 DEF OrderlyInv, Steady, Over
<1>7. \A m \in 1 .. MaxWorkers : Pending(m)' =>
          current' # None /\ pc'[Io(current')] = "idle" /\ up'[current'] \in Over
  BY <1>2, Zenon DEF OrderlyInv, Steady, Pending
<1>8. attempts' <= Attempts /\ \A f \in Engines : pc'[Io(f)] = "count" => attempts' < Attempts
  BY <1>2, Zenon DEF OrderlyInv
<1> QED
  BY <1>3, <1>4, <1>5, <1>6, <1>7, <1>8, Zenon DEF OrderlyInv, NoWorker

(* An engine reports on a thread that was idle: it is not the engine of a client at rest, and  *)
(* not one a worker is about to replace.                                                      *)
LEMMA OrderlyReport ==
    ASSUME EngineTypes, OrderlyInv, NEW e \in Engines, NEW from, NEW to, NEW label,
           label \in {"open_check", "error_check", "close_check"},
           from \subseteq {"connecting", "open", "half"}, Report(e, from, to, label),
           label = "close_check" => to \in Over,
           label = "error_check" => to \in Over \/ (to = "open" /\ kind[e] # "polling")
    PROVE  OrderlyInv'
<1>0. Goto(Io(e), label) /\ label \in IoPcs
  BY Zenon DEF Report, IoPcs
<1>1. pc'[Io(e)] = label /\ Stay({Io(e)}) /\ pc[Io(e)] = "idle"
  <2>1. PcOK /\ pc[Io(e)] = "idle"
    BY Zenon DEF EngineTypes, Report
  <2> QED
    BY <1>0, <2>1, IoMoves, Zenon
<1>2. /\ \A f \in Engines : f # e => pc'[Io(f)] = pc[Io(f)] /\ up'[f] = up[f]
      /\ \A m \in 1 .. MaxWorkers : pc'[Worker(m)] = pc[Worker(m)]
      /\ pc'[User] = pc[User] /\ up'[e] = to /\ ~closing[e] /\ up[e] \notin Over
      /\ current # None => current \in Engines
      /\ UNCHANGED <<closing, kind, current, call, connects, attempts>>
  <2>1. /\ \A f \in Engines : f # e => pc'[Io(f)] = pc[Io(f)]
        /\ \A m \in 1 .. MaxWorkers : pc'[Worker(m)] = pc[Worker(m)]
        /\ pc'[User] = pc[User]
    BY <1>1, ThreadNames, Zenon DEF Stay
  <2>2. /\ \A f \in Engines : f # e => up'[f] = up[f]
        /\ up'[e] = to
    BY DEF Report, Set, EngineTypes
  <2>3. /\ ~closing[e] /\ up[e] \in {"connecting", "open", "half"}
        /\ UNCHANGED <<closing, kind, current, call, connects, attempts>>
    BY Zenon DEF Report, sharedVars
  <2>4. up[e] \notin Over
    BY <2>3 DEF Over
  <2> QED
    BY <2>1, <2>2, <2>3, <2>4, Zenon DEF EngineTypes
<1>3. /\ connects' = 0 => pc'[User] = "idle" /\ current' = None
      /\ connects' = 0 \/ Quiet' => NoWorker'
  <2>1. (connects' = 0 => connects = 0) /\ (Quiet' => Quiet)
    BY <1>2, Zenon DEF Quiet
  <2>2. NoWorker => NoWorker'
    BY <1>2, Zenon DEF NoWorker, Running
  <2> QED
    BY <1>2, <2>1, <2>2, Zenon DEF OrderlyInv, NoWorker
<1>4. /\ pc'[User] \in {"stop", "join", "sync_join"} => current' = None \/ closing'[current']
      /\ Quiet' => current' = None \/ (closing'[current'] /\ pc'[Io(current')] = "idle")
  BY <1>2 DEF OrderlyInv, Quiet
<1>5. \A f \in Engines : Deciding(f)' => current' = f /\ up'[f] \in Over
  BY <1>1, <1>2, Zenon DEF OrderlyInv, Deciding
<1>6. \A f \in Engines :
         /\ pc'[Io(f)] = "close_check" => up'[f] \in Over
         /\ kind'[f] = "polling" /\ pc'[Io(f)] \in {"error_check", "error_listen", "open"}
            => up'[f] \in Over
         /\ pc'[Io(f)] = "error_check" => up'[f] \in Over \cup {"open"}
  BY <1>1, <1>2 DEF OrderlyInv
<1>7. \A m \in 1 .. MaxWorkers : Pending(m)' =>
          current' # None /\ pc'[Io(current')] = "idle" /\ up'[current'] \in Over
  BY <1>1, <1>2, Zenon DEF OrderlyInv, Pending
<1>8. attempts' <= Attempts /\ \A f \in Engines : pc'[Io(f)] = "count" => attempts' < Attempts
  BY <1>1, <1>2 DEF OrderlyInv
<1> QED
  BY <1>3, <1>4, <1>5, <1>6, <1>7, <1>8, Zenon DEF OrderlyInv, NoWorker

(* A worker is started by the thread that decides, which is then done.                          *)
LEMMA OrderlySpawn ==
    ASSUME EngineTypes, OrderlyInv, NEW e \in Engines, Spawn(e), Deciding(e), spawned \in Nat,
           UNCHANGED <<current, call, connects, attempts, up, kind, closing>>
    PROVE  OrderlyInv'
<1>0. PcOK
  BY Zenon DEF EngineTypes
<1>1. PICK n \in 1 .. MaxWorkers : pc'[Worker(n)] = "wait" /\ Stay({Io(e), Worker(n)})
  BY <1>0, SpawnMoves, ZenonT(30)
<1>2. /\ \A f \in Engines : f # e => pc'[Io(f)] = pc[Io(f)]
      /\ \A m \in 1 .. MaxWorkers : m # n => pc'[Worker(m)] = pc[Worker(m)]
      /\ pc'[User] = pc[User] /\ pc'[Io(e)] = "idle"
  BY <1>1, ThreadNames, SpawnMoves DEF Stay, EngineTypes
<1>3. /\ current = e /\ up[e] \in Over /\ connects # 0 /\ ~Quiet /\ current # None
      /\ \A m \in 1 .. MaxWorkers : ~Pending(m)
  BY OneDecides DEF Engines, None
<1>4. connects' # 0 /\ ~Quiet'
  BY <1>2, <1>3, Zenon DEF Quiet
<1>5. \A f \in Engines : Deciding(f)' => current' = f /\ up'[f] \in Over
  BY <1>2, Zenon DEF OrderlyInv, Deciding
<1>6. \A f \in Engines :
         /\ pc'[Io(f)] = "close_check" => up'[f] \in Over
         /\ kind'[f] = "polling" /\ pc'[Io(f)] \in {"error_check", "error_listen", "open"}
            => up'[f] \in Over
         /\ pc'[Io(f)] = "error_check" => up'[f] \in Over \cup {"open"}
  BY <1>2, Zenon DEF OrderlyInv
<1>7. current' # None /\ pc'[Io(current')] = "idle" /\ up'[current'] \in Over
  BY <1>2, <1>3, Zenon
<1>8. attempts' <= Attempts /\ \A f \in Engines : pc'[Io(f)] = "count" => attempts' < Attempts
  BY <1>2, Zenon DEF OrderlyInv
<1>9. pc'[User] \in {"stop", "join", "sync_join"} => current' = None \/ closing'[current']
  BY <1>2, Zenon DEF OrderlyInv
<1> QED
  BY <1>4, <1>5, <1>6, <1>7, <1>8, <1>9, Zenon DEF OrderlyInv

(* An engine is installed by the only thread that can replace it: afterwards nobody decides,     *)
(* no worker waits to replace it and the application is not at rest.                            *)
LEMMA OrderlyInstall ==
    ASSUME EngineTypes, OrderlyInv, WorkerInv, NEW t \in Threads, InstallEngineio(t), ~intentional
    PROVE  OrderlyInv'
<1> DEFINE After == /\ connects # 0 /\ ~Quiet'
                    /\ pc'[User] \notin {"stop", "join", "sync_join"}
                    /\ \A f \in Engines : ~Deciding(f)'
                    /\ \A m \in 1 .. MaxWorkers : ~Pending(m)'
                    /\ \A f \in Engines : \/ pc'[Io(f)] = pc[Io(f)]
                                          \/ pc'[Io(f)] = "open" /\ up[f] \in Over
<1>1. /\ \A f \in Engines : up'[f] \in {up[f], "closed"}
      /\ UNCHANGED <<kind, closing, attempts, connects, call, intentional>>
      /\ pc[t] = "install"
  BY Zenon DEF InstallEngineio, Release, Set, EngineTypes
<1>2. /\ current # None => current \in Engines
      /\ pc[User] \notin {"stop", "join", "sync_join"}
      /\ \A n, m \in 1 .. MaxWorkers : Running(n) /\ Running(m) => n = m
  <2>1. pc[User] \notin {"stop", "join", "sync_join"} /\ joins = Nobody
    BY Zenon DEF WorkerInv, ShutPcs
  <2> QED
    BY <2>1, ThreadNames DEF WorkerInv, OneWorker, EngineTypes
<1>3. ASSUME t = User PROVE After
  <2>1. Goto(User, "open") /\ "open" \in UserPcs
    BY <1>3, ThreadNames, Zenon DEF InstallEngineio, UserPcs
  <2>2. pc'[User] = "open" /\ Stay({User})
    BY <2>1, UserMoves, Zenon DEF EngineTypes
  <2>3. /\ \A f \in Engines : pc'[Io(f)] = pc[Io(f)]
        /\ \A m \in 1 .. MaxWorkers : pc'[Worker(m)] = pc[Worker(m)]
    BY <2>2, ThreadNames, Zenon DEF Stay
  <2>4. Quiet /\ connects # 0
    BY <1>1, <1>3 DEF Quiet, OrderlyInv
  <2>5. \A f \in Engines : ~Deciding(f)
    BY <2>4, OneDecides, Zenon
  <2>6. \A m \in 1 .. MaxWorkers : ~Pending(m)
    BY <2>4, Zenon DEF OrderlyInv, Running, Pending
  <2> QED
    BY <2>2, <2>3, <2>4, <2>5, <2>6 DEF Quiet, Deciding, Pending
<1>4. ASSUME NEW e \in Engines, t = Io(e) PROVE After
  <2>1. Goto(Io(e), "open") /\ "open" \in IoPcs
    BY <1>4, ThreadNames, Zenon DEF InstallEngineio, IoPcs
  <2>2. pc'[Io(e)] = "open" /\ Stay({Io(e)})
    BY <2>1, IoMoves DEF EngineTypes
  <2>3. /\ \A f \in Engines : f # e => pc'[Io(f)] = pc[Io(f)]
        /\ \A m \in 1 .. MaxWorkers : pc'[Worker(m)] = pc[Worker(m)]
        /\ pc'[User] = pc[User]
    BY <2>2, ThreadNames, Zenon DEF Stay
  <2>4. Deciding(e)
    BY <1>1, <1>4 DEF Deciding
  <2>5. /\ up[e] \in Over /\ connects # 0 /\ ~Quiet
        /\ \A f \in Engines : Deciding(f) => f = e
        /\ \A n \in 1 .. MaxWorkers : ~Pending(n)
    BY <2>4, OneDecides, Zenon
  <2> QED
    BY <1>1, <1>2, <2>2, <2>3, <2>5 DEF Quiet, Deciding, Pending
<1>5. ASSUME NEW n \in 1 .. MaxWorkers, t = Worker(n) PROVE After
  <2>1. Goto(Worker(n), "reconnecting") /\ "reconnecting" \in WorkerPcs
    BY <1>5, ThreadNames, Zenon DEF InstallEngineio, WorkerPcs
  <2>2. pc'[Worker(n)] = "reconnecting" /\ Stay({Worker(n)})
    BY <2>1, WorkerMoves DEF EngineTypes
  <2>3. /\ \A f \in Engines : pc'[Io(f)] = pc[Io(f)]
        /\ \A m \in 1 .. MaxWorkers : m # n => pc'[Worker(m)] = pc[Worker(m)]
        /\ pc'[User] = pc[User]
    BY <2>2, ThreadNames, Zenon DEF Stay
  <2>4. Running(n) /\ Pending(n)
    BY <1>1, <1>5 DEF Running, Pending
  <2>5. connects # 0 /\ ~Quiet /\ \A f \in Engines : ~Deciding(f)
    BY <2>4, OneDecides, Zenon DEF OrderlyInv
  <2>6. \A m \in 1 .. MaxWorkers : Pending(m) => m = n
    BY <1>2, <2>4 DEF Running, Pending
  <2> QED
    BY <1>1, <1>2, <2>2, <2>3, <2>5, <2>6 DEF Quiet, Deciding, Pending
<1>6. After
  BY <1>3, <1>4, <1>5, ThreadNames, Zenon
<1>7. \A f \in Engines :
         /\ pc'[Io(f)] = "close_check" => up'[f] \in Over
         /\ kind'[f] = "polling" /\ pc'[Io(f)] \in {"error_check", "error_listen", "open"}
            => up'[f] \in Over
         /\ pc'[Io(f)] = "error_check" => up'[f] \in Over \cup {"open"}
         /\ pc'[Io(f)] = "count" => attempts' < Attempts
  BY <1>1, <1>6 DEF OrderlyInv, Over
<1>8. connects' # 0 /\ attempts' <= Attempts
  BY <1>1, <1>6, Zenon DEF OrderlyInv
<1> QED
  BY <1>6, <1>7, <1>8, Zenon DEF OrderlyInv

(* What the other steps on engines do to them.                                                 *)
LEMMA SteadySteps ==
    ASSUME EngineTypes, EngineInv, kind \in [Engines -> {"ws", "polling"}], NEW t \in Threads
    PROVE  /\ EnsureEngineio(t) => Steady
           /\ InstallEngineio(t) => Steady
           /\ OpenEngineio(t) => Steady
           /\ CloseEngine(t) => Steady
           /\ UNCHANGED <<up, kind, closing>> => Steady
<1>1. ASSUME EnsureEngineio(t) PROVE Steady
  <2>1. made + 1 \in Engines /\ made + 1 > made
    BY <1>1, ClientAssumption DEF EnsureEngineio, EngineTypes, Engines
  <2>2. up[made + 1] = "unused" /\ pc[Io(made + 1)] = "idle"
    BY <2>1, Zenon DEF EngineInv
  <2> QED
    BY <1>1, <2>1, <2>2, Zenon DEF EnsureEngineio, Set, EngineTypes, Steady, Over
<1>2. ASSUME InstallEngineio(t) PROVE Steady
  BY <1>2 DEF InstallEngineio, Release, Set, EngineTypes, Steady, Over
<1>3. ASSUME OpenEngineio(t) PROVE Steady
  <2>1. /\ UNCHANGED <<kind, closing>>
        /\ \A f \in Engines : up'[f] = up[f] \/ (f = mine[t] /\ ~closing[mine[t]])
    BY <1>3, Zenon DEF OpenEngineio, Set, EngineTypes
  <2>2. \A f \in Engines : f = mine[t] /\ ~closing[mine[t]] => up[f] = "new" /\ pc[Io(f)] = "idle"
    BY DEF EngineInv, Engines, None
  <2> QED
    BY <2>1, <2>2, Zenon DEF Steady, Over
<1>4. ASSUME CloseEngine(t) PROVE Steady
  BY <1>4, Zenon DEF CloseEngine, Set, EngineTypes, Steady, Over
<1>5. ASSUME UNCHANGED <<up, kind, closing>> PROVE Steady
  BY <1>5, Zenon DEF Steady
<1> QED
  BY <1>1, <1>2, <1>3, <1>4, <1>5

(* With no quirk of the environment, every step keeps the client orderly: the application's      *)
(* own steps ...                                                                               *)
LEMMA OrderlyUserStep ==
    ASSUME Quirks = {}, TypeOK, WorkerInv, EngineInv, OrderlyInv,
           Connect \/ Close("close") \/ Close("sync") \/ UserRuns
    PROVE  OrderlyInv'
<1>0. EngineTypes /\ PcOK /\ kind \in [Engines -> {"ws", "polling"}] /\ connects \in Nat
      /\ attempts \in Nat /\ (current # None => current \in Engines)
  BY ClientAssumption DEF TypeOK, EngineTypes, PcOK
<1>00. /\ EnsureEngineio(User) \/ InstallEngineio(User) \/ OpenEngineio(User)
             \/ CloseEngine(User) => Steady
       /\ UNCHANGED <<up, kind, closing>> => Steady
  BY <1>0, SteadySteps, ThreadNames
<1>000. ASSUME NEW l \in {"idle", "close_flag", "close_sockets", "close_engine"}, Goto(User, l)
        PROVE  ~Quiet' /\ l \in UserPcs /\ l \notin {"stop", "join", "sync_join"}
  <2>1. l \in UserPcs
    BY DEF UserPcs
  <2>2. pc'[User] = l
    BY <1>0, <1>000, <2>1, UserMoves, Zenon
  <2> QED
    BY <2>1, <2>2 DEF Quiet
<1> USE <1>0 DEF sharedVars, engineVars, callVars
<1>1. CASE Connect
  <2>1. Steady /\ UNCHANGED <<current, closing, attempts>> /\ connects' # 0 /\ call' = "connect"
    BY <1>1, <1>00 DEF Connect
  <2>2. PICK l \in {"stop", "reset"} : Goto(User, l)
    BY <1>1 DEF Connect
  <2>3. NoWorker /\ Settled
    BY <1>1, Zenon DEF Connect, OrderlyInv, Quiet, NoWorker, Settled
  <2>4. l \in UserPcs
    BY Zenon DEF UserPcs
  <2> QED
    BY <2>1, <2>2, <2>3, <2>4, OrderlyUser, Zenon DEF Settled
<1>2. CASE Close("close") \/ Close("sync")
  <2>1. UNCHANGED <<current, up, kind, closing, attempts, connects>> /\ Goto(User, "close_flag")
    BY <1>2, Zenon DEF Close
  <2>2. connects # 0
    BY <1>2 DEF Close
  <2>3. Steady
    BY <1>00, <2>1
  <2> QED
    BY <1>000, <2>1, <2>2, <2>3, OrderlyUser, Zenon
<1>3. ASSUME UserRuns PROVE connects # 0
  BY <1>3, Zenon DEF UserRuns, ConnectReset, ConnectMode, Engine, EnsureEngineio, InstallEngineio,
       OpenEngineio, Closing, CloseFlag, CloseSockets, CloseEngine, StopReconnectThread,
       JoinReconnectThread, SyncJoin, OrderlyInv
<1>4. CASE ConnectReset \/ ConnectMode \/ EnsureEngineio(User)
  <2>1. /\ UNCHANGED <<current, closing, connects>> /\ Quiet
        /\ attempts' = attempts \/ attempts' = 0
        /\ \E l \in {"mode", "ensure", "install"} : Goto(User, l)
    BY <1>4 DEF ConnectReset, ConnectMode, EnsureEngineio, Quiet
  <2>2. Steady /\ connects' # 0
    BY <1>3, <1>4, <1>00, <2>1, Zenon DEF ConnectReset, ConnectMode, UserRuns, Engine
  <2>3. PICK l \in {"mode", "ensure", "install"} : Goto(User, l)
    BY <2>1
  <2>4. l \in UserPcs
    BY DEF UserPcs
  <2>5. NoWorker /\ Settled
    BY <2>1, Zenon DEF OrderlyInv, NoWorker, Settled
  <2> QED
    BY <2>1, <2>2, <2>3, <2>4, <2>5, OrderlyUser, Zenon DEF Settled
<1>5. CASE InstallEngineio(User)
  <2>1. CASE intentional
    <3>1. /\ Steady /\ UNCHANGED <<current, closing, attempts>> /\ connects' # 0
          /\ Goto(User, "idle")
      BY <1>3, <1>5, <1>00, <2>1, ThreadNames, Zenon DEF InstallEngineio, Done, UserRuns, Engine
    <3> QED
      BY <1>000, <3>1, OrderlyUser, Zenon
  <2> QED
    BY <1>5, <2>1, OrderlyInstall, ThreadNames, Zenon
<1>6. CASE OpenEngineio(User)
  <2>1. /\ Steady /\ UNCHANGED <<current, closing, attempts>> /\ connects' # 0
        /\ Goto(User, "idle")
    BY <1>3, <1>6, <1>00, ThreadNames, Zenon DEF OpenEngineio, Done, UserRuns, Engine
  <2> QED
    BY <1>000, <2>1, OrderlyUser
<1>7. CASE CloseFlag(User) \/ CloseSockets(User)
  <2>0. connects # 0
    BY <1>3, <1>7, Zenon DEF UserRuns, Closing
  <2>1. UNCHANGED <<current, up, kind, closing, attempts, connects>>
    BY <1>7, Zenon DEF CloseFlag, CloseSockets
  <2>2. PICK l \in {"close_sockets", "close_engine"} : Goto(User, l)
    BY <1>7 DEF CloseFlag, CloseSockets
  <2>3. Steady
    BY <1>00, <2>1, Zenon
  <2> QED
    BY <1>000, <2>0, <2>1, <2>2, <2>3, OrderlyUser
<1>8. CASE CloseEngine(User)
  <2>1. /\ Steady /\ UNCHANGED <<current, attempts, call>> /\ connects' # 0
        /\ current = None \/ closing'[current]
    BY <1>3, <1>8, <1>00, Zenon DEF CloseEngine, UserRuns, Closing, Set, EngineTypes
  <2>2. PICK l \in {"stop", "idle"} : Goto(User, l) /\ (l = "stop" => call = "sync")
    BY <1>8, Zenon DEF CloseEngine
  <2>3. l \in UserPcs
    BY Zenon DEF UserPcs
  <2>4. ~Quiet'
    BY <2>1, <2>2, <2>3, UserMoves, Zenon DEF Quiet
  <2> QED
    BY <2>1, <2>2, <2>3, <2>4, OrderlyUser
<1>9. CASE StopReconnectThread
  <2>1. /\ Steady /\ UNCHANGED <<current, closing, attempts, call>> /\ connects' # 0
        /\ Goto(User, "join") /\ "join" \in UserPcs /\ pc[User] = "stop"
    BY <1>3, <1>9, <1>00, Zenon DEF StopReconnectThread, UserPcs, UserRuns
  <2>2. Quiet' => Quiet
    BY <2>1, UserMoves, Zenon DEF Quiet
  <2>3. /\ current = None \/ closing[current]
        /\ Quiet' => NoWorker /\ Settled
    BY <2>1, <2>2, Zenon DEF OrderlyInv, NoWorker, Settled
  <2> QED
    BY <2>1, <2>3, OrderlyUser DEF Settled
<1>10. CASE JoinReconnectThread
  <2>1. /\ Steady /\ UNCHANGED <<current, closing, attempts, call>> /\ connects' # 0
        /\ pc[User] = "join"
    BY <1>3, <1>10, <1>00, Zenon DEF JoinReconnectThread, UserRuns
  <2>2. PICK l \in {"reset", "sync_join"} : Goto(User, l) /\ (l = "reset" => call = "connect")
    BY <1>10 DEF JoinReconnectThread
  <2>3. l \in UserPcs
    BY Zenon DEF UserPcs
  <2>4. Quiet' => Quiet
    BY <2>1, <2>2, <2>3, UserMoves, Zenon DEF Quiet
  <2>5. /\ current = None \/ closing[current]
        /\ Quiet' => NoWorker /\ Settled
    BY <2>1, <2>4, Zenon DEF OrderlyInv, NoWorker, Settled
  <2> QED
    BY <2>1, <2>2, <2>3, <2>5, OrderlyUser, Zenon DEF Settled
<1>11. CASE SyncJoin
  <2>1. /\ Steady /\ UNCHANGED <<current, closing, attempts, call>> /\ connects' # 0
        /\ Goto(User, "synced") /\ "synced" \in UserPcs /\ pc[User] = "sync_join"
        /\ current # None => pc[Io(current)] = "idle"
    BY <1>3, <1>11, <1>00, Zenon DEF SyncJoin, UserPcs, UserRuns
  <2>2. reconnect = Nobody /\ joins = Nobody
    BY <2>1, Zenon DEF WorkerInv
  <2>3. NoWorker
    BY <2>2, ThreadNames DEF WorkerInv, OneWorker, NoWorker
  <2>4. current = None \/ closing[current]
    BY <2>1, Zenon DEF OrderlyInv
  <2> QED
    BY <2>1, <2>3, <2>4, OrderlyUser, Zenon
<1> QED
  BY <1>1, <1>2, <1>4, <1>5, <1>6, <1>7, <1>8, <1>9, <1>10, <1>11, Zenon DEF UserRuns, Engine, Closing

(* ... the steps of the threads of the engines ...                                              *)
LEMMA OrderlyIoStep ==
    ASSUME TypeOK, WorkerInv, EngineInv, OrderlyInv, NEW e \in Engines, IoRuns(e)
    PROVE  OrderlyInv'
<1>0. EngineTypes /\ PcOK /\ kind \in [Engines -> {"ws", "polling"}] /\ spawned \in Nat
      /\ attempts \in Nat /\ Attempts \in Nat /\ attempts <= Attempts
  BY ClientAssumption DEF TypeOK, EngineTypes, PcOK, OrderlyInv
<1>00. /\ EnsureEngineio(Io(e)) \/ InstallEngineio(Io(e)) \/ OpenEngineio(Io(e))
             \/ CloseEngine(Io(e)) => Steady
       /\ UNCHANGED <<up, kind, closing>> => Steady
  BY <1>0, SteadySteps, ThreadNames, Zenon
<1> USE <1>0 DEF sharedVars, engineVars, callVars
\* A thread that decides goes on deciding, or is done with it.
<1>1. ASSUME Deciding(e), Steady, UNCHANGED <<current, call, connects>>, attempts' <= Attempts,
             NEW l \in IoPcs, l # "error_check", Goto(Io(e), l),
             l = "count" => attempts' < Attempts
      PROVE  OrderlyInv'
  <2>1. current = e /\ up[e] \in Over /\ pc[Io(e)] # "idle"
    BY <1>1, OneDecides, Zenon DEF Deciding
  <2> QED
    BY <1>1, <2>1, OrderlyIo, Zenon
<1>2. CASE HandleOpen(e) \/ OnEngineioOpen(e)
  <2>1. /\ Steady /\ UNCHANGED <<current, call, connects, attempts>> /\ pc[Io(e)] # "idle"
        /\ \E l \in {"open_connect", "idle"} : Goto(Io(e), l)
    BY <1>2, <1>00, Zenon DEF HandleOpen, OnEngineioOpen
  <2>2. PICK l \in {"open_connect", "idle"} : Goto(Io(e), l)
    BY <2>1, Zenon
  <2>3. l \in IoPcs /\ ~Deciding(e)'
    BY <2>2, IoMoves, Zenon DEF IoPcs, Deciding
  <2> QED
    BY <2>1, <2>2, <2>3, OrderlyIo, Zenon
<1>3. CASE HandleError(e)
  <2>1. /\ Steady /\ UNCHANGED <<current, call, connects, attempts>>
        /\ pc[Io(e)] = "error_check"
    BY <1>3, <1>00, Zenon DEF HandleError
  <2>2. PICK l \in {"close_check", "idle", "error_listen", "fallback"} :
            /\ Goto(Io(e), l)
            /\ l = "close_check" => kind[e] = "polling"
            /\ l = "fallback" => current = e /\ up[e] # "open"
    BY <1>3 DEF HandleError, AfterError, IsOpen
  <2>3. l \in IoPcs
    BY Zenon DEF IoPcs
  <2>4. pc'[Io(e)] = l
    BY <2>2, <2>3, IoMoves, Zenon
  <2>5. /\ Deciding(e)' => current = e /\ up[e] \in Over
        /\ l = "close_check" \/ (kind[e] = "polling" /\ l \in {"error_listen", "open"})
              => up[e] \in Over
    BY <2>1, <2>2, <2>4, Zenon DEF Deciding, OrderlyInv
  <2> QED
    BY <2>1, <2>2, <2>3, <2>5, OrderlyIo, Zenon
<1>4. CASE ActivatePollingFallback(e)
  <2>1. /\ Steady /\ UNCHANGED <<current, call, connects, attempts>> /\ Deciding(e)
        /\ Goto(Io(e), "error_listen") \/ Goto(Io(e), "ensure")
    BY <1>4, <1>00, Zenon DEF ActivatePollingFallback, Deciding
  <2> QED
    BY <1>1, <2>1, Zenon DEF IoPcs
<1>5. CASE EnsureEngineio(Io(e))
  <2>1. /\ Steady /\ UNCHANGED <<current, call, connects, attempts>> /\ Deciding(e)
        /\ Goto(Io(e), "install")
    BY <1>5, <1>00, Zenon DEF EnsureEngineio, Deciding
  <2> QED
    BY <1>1, <2>1 DEF IoPcs
<1>6. CASE InstallEngineio(Io(e))
  <2>1. CASE intentional
    <3>1. /\ Steady /\ UNCHANGED <<current, call, connects, attempts>> /\ Deciding(e)
          /\ Goto(Io(e), "error_listen")
      BY <1>6, <1>00, <2>1, ThreadNames, Zenon DEF InstallEngineio, Deciding, Done
    <3> QED
      BY <1>1, <3>1 DEF IoPcs
  <2> QED
    BY <1>6, <2>1, OrderlyInstall, ThreadNames, Zenon
<1>7. CASE OpenEngineio(Io(e)) \/ ErrorListener(e)
  <2>1. /\ Steady /\ UNCHANGED <<current, call, connects, attempts>>
        /\ pc[Io(e)] \in {"open", "error_listen"}
    BY <1>7, <1>00, Zenon DEF OpenEngineio, ErrorListener
  <2>2. PICK l \in {"error_listen", "close_check", "idle"} :
            Goto(Io(e), l) /\ (l = "close_check" => kind[e] = "polling")
    BY <1>7, ThreadNames DEF OpenEngineio, ErrorListener, Done, AfterError
  <2>3. l \in IoPcs
    BY Zenon DEF IoPcs
  <2>4. pc'[Io(e)] = l
    BY <2>2, <2>3, IoMoves, Zenon
  <2>5. ~Deciding(e)' /\ (kind[e] = "polling" => up[e] \in Over)
    BY <2>1, <2>2, <2>4, Zenon DEF Deciding, OrderlyInv
  <2> QED
    BY <2>1, <2>2, <2>3, <2>5, OrderlyIo
<1>8. CASE HandleClose(e)
  <2>1. /\ Steady /\ UNCHANGED <<current, call, connects, attempts>>
        /\ pc[Io(e)] = "close_check" /\ up[e] \in Over
    BY <1>8, <1>00, Zenon DEF HandleClose, OrderlyInv
  <2>2. PICK l \in {"close_mark", "idle"} : Goto(Io(e), l) /\ (l = "close_mark" => current = e)
    BY <1>8 DEF HandleClose
  <2>3. l \in IoPcs
    BY Zenon DEF IoPcs
  <2>4. pc'[Io(e)] = l
    BY <2>2, <2>3, IoMoves
  <2>5. Deciding(e)' => current = e
    BY <2>2, <2>4, Zenon DEF Deciding
  <2> QED
    BY <2>1, <2>2, <2>3, <2>5, OrderlyIo
<1>9. CASE MarkSockets(e) \/ DisconnectListener(e) \/ CloseListener(e) \/ CloseDecide(e)
  <2>1. /\ Steady /\ UNCHANGED <<current, call, connects, attempts>> /\ Deciding(e)
        /\ \E l \in {"on_disconnect", "on_close", "close_flag", "close_decide", "schedule", "idle"} :
              Goto(Io(e), l)
    BY <1>9, <1>00, Zenon DEF MarkSockets, DisconnectListener, CloseListener, CloseDecide, Deciding
  <2> QED
    BY <1>1, <2>1, Zenon DEF IoPcs
<1>10. CASE Closing(Io(e))
  <2>1. /\ UNCHANGED <<current, call, connects, attempts>> /\ Deciding(e)
        /\ \E l \in {"close_sockets", "close_engine", "close_decide"} : Goto(Io(e), l)
    BY <1>10, ThreadNames, Zenon DEF Closing, CloseFlag, CloseSockets, CloseEngine, Deciding
  <2>2. Steady
    BY <1>10, <1>00, Zenon DEF Closing, CloseFlag, CloseSockets
  <2> QED
    BY <1>1, <2>1, <2>2 DEF IoPcs
<1>11. CASE ScheduleReconnect(e)
  <2>1. /\ Steady /\ UNCHANGED <<current, call, connects, attempts>> /\ Deciding(e)
        /\ \E l \in {"count", "idle"} : Goto(Io(e), l) /\ (l = "count" => attempts < Attempts)
    BY <1>11, <1>00 DEF ScheduleReconnect, Deciding
  <2> QED
    BY <1>1, <2>1, Zenon DEF IoPcs
<1>12. CASE CountAttempt(e)
  <2>1. /\ Steady /\ UNCHANGED <<current, call, connects>> /\ Deciding(e)
        /\ Goto(Io(e), "schedule_lock") /\ attempts' = attempts + 1 /\ pc[Io(e)] = "count"
    BY <1>12, <1>00, Zenon DEF CountAttempt, Deciding
  <2>2. attempts < Attempts
    BY <2>1, Zenon DEF OrderlyInv
  <2>3. attempts' <= Attempts
    BY <2>1, <2>2
  <2> QED
    BY <1>1, <2>1, <2>3, Zenon DEF IoPcs
<1>13. CASE ScheduleLocked(e) \/ Reap(e)
  <2>1. /\ Steady /\ UNCHANGED <<current, call, connects, attempts, up, kind, closing>>
        /\ Deciding(e)
        /\ Goto(Io(e), "idle") \/ Goto(Io(e), "reap") \/ Spawn(e)
    BY <1>13, <1>00, Zenon DEF ScheduleLocked, Reap, Deciding
  <2> QED
    BY <1>1, <2>1, OrderlySpawn, Zenon DEF IoPcs
<1> QED
  BY <1>2, <1>3, <1>4, <1>5, <1>6, <1>7, <1>8, <1>9, <1>10, <1>11, <1>12, <1>13, Zenon
     DEF IoRuns, Engine

(* ... and every other.                                                                        *)
LEMMA OrderlyStep ==
    ASSUME Quirks = {}, TypeOK, WorkerInv, EngineInv, OrderlyInv, NoHalf, [Next]_vars
    PROVE  OrderlyInv'
<1>0. EngineTypes /\ PcOK /\ kind \in [Engines -> {"ws", "polling"}]
  BY Zenon DEF TypeOK, EngineTypes, PcOK
<1>1. ASSUME NEW e \in Engines, Events(e) PROVE OrderlyInv'
  <2>1. CASE Handshake(e)
    BY <1>0, <2>1, OrderlyReport, Zenon DEF Handshake
  <2>2. CASE ConnectFails(e)
    BY <1>0, <2>2, OrderlyReport, Zenon DEF ConnectFails, Over
  <2>3. CASE Lost(e)
    BY <1>0, <2>3, OrderlyReport, Zenon DEF Lost, Over
  <2>4. CASE WriteFails(e)
    <3>1. kind[e] # "polling" /\ Report(e, {"open"}, "open", "error_check")
      BY <2>4 DEF WriteFails, NoHalf
    <3> QED
      BY <1>0, <3>1, OrderlyReport, Zenon
  <2> QED
    BY <1>1, <2>1, <2>2, <2>3, <2>4, Zenon DEF Events, LateWriteFails, CloseFrame
<1>2. ASSUME NEW n \in 1 .. MaxWorkers, WorkerRuns(n) PROVE OrderlyInv'
  <2>0. Worker(n) \in Threads /\ Worker(n) \in Workers /\ Worker(n) # User
    BY ThreadNames, Zenon
  <2>00. /\ EnsureEngineio(Worker(n)) \/ InstallEngineio(Worker(n)) \/ OpenEngineio(Worker(n))
              => Steady
         /\ UNCHANGED <<up, kind, closing>> => Steady
    BY <1>0, <2>0, SteadySteps, Zenon
  <2>1. ASSUME NEW l \in WorkerPcs, Goto(Worker(n), l), Steady, Running(n),
               UNCHANGED <<current, call, connects, attempts>>,
               l \in {"wait", "check", "ensure", "install"} => Pending(n)
        PROVE  OrderlyInv'
    <3>1. Pending(n)' => Pending(n)
      <4>1. pc'[Worker(n)] = l
        BY <1>0, <2>1, WorkerMoves, Zenon
      <4> QED
        BY <2>1, <4>1, Zenon DEF Pending
    <3> QED
      BY <1>0, <2>1, <3>1, OrderlyWorker, Zenon
  <2>2. CASE WorkerWait(n) \/ WorkerCheck(n)
    <3>1. /\ Steady /\ UNCHANGED <<current, call, connects, attempts>> /\ Running(n) /\ Pending(n)
          /\ \E l \in {"done", "check", "ensure"} : Goto(Worker(n), l)
      BY <2>2, <2>00 DEF WorkerWait, WorkerCheck, WorkerStep, Running, Pending, sharedVars,
                         engineVars
    <3> QED
      BY <2>1, <3>1, Zenon DEF WorkerPcs
  <2>3. CASE EnsureEngineio(Worker(n))
    <3>1. /\ Steady /\ UNCHANGED <<current, call, connects, attempts>> /\ Running(n) /\ Pending(n)
          /\ Goto(Worker(n), "install")
      BY <2>3, <2>00, Zenon DEF EnsureEngineio, Running, Pending, sharedVars
    <3> QED
      BY <2>1, <3>1 DEF WorkerPcs
  <2>4. CASE InstallEngineio(Worker(n))
    <3>1. CASE intentional
      <4>1. /\ Steady /\ UNCHANGED <<current, call, connects, attempts>> /\ Running(n)
            /\ Goto(Worker(n), "done")
        BY <2>0, <2>4, <2>00, <3>1, Zenon DEF InstallEngineio, Running, Done
      <4> QED
        BY <2>1, <4>1 DEF WorkerPcs
    <3> QED
      BY <1>0, <2>0, <2>4, <3>1, OrderlyInstall, Zenon
  <2>5. CASE OpenEngineio(Worker(n)) \/ WorkerReconnecting(n)
    <3>1. /\ Steady /\ UNCHANGED <<current, call, connects, attempts>> /\ Running(n)
          /\ \E l \in {"done", "open"} : Goto(Worker(n), l)
      BY <2>0, <2>5, <2>00 DEF OpenEngineio, WorkerReconnecting, WorkerStep, Running, Done,
                               sharedVars, engineVars
    <3> QED
      BY <2>1, <3>1 DEF WorkerPcs
  <2> QED
    BY <1>2, <2>2, <2>3, <2>4, <2>5, Zenon DEF WorkerRuns, Engine
<1>3. CASE UNCHANGED vars \/ \E nsp \in Namespaces : Socket(nsp)
  <2>1. UNCHANGED <<current, call, connects, attempts, up, kind, closing, pc>>
    BY <1>3, Zenon DEF vars, Socket, sharedVars, engineVars, callVars
  <2> QED
    BY <2>1, Zenon DEF OrderlyInv, Quiet, Running, Deciding, Pending
<1> QED
  BY <1>1, <1>2, <1>3, OrderlyUserStep, OrderlyIoStep, Zenon DEF Next
-----------------------------------------------------------------------------
(* What a step on the engines, or the start of a worker, does to the types.                    *)
LEMMA EngineTyped ==
    ASSUME TypeOK, NEW t \in Threads, Engine(t)
    PROVE  /\ made' \in 0 .. MaxEngines /\ current' \in Engines \cup {None}
           /\ kind' \in [Engines -> {"ws", "polling"}] /\ up' \in [Engines -> Connections]
           /\ mine' \in [Threads -> Engines \cup {None}]
           /\ UNCHANGED <<force, intentional, polling, attempts, sockets, reconnect, rlock, slock,
                          closing, announced, spawned, joins, call, connects, shut>>
<1>0. /\ made \in 0 .. MaxEngines /\ current \in Engines \cup {None}
      /\ kind \in [Engines -> {"ws", "polling"}] /\ up \in [Engines -> Connections]
      /\ mine \in [Threads -> Engines \cup {None}] /\ mine[t] \in Engines \cup {None}
      /\ None \in Engines \cup {None}
  BY Zenon DEF TypeOK
<1>1. CASE EnsureEngineio(t)
  <2>1. made + 1 \in Engines /\ made' \in 0 .. MaxEngines
    BY <1>0, <1>1, ClientAssumption DEF EnsureEngineio, Engines
  <2>2. kind' \in [Engines -> {"ws", "polling"}] /\ up' \in [Engines -> Connections]
    BY <1>0, <1>1 DEF EnsureEngineio, Set, Connections
  <2>3. mine' \in [Threads -> Engines \cup {None}]
    BY <1>0, <1>1, <2>1 DEF EnsureEngineio, Set
  <2> QED
    BY <1>0, <1>1, <2>1, <2>2, <2>3, Zenon DEF EnsureEngineio, sharedVars
<1>2. CASE InstallEngineio(t)
  <2>1. up' \in [Engines -> Connections]
    BY <1>0, <1>2 DEF InstallEngineio, Release, Set, Connections
  <2>2. mine' \in [Threads -> Engines \cup {None}] /\ current' \in Engines \cup {None}
    BY <1>0, <1>2 DEF InstallEngineio, Set
  <2> QED
    BY <1>0, <1>2, <2>1, <2>2, Zenon DEF InstallEngineio
<1>3. CASE OpenEngineio(t)
  <2>1. up' \in [Engines -> Connections]
    BY <1>0, <1>3 DEF OpenEngineio, Set, Connections
  <2>2. mine' \in [Threads -> Engines \cup {None}]
    BY <1>0, <1>3 DEF OpenEngineio, Set
  <2> QED
    BY <1>0, <1>3, <2>1, <2>2, Zenon DEF OpenEngineio, sharedVars
<1> QED
  BY <1>1, <1>2, <1>3, Zenon DEF Engine

(* The places of the threads after each step.                                                 *)
LEMMA PlacesStep ==
    ASSUME TypeOK, [Next]_vars
    PROVE  PcOK'
<1>0. PcOK /\ spawned \in Nat
  BY ClientAssumption DEF TypeOK, PcOK
<1>1. ASSUME NEW l \in UserPcs, Goto(User, l) PROVE PcOK'
  BY <1>0, <1>1, UserMoves, Zenon
<1>2. ASSUME NEW e \in Engines, NEW l \in IoPcs, Goto(Io(e), l) PROVE PcOK'
  BY <1>0, <1>2, IoMoves, Zenon
<1>3. ASSUME NEW n \in 1 .. MaxWorkers, NEW l \in WorkerPcs, Goto(Worker(n), l) PROVE PcOK'
  BY <1>0, <1>3, WorkerMoves, Zenon
<1>4. CASE \/ Connect \/ ConnectReset \/ ConnectMode \/ Close("close") \/ Close("sync")
           \/ SyncJoin \/ StopReconnectThread \/ JoinReconnectThread
  <2>1. \E l \in {"stop", "reset", "mode", "ensure", "close_flag", "synced", "join", "sync_join"} :
           Goto(User, l)
    BY <1>4, Zenon DEF Connect, ConnectReset, ConnectMode, Close, SyncJoin, StopReconnectThread,
                JoinReconnectThread
  <2> QED
    BY <1>1, <2>1 DEF UserPcs
<1>5. CASE Engine(User) \/ Closing(User)
  <2>1. \E l \in {"install", "idle", "open", "close_sockets", "close_engine", "stop"} : Goto(User, l)
    BY <1>5, ThreadNames, Zenon DEF Engine, EnsureEngineio, InstallEngineio, OpenEngineio, Done,
                Closing, CloseFlag, CloseSockets, CloseEngine
  <2> QED
    BY <1>1, <2>1 DEF UserPcs
<1>6. ASSUME NEW e \in Engines, Engine(Io(e)) \/ Closing(Io(e)) PROVE PcOK'
  <2>1. \E l \in {"install", "error_listen", "open", "close_sockets", "close_engine", "close_decide"} :
           Goto(Io(e), l)
    BY <1>6, ThreadNames, Zenon DEF Engine, EnsureEngineio, InstallEngineio, OpenEngineio, Done,
                Closing, CloseFlag, CloseSockets, CloseEngine
  <2> QED
    BY <1>2, <2>1 DEF IoPcs
<1>7. ASSUME NEW e \in Engines, Events(e) PROVE PcOK'
  <2>1. \E l \in {"open_check", "error_check", "close_check"} : Goto(Io(e), l)
    BY <1>7, Zenon DEF Events, Handshake, ConnectFails, Lost, WriteFails, LateWriteFails, CloseFrame,
                Report
  <2> QED
    BY <1>2, <2>1 DEF IoPcs
<1>8. ASSUME NEW e \in Engines, IoRuns(e), ~Engine(Io(e)), ~Closing(Io(e)) PROVE PcOK'
  <2>1. \/ \E l \in {"idle", "open_connect", "close_check", "error_listen", "fallback", "ensure"} :
              Goto(Io(e), l)
        \/ \E l \in {"close_mark", "on_disconnect", "on_close", "close_flag", "close_decide",
                     "schedule", "count", "schedule_lock", "reap"} : Goto(Io(e), l)
        \/ Spawn(e)
    <3>1. CASE HandleOpen(e) \/ HandleError(e) \/ ActivatePollingFallback(e) \/ ErrorListener(e)
      BY <3>1, Zenon DEF HandleOpen, HandleError, ActivatePollingFallback, ErrorListener, AfterError
    <3>2. CASE HandleClose(e) \/ MarkSockets(e) \/ DisconnectListener(e) \/ CloseListener(e)
      BY <3>2, Zenon DEF HandleClose, MarkSockets, DisconnectListener, CloseListener
    <3>3. CASE CloseDecide(e) \/ ScheduleReconnect(e) \/ CountAttempt(e) \/ OnEngineioOpen(e)
      BY <3>3, Zenon DEF CloseDecide, ScheduleReconnect, CountAttempt, OnEngineioOpen
    <3>4. CASE ScheduleLocked(e) \/ Reap(e)
      BY <3>4, Zenon DEF ScheduleLocked, Reap
    <3> QED
      BY <1>8, <3>1, <3>2, <3>3, <3>4, Zenon DEF IoRuns
  <2> QED
    BY <1>0, <1>2, <2>1, SpawnMoves DEF IoPcs
<1>9. ASSUME NEW n \in 1 .. MaxWorkers, WorkerRuns(n) PROVE PcOK'
  <2>1. \E l \in {"done", "check", "ensure", "install", "reconnecting", "open"} :
           Goto(Worker(n), l)
    BY <1>9, ThreadNames, Zenon DEF WorkerRuns, WorkerWait, WorkerCheck, WorkerReconnecting,
                WorkerStep, Engine, EnsureEngineio, InstallEngineio, OpenEngineio, Done
  <2> QED
    BY <1>3, <2>1 DEF WorkerPcs
<1>10. CASE UNCHANGED vars \/ \E nsp \in Namespaces : Socket(nsp)
  BY <1>0, <1>10, Zenon DEF vars, Socket, PcOK
<1> QED
  BY <1>4, <1>5, <1>6, <1>7, <1>8, <1>9, <1>10, Zenon DEF Next, UserRuns

\* The types of everything but the places of the threads: what the threads share, the
\* engines, and the calls.
TypedShared ==
    /\ force \in BOOLEAN /\ intentional \in BOOLEAN /\ polling \in BOOLEAN
    /\ attempts \in Nat /\ current \in Engines \cup {None} /\ sockets \subseteq Namespaces
    /\ reconnect \in Workers \cup {Nobody}
    /\ rlock \in IoThreads \cup {Nobody} /\ slock \in IoThreads \cup {Nobody}
TypedEngines ==
    /\ made \in 0 .. MaxEngines
    /\ kind \in [Engines -> {"ws", "polling"}] /\ up \in [Engines -> Connections]
    /\ closing \in [Engines -> BOOLEAN] /\ announced \in [Engines -> SUBSET Namespaces]
TypedCalls ==
    /\ spawned \in 0 .. MaxWorkers /\ mine \in [Threads -> Engines \cup {None}]
    /\ joins \in Workers \cup {Nobody} /\ call \in {"none", "connect", "close", "sync"}
    /\ connects \in 0 .. MaxConnects /\ shut \in BOOLEAN
Typed == TypedShared /\ TypedEngines /\ TypedCalls

(* A step that changes none of these variables keeps their types.                              *)
LEMMA SameTypes ==
    /\ UNCHANGED sharedVars /\ TypedShared => TypedShared'
    /\ UNCHANGED engineVars /\ TypedEngines => TypedEngines'
    /\ UNCHANGED callVars /\ TypedCalls => TypedCalls'
BY Zenon DEF sharedVars, engineVars, callVars, TypedShared, TypedEngines, TypedCalls

(* Every variable keeps its type; what bounds the attempts is another matter.                   *)
LEMMA TypedStep ==
    ASSUME TypeOK, [Next]_vars
    PROVE  Typed'
<1>0. TypedShared /\ TypedEngines /\ TypedCalls
  BY Zenon DEF TypeOK, TypedShared, TypedEngines, TypedCalls
<1> USE DEF Typed
<1>1. ASSUME NEW t \in Threads, Engine(t) PROVE Typed'
  <2>1. /\ UNCHANGED <<force, intentional, polling, attempts, sockets, reconnect, rlock, slock,
                       closing, announced, spawned, joins, call, connects, shut>>
        /\ made' \in 0 .. MaxEngines /\ current' \in Engines \cup {None}
        /\ kind' \in [Engines -> {"ws", "polling"}] /\ up' \in [Engines -> Connections]
        /\ mine' \in [Threads -> Engines \cup {None}]
    BY <1>1, EngineTyped, Zenon
  <2> QED
    BY <1>0, <2>1, Zenon DEF TypedShared, TypedEngines, TypedCalls
<1>2. ASSUME NEW t \in Threads, Closing(t) PROVE Typed'
  <2>1. /\ UNCHANGED <<force, polling, attempts, current, sockets, reconnect, rlock, slock, made,
                       kind, announced, spawned, mine, joins, call, connects>>
        /\ intentional' \in BOOLEAN /\ shut' \in BOOLEAN
    BY <1>0, <1>2, Zenon DEF Closing, CloseFlag, CloseSockets, CloseEngine, TypedShared, TypedCalls,
                             sharedVars, engineVars, callVars
  <2>2. closing' \in [Engines -> BOOLEAN]
    BY <1>0, <1>2 DEF Closing, CloseFlag, CloseSockets, CloseEngine, Set, TypedEngines, engineVars
  <2>3. up' \in [Engines -> Connections]
    BY <1>0, <1>2 DEF Closing, CloseFlag, CloseSockets, CloseEngine, Set, TypedEngines, engineVars,
                      Connections
  <2> QED
    BY <1>0, <2>1, <2>2, <2>3, Zenon DEF TypedShared, TypedEngines, TypedCalls
<1>3. CASE Connect \/ Close("close") \/ Close("sync")
  <2>1. connects' \in 0 .. MaxConnects
    BY <1>0, <1>3, ClientAssumption DEF Connect, Close, TypedCalls
  <2>2. /\ UNCHANGED <<sharedVars, engineVars, spawned, mine, joins, shut>>
        /\ call' \in {"none", "connect", "close", "sync"}
    BY <1>3, Zenon DEF Connect, Close
  <2>3. TypedCalls'
    BY <1>0, <2>1, <2>2, Zenon DEF TypedCalls
  <2> QED
    BY <1>0, <2>2, <2>3, SameTypes, Zenon
<1>4. CASE ConnectReset \/ ConnectMode \/ SyncJoin \/ StopReconnectThread \/ JoinReconnectThread
  <2>1. /\ UNCHANGED <<force, current, sockets, rlock, slock, engineVars, spawned, mine, call,
                       connects>>
        /\ intentional' \in BOOLEAN /\ polling' \in BOOLEAN /\ shut' \in BOOLEAN
        /\ reconnect' \in Workers \cup {Nobody} /\ joins' \in Workers \cup {Nobody}
        /\ attempts' = attempts \/ attempts' = 0
    BY <1>0, <1>4, Zenon DEF ConnectReset, ConnectMode, SyncJoin, StopReconnectThread,
                             JoinReconnectThread, TypedShared, TypedCalls, sharedVars, callVars
  <2>2. attempts' \in Nat
    BY <1>0, <2>1 DEF TypedShared
  <2>3. TypedShared' /\ TypedCalls'
    BY <1>0, <2>1, <2>2, Zenon DEF TypedShared, TypedCalls
  <2> QED
    BY <1>0, <2>1, <2>3, SameTypes, Zenon
<1>5. ASSUME NEW names, names \subseteq Namespaces, Announce(names)
      PROVE  announced' \in [Engines -> SUBSET Namespaces]
  BY <1>0, <1>5 DEF Announce, Set, TypedEngines
<1>6. ASSUME NEW nsp \in Namespaces, Socket(nsp) PROVE Typed'
  <2>1. /\ sockets' \subseteq Namespaces /\ announced' \in [Engines -> SUBSET Namespaces]
        /\ UNCHANGED <<force, intentional, polling, attempts, current, reconnect, rlock, slock,
                       made, kind, up, closing, callVars>>
    BY <1>0, <1>5, <1>6, Zenon DEF Socket, TypedShared
  <2>2. TypedShared' /\ TypedEngines'
    BY <1>0, <2>1, Zenon DEF TypedShared, TypedEngines
  <2> QED
    BY <1>0, <2>1, <2>2, SameTypes, Zenon
<1>7. ASSUME NEW e \in Engines, Events(e) PROVE Typed'
  <2>1. PICK c \in Connections : up' = Set(up, e, c)
    BY <1>7, Zenon DEF Events, Handshake, ConnectFails, Lost, WriteFails, LateWriteFails,
                       CloseFrame, Report, Connections
  <2>2. up' \in [Engines -> Connections]
    BY <1>0, <2>1 DEF TypedEngines, Set
  <2>3. UNCHANGED <<sharedVars, made, kind, closing, announced, callVars>>
    BY <1>7, Zenon DEF Events, Handshake, ConnectFails, Lost, WriteFails, LateWriteFails,
                       CloseFrame, Report, callVars
  <2>4. TypedEngines'
    BY <1>0, <2>2, <2>3, Zenon DEF TypedEngines
  <2> QED
    BY <1>0, <2>3, <2>4, SameTypes, Zenon
<1>8. ASSUME NEW e \in Engines, IoRuns(e), ~Engine(Io(e)), ~Closing(Io(e)) PROVE Typed'
  <2>0. Io(e) \in IoThreads \cup {Nobody}
    BY ThreadNames, Zenon
  <2>1. CASE \/ HandleOpen(e) \/ HandleError(e) \/ ErrorListener(e) \/ HandleClose(e)
             \/ CloseListener(e) \/ CloseDecide(e) \/ ScheduleReconnect(e)
    <3>1. UNCHANGED <<sharedVars, engineVars, callVars>>
      BY <2>1, Zenon DEF HandleOpen, HandleError, ErrorListener, HandleClose, CloseListener,
                         CloseDecide, ScheduleReconnect
    <3> QED
      BY <1>0, <3>1, SameTypes, Zenon
  <2>2. CASE OnEngineioOpen(e)
    <3>1. announced' \in [Engines -> SUBSET Namespaces]
      BY <1>0, <1>5, <2>2, Zenon DEF OnEngineioOpen, TypedShared
    <3>2. TypedEngines'
      BY <1>0, <2>2, <3>1, Zenon DEF OnEngineioOpen, TypedEngines
    <3> QED
      BY <1>0, <2>2, <3>2, SameTypes, Zenon DEF OnEngineioOpen
  <2>3. CASE ActivatePollingFallback(e) \/ MarkSockets(e) \/ DisconnectListener(e)
    <3>1. /\ polling' \in BOOLEAN /\ slock' \in IoThreads \cup {Nobody}
          /\ UNCHANGED <<force, intentional, attempts, current, sockets, reconnect, rlock,
                         engineVars, callVars>>
      BY <1>0, <2>0, <2>3, Zenon DEF ActivatePollingFallback, MarkSockets, DisconnectListener,
                                     TypedShared
    <3>2. TypedShared'
      BY <1>0, <3>1, Zenon DEF TypedShared
    <3> QED
      BY <1>0, <3>1, <3>2, SameTypes, Zenon
  <2>4. CASE CountAttempt(e)
    <3>1. attempts' \in Nat
      BY <1>0, <2>4 DEF CountAttempt, TypedShared
    <3>2. TypedShared'
      BY <1>0, <2>4, <3>1, Zenon DEF CountAttempt, TypedShared
    <3> QED
      BY <1>0, <2>4, <3>2, SameTypes, Zenon DEF CountAttempt
  <2>5. CASE ScheduleLocked(e) \/ Reap(e)
    <3>1. /\ UNCHANGED <<force, intentional, polling, attempts, current, sockets, slock,
                         engineVars, mine, joins, call, connects, shut>>
          /\ UNCHANGED <<reconnect, spawned>> \/ Spawn(e)
          /\ rlock' \in IoThreads \cup {Nobody}
      BY <1>0, <2>0, <2>5, Zenon DEF ScheduleLocked, Reap, TypedShared
    <3>2. ASSUME Spawn(e)
          PROVE  spawned' \in 0 .. MaxWorkers /\ reconnect' \in Workers \cup {Nobody}
      <4>1. spawned + 1 \in 1 .. MaxWorkers /\ spawned' \in 0 .. MaxWorkers
        BY <1>0, <3>2, ClientAssumption DEF Spawn, TypedCalls, MaxWorkers
      <4> QED
        BY <3>2, <4>1, ThreadNames, Zenon DEF Spawn
    <3>3. reconnect' \in Workers \cup {Nobody} /\ spawned' \in 0 .. MaxWorkers
      BY <1>0, <3>1, <3>2, Zenon DEF TypedShared, TypedCalls
    <3>4. TypedShared' /\ TypedCalls'
      BY <1>0, <3>1, <3>3, Zenon DEF TypedShared, TypedCalls
    <3> QED
      BY <1>0, <3>1, <3>4, SameTypes, Zenon
  <2> QED
    BY <1>8, <2>1, <2>2, <2>3, <2>4, <2>5, Zenon DEF IoRuns
<1>9. ASSUME NEW n \in 1 .. MaxWorkers, WorkerWait(n) \/ WorkerCheck(n) \/ WorkerReconnecting(n)
      PROVE  Typed'
  <2>1. UNCHANGED <<sharedVars, engineVars, spawned, joins, call, connects, shut>>
    BY <1>9, Zenon DEF WorkerWait, WorkerCheck, WorkerReconnecting, WorkerStep
  <2>2. mine' \in [Threads -> Engines \cup {None}]
    BY <1>0, <1>9 DEF WorkerWait, WorkerCheck, WorkerReconnecting, Set, TypedCalls
  <2>3. TypedCalls'
    BY <1>0, <2>1, <2>2, Zenon DEF TypedCalls
  <2> QED
    BY <1>0, <2>1, <2>3, SameTypes, Zenon
<1>10. CASE UNCHANGED vars
  BY <1>0, <1>10, SameTypes, Zenon DEF vars
<1>11. ASSUME NEW e \in Engines, IoRuns(e) PROVE Typed'
  BY <1>1, <1>2, <1>8, <1>11, ThreadNames, Zenon
<1>12. ASSUME NEW n \in 1 .. MaxWorkers, WorkerRuns(n) PROVE Typed'
  BY <1>1, <1>9, <1>12, ThreadNames, Zenon DEF WorkerRuns
<1>13. CASE UserRuns
  BY <1>1, <1>2, <1>4, <1>13, ThreadNames, Zenon DEF UserRuns
<1> QED
  BY <1>3, <1>6, <1>7, <1>10, <1>11, <1>12, <1>13, Zenon DEF Next
-----------------------------------------------------------------------------
(* The inductive invariant holds at the start ...                                             *)
LEMMA InitIInv == Init => IInv
<1> SUFFICES ASSUME Init PROVE IInv
  OBVIOUS
<1>0. /\ pc[User] = "idle" /\ \A e \in Engines : pc[Io(e)] = "idle"
      /\ \A n \in 1 .. MaxWorkers : pc[Worker(n)] = "unborn"
      /\ \A t \in Threads : mine[t] = None
      /\ \A t \in IoThreads : pc[t] = "idle"
      /\ \A t \in Workers : pc[t] = "unborn"
  BY ThreadNames DEF Init
<1>1. TypedShared /\ TypedCalls
  <2>1. /\ attempts \in Nat /\ spawned \in 0 .. MaxWorkers /\ connects \in 0 .. MaxConnects
        /\ mine \in [Threads -> Engines \cup {None}]
    BY ClientAssumption DEF Init, MaxWorkers
  <2> QED
    BY <2>1, Zenon DEF Init, TypedShared, TypedCalls
<1>2. TypedEngines
  BY ClientAssumption DEF Init, TypedEngines, Connections
<1>3. pc \in [Threads -> UserPcs \cup IoPcs \cup WorkerPcs]
  BY DEF Init, UserPcs, WorkerPcs
<1>4. PcOK
  BY <1>0, <1>3 DEF PcOK, UserPcs, IoPcs, WorkerPcs
<1>5. attempts = 0 /\ 0 <= Attempts
  BY ClientAssumption DEF Init
<1>6. TypeOK
  BY <1>1, <1>2, <1>4, <1>5, Zenon DEF TypeOK, TypedShared, TypedEngines, TypedCalls, PcOK
<1>7. NoWorker
  BY <1>0 DEF NoWorker, Running
<1>8. WorkerInv
  BY <1>0, <1>7 DEF Init, WorkerInv, OneWorker, NoWorker, ShutPcs
<1>9. EngineInv
  BY <1>0 DEF Init, EngineInv, None, Engines
<1>10. SelectedOrRejected /\ NamespacesAnnounced
  BY DEF Init, SelectedOrRejected, NamespacesAnnounced
<1>11. OrderlyInv /\ NoHalf
  BY <1>0, <1>5, <1>7 DEF Init, OrderlyInv, NoHalf, NoWorker, Deciding, Pending, Quiet
<1> QED
  BY <1>6, <1>8, <1>9, <1>10, <1>11, Zenon DEF IInv

(* ... and after every step.                                                                 *)
LEMMA StepIInv == IInv /\ [Next]_vars => IInv'
<1> SUFFICES ASSUME IInv, [Next]_vars PROVE IInv'
  OBVIOUS
<1>0. /\ TypeOK /\ SelectedOrRejected /\ WorkerInv /\ EngineInv /\ NamespacesAnnounced
      /\ Quirks = {} => OrderlyInv /\ NoHalf
  BY Zenon DEF IInv
<1>1. SelectedOrRejected' /\ WorkerInv' /\ EngineInv' /\ NamespacesAnnounced'
  BY <1>0, SelectedStep, WorkerInvStep, EngineInvStep, NamesStep, Zenon
<1>2. Quirks = {} => OrderlyInv' /\ NoHalf'
  BY <1>0, OrderlyStep, HalfStep, Zenon
<1>3. Quirks = {} => attempts' <= Attempts
  BY <1>2, Zenon DEF OrderlyInv
<1>4. Typed' /\ PcOK'
  BY <1>0, TypedStep, PlacesStep, Zenon
<1>5. TypeOK'
  BY <1>3, <1>4, Zenon DEF TypeOK, Typed, TypedShared, TypedEngines, TypedCalls, PcOK
<1> QED
  BY <1>1, <1>2, <1>5, Zenon DEF IInv

(* The lifecycle of the client, for any numbers of namespaces, engines, connect() calls and      *)
(* attempts, and whatever the environment does: the handle of every worker that runs is where    *)
(* a shutdown finds it, an engine in its creator's hand is nobody else's; and in an orderly      *)
(* environment one thread at a time decides what becomes of the client.                         *)
THEOREM InductiveInvariant == Spec => []IInv
<1>1. Init => IInv
  BY InitIInv
<1>2. IInv /\ [Next]_vars => IInv'
  BY StepIInv
<1> QED
  BY <1>1, <1>2, PTL DEF Spec

(* Every variable keeps its type, and an orderly run never exceeds reconnect_attempts.            *)
THEOREM TypeAlways == Spec => []TypeOK
<1>1. IInv => TypeOK
  BY Zenon DEF IInv
<1> QED
  BY <1>1, InductiveInvariant, PTL

(* ensure_engineio against close(): once close() has been to the engine, the engine of the       *)
(* client is closing until the next connect(), whoever was replacing it.                        *)
THEOREM SelectedOrRejectedAlways == Spec => []SelectedOrRejected
<1>1. IInv => SelectedOrRejected
  BY Zenon DEF IInv
<1> QED
  BY <1>1, InductiveInvariant, PTL

(* reconnect_thread_ is never overwritten while its worker runs.                                *)
THEOREM OneWorkerAlways == Spec => []OneWorker
<1>1. IInv => OneWorker
  BY Zenon DEF IInv, WorkerInv
<1> QED
  BY <1>1, InductiveInvariant, PTL

(* When sync_close() has returned, no reconnect worker runs and none has a handle.               *)
THEOREM WorkersJoinedAlways == Spec => []WorkersJoined
<1>1. IInv => WorkersJoined
  <2> SUFFICES ASSUME IInv, pc[User] = "synced"
               PROVE  reconnect = Nobody /\ \A n \in 1 .. MaxWorkers : ~Running(n)
    BY Zenon DEF WorkersJoined
  <2>1. reconnect = Nobody /\ joins = Nobody
    BY DEF IInv, WorkerInv
  <2> QED
    BY <2>1, ThreadNames DEF IInv, WorkerInv, OneWorker
<1> QED
  BY <1>1, InductiveInvariant, PTL

(* socket() against on_engineio_open: every namespace is announced on the open engine.           *)
THEOREM NamespacesAnnouncedAlways == Spec => []NamespacesAnnounced
<1>1. IInv => NamespacesAnnounced
  BY Zenon DEF IInv
<1> QED
  BY <1>1, InductiveInvariant, PTL

(* The comment of schedule_reconnect, in an orderly environment: when a thread holds             *)
(* reconnect_mutex_ to join the previous worker, that worker is past its wait for the mutex.     *)
THEOREM ReapIsSafeOrderly ==
    ASSUME Quirks = {}
    PROVE  Spec => []ReapIsSafe
<1>1. IInv => ReapIsSafe
  <2> SUFFICES ASSUME IInv, NEW e \in Engines, pc[Io(e)] = "reap"
               PROVE  pc[reconnect] # "wait"
    BY Zenon DEF ReapIsSafe
  <2>1. EngineTypes /\ OrderlyInv /\ Deciding(e)
    BY DEF IInv, TypeOK, EngineTypes, PcOK, Deciding
  <2>2. \A n \in 1 .. MaxWorkers : ~Pending(n)
    BY <2>1, OneDecides, Zenon
  <2>3. reconnect \in Workers
    BY ThreadNames, Zenon DEF IInv, WorkerInv, TypeOK
  <2> QED
    BY <2>2, <2>3, ThreadNames, Zenon DEF Pending
<1> QED
  BY <1>1, InductiveInvariant, PTL

(* In an orderly environment an open engine is replaced by the application's connect() alone:    *)
(* a fallback and a reconnect worker only ever replace a connection that is over.               *)
THEOREM HealthyKeptOrderly ==
    ASSUME Quirks = {}
    PROVE  Spec => HealthyKept
<1> DEFINE Kept == current # current' /\ current # None /\ IsOpen(current) => pc[User] = "install"
<1>1. IInv /\ [Next]_vars => [Kept]_vars
  <2> SUFFICES ASSUME IInv, Next, current' # current, current # None, IsOpen(current)
               PROVE  pc[User] = "install"
    BY DEF vars, sharedVars
  <2>1. EngineTypes /\ OrderlyInv /\ up[current] \notin Over
    BY DEF IInv, TypeOK, EngineTypes, PcOK, IsOpen, Over
  <2>2. PICK t \in Threads : InstallEngineio(t)
    <3>1. ASSUME NEW t \in Threads, EnsureEngineio(t) \/ OpenEngineio(t) \/ Closing(t)
          PROVE  current' = current
      BY <3>1, Zenon DEF EnsureEngineio, OpenEngineio, Closing, CloseFlag, CloseSockets, CloseEngine,
                         sharedVars
    <3>2. CASE \/ Connect \/ Close("close") \/ Close("sync") \/ \E nsp \in Namespaces : Socket(nsp)
               \/ ConnectReset \/ ConnectMode \/ StopReconnectThread \/ JoinReconnectThread
               \/ SyncJoin
      BY <3>2, Zenon DEF Connect, Close, Socket, ConnectReset, ConnectMode, StopReconnectThread,
                         JoinReconnectThread, SyncJoin, sharedVars
    <3>3. ASSUME NEW e \in Engines, Events(e) PROVE current' = current
      BY <3>3, Zenon DEF Events, Handshake, ConnectFails, Lost, WriteFails, LateWriteFails,
                         CloseFrame, Report, sharedVars
    <3>4. ASSUME NEW e \in Engines, IoRuns(e), ~Engine(Io(e)), ~Closing(Io(e))
          PROVE  current' = current
      BY <3>4, Zenon DEF IoRuns, HandleOpen, OnEngineioOpen, HandleError, ActivatePollingFallback,
                         ErrorListener, HandleClose, MarkSockets, DisconnectListener, CloseListener,
                         CloseDecide, ScheduleReconnect, CountAttempt, ScheduleLocked, Reap, sharedVars
    <3>5. ASSUME NEW n \in 1 .. MaxWorkers, WorkerRuns(n), ~Engine(Worker(n))
          PROVE  current' = current
      BY <3>5, Zenon DEF WorkerRuns, WorkerWait, WorkerCheck, WorkerReconnecting, WorkerStep,
                         sharedVars
    <3>6. ASSUME NEW t \in Threads, Engine(t) PROVE InstallEngineio(t)
      BY <3>1, <3>6, Zenon DEF Engine
    <3> QED
      BY <3>1, <3>2, <3>3, <3>4, <3>5, <3>6, ThreadNames, Zenon DEF Next, UserRuns
  <2>3. pc[t] = "install"
    BY <2>2, Zenon DEF InstallEngineio
  <2>4. ASSUME NEW e \in Engines, t = Io(e) PROVE FALSE
    BY <2>1, <2>3, <2>4, OneDecides, Zenon DEF Deciding
  <2>5. ASSUME NEW n \in 1 .. MaxWorkers, t = Worker(n) PROVE FALSE
    BY <2>1, <2>3, <2>5, Zenon DEF Pending, OrderlyInv
  <2> QED
    BY <2>3, <2>4, <2>5, ThreadNames, Zenon
<1> QED
  BY <1>1, InductiveInvariant, PTL DEF Spec, HealthyKept
-----------------------------------------------------------------------------
(* parse_nonnegative_int refuses a digit exactly when the number with the digit    *)
(* appended exceeds the largest int: no int overflows, and every number that fits   *)
(* is accepted.                                                                  *)
THEOREM DigitsNeverOverflow ==
    ASSUME NEW intMax \in Nat, intMax >= 9,
           NEW result \in 0 .. intMax,
           NEW digit \in 0 .. 9
    PROVE  AppendDigit(result, digit, intMax) =
              IF result * 10 + digit <= intMax THEN result * 10 + digit ELSE -1
<1>1. TooLarge(result, digit, intMax) <=> result * 10 + digit > intMax
  BY SMT DEF TooLarge
<1> QED
  BY <1>1, SMT DEF AppendDigit

(* Rounding a fraction below the integer m gives at most m.                        *)
LEMMA RoundBelow ==
    ASSUME NEW d \in Nat, d > 0, NEW n \in Nat, NEW m \in Nat, n < m * d
    PROVE  Round(n, d) \in 0 .. m
<1> DEFINE q == (2 * n + d) \div (2 * d)
<1>1. /\ q \in Nat
      /\ (2 * d) * q <= 2 * n + d
  BY SMT
<1>2. m * d \in Nat
  BY SMT
<1>3. q <= m
  <2> SUFFICES ASSUME q >= m + 1 PROVE FALSE
    BY <1>1, SMT
  <2>1. (2 * d) * (m + 1) <= (2 * d) * q
    BY <1>1, SMT
  <2>2. (2 * d) * (m + 1) = 2 * (m * d) + 2 * d
    BY SMT
  <2> HIDE DEF q
  <2> QED
    BY <1>1, <1>2, <2>1, <2>2, SMT
<1> QED
  BY <1>1, <1>3 DEF Round

(* The weight 1 - factor + 2 * factor * sample of the jitter is not negative.       *)
LEMMA WeightNat ==
    ASSUME NEW scale \in Nat, NEW factor \in 0 .. scale, NEW sample \in 0 .. scale
    PROVE  scale * scale - factor * scale + 2 * factor * sample \in Nat
<1>1. factor * scale \in Nat /\ scale * scale \in Nat /\ factor * scale <= scale * scale
  BY SMT
<1>2. 2 * factor * sample \in Nat
  BY SMT
<1> QED
  BY <1>1, <1>2, SMT

(* Whatever the jitter, the delay lies between 0 and the maximum.                  *)
LEMMA JitteredBounded ==
    ASSUME NEW maximum \in Nat, NEW exponential \in 0 .. maximum,
           NEW scale \in Nat, scale > 0,
           NEW factor \in 0 .. scale, NEW sample \in 0 .. scale
    PROVE  Jittered(exponential, maximum, factor, sample, scale) \in 0 .. maximum
<1> DEFINE weight == scale * scale - factor * scale + 2 * factor * sample
           weighted == exponential * weight
           d == scale * scale
<1>1. weight \in Nat
  BY WeightNat
<1>2. d \in Nat /\ d > 0
  BY SMT
<1>3. weighted \in Nat
  <2> HIDE DEF weight
  <2> QED
    BY <1>1, SMT
<1>4. CASE weighted >= maximum * d
  BY <1>4, SMT DEF Jittered
<1>5. CASE ~(weighted >= maximum * d)
  <2>1. Jittered(exponential, maximum, factor, sample, scale) = Round(weighted, d)
    BY <1>5 DEF Jittered
  <2> HIDE DEF weighted, d
  <2>2. weighted < maximum * d
    BY <1>5, <1>3, <1>2, SMT
  <2> QED
    BY <2>1, <2>2, <1>2, <1>3, RoundBelow
<1> QED
  BY <1>4, <1>5

(* reconnect_delay_for_attempt returns a delay between 0 and max_delay (0 when      *)
(* max_delay is negative) for any arguments, out of range ones included, as long    *)
(* as the power of two it multiplies with is what ldexp returns.                  *)
THEOREM DelayBounded ==
    ASSUME NEW initial_delay \in Int, NEW max_delay \in Int,
           NEW jitter_factor \in Int, NEW jitter_sample \in Int,
           NEW attempt \in Int, 2 ^ Exponent(attempt) \in Nat,
           NEW scale \in Nat, scale > 0
    PROVE  ReconnectDelay(initial_delay, max_delay, jitter_factor, attempt,
                          jitter_sample, scale) \in 0 .. AtLeast(max_delay, 0)
<1> DEFINE initial     == AtLeast(initial_delay, 0)
           maximum     == AtLeast(max_delay, 0)
           multiplier  == 2 ^ Exponent(attempt)
           exponential == AtMost(initial * multiplier, maximum)
           factor      == Clamp(jitter_factor, 0, scale)
           sample      == Clamp(jitter_sample, 0, scale)
<1>1. initial \in Nat /\ maximum \in Nat
  BY SMT DEF AtLeast
<1>2. factor \in 0 .. scale /\ sample \in 0 .. scale
  BY SMT DEF Clamp, AtLeast, AtMost
<1>3. exponential \in 0 .. maximum
  <2> HIDE DEF initial, maximum, multiplier
  <2>1. multiplier \in Nat
    BY DEF multiplier
  <2>2. initial * multiplier \in Nat
    BY <1>1, <2>1, SMT
  <2> QED
    BY <1>1, <2>2, SMT DEF AtMost
<1>4. Jittered(exponential, maximum, factor, sample, scale) \in 0 .. maximum
  <2> HIDE DEF exponential, maximum, factor, sample
  <2> QED
    BY <1>1, <1>2, <1>3, JitteredBounded
<1> QED
  BY <1>4 DEF ReconnectDelay
=============================================================================
