------------------------------- MODULE Client -------------------------------
(***************************************************************************)
(* The lifecycle of one client (src/client.cpp): connect(), close() and    *)
(* sync_close() of the application, the handlers that the threads of the    *)
(* Engine.IO connections run in the client, the fallback to HTTP polling   *)
(* and the reconnect workers.                                              *)
(*                                                                         *)
(* An Engine.IO connection (engine_client and its transport) is the number *)
(* of its creation; what it reports, and when, is the part of the engine    *)
(* the client sees.  Each engine reports on a thread of its own.  A step is *)
(* one access to the state the threads share, or one critical section of    *)
(* the mutex that guards it; reconnect_mutex_ and sockets_mutex_ are held   *)
(* across several steps where the code joins a thread or runs a listener    *)
(* under them.                                                             *)
(*                                                                         *)
(* An operator whose name ends in _Bug is a plausible mistake in the code   *)
(* of the definition that follows it; no specification uses one.            *)
(***************************************************************************)
EXTENDS Integers, FiniteSets

CONSTANTS Namespaces,      \* names of the sockets the application asks for
          Attempts,        \* options_.reconnect_attempts
          MaxConnects,     \* bound: calls of connect()
          MaxEngines,      \* bound: engines created
          Quirks,          \* what the environment may do, see QuirkKinds
          ListenersClose   \* listeners of the application that call close()

(* close_frame: the server ends the session with a CLOSE packet, and the       *)
(*   transport fails afterwards.                                              *)
(* late_write: a write that was pending when the connection was lost fails     *)
(*   after the loss was reported.                                             *)
(* connect_again: the application calls connect() without a sync_close().      *)
QuirkKinds == {"close_frame", "late_write", "connect_again"}

ASSUME ClientAssumption ==
    /\ Attempts \in Nat /\ MaxConnects \in Nat /\ MaxEngines \in Nat
    /\ Quirks \subseteq QuirkKinds
    /\ ListenersClose \subseteq {"on_disconnect", "on_close"}

VARIABLES force,        \* options_.force_http_polling
          intentional,  \* intentional_close_
          polling,      \* using_polling_
          attempts,     \* reconnect_attempts_used_
          current,      \* engineio_
          sockets,      \* keys of sockets_
          reconnect,    \* reconnect_thread_: the worker it is the handle of
          rlock,        \* the thread that holds reconnect_mutex_ across a join
          slock,        \* the thread that holds sockets_mutex_ across a listener
          made,         \* engines created so far
          kind,         \* the transport of each engine
          up,           \* the state of each engine's connection
          closing,      \* closing_ of each engine
          announced,    \* namespaces whose CONNECT went to each engine
          spawned,      \* reconnect workers started so far
          pc,           \* where each thread stands
          mine,         \* the engine a thread has just created
          joins,        \* the worker stop_reconnect_thread took to join
          call,         \* the call the application thread is in
          connects,     \* calls of connect() so far
          shut          \* history: close() reached the engine, no connect() since

sharedVars == <<force, intentional, polling, attempts, current, sockets,
                reconnect, rlock, slock>>
engineVars == <<made, kind, up, closing, announced>>
callVars   == <<spawned, mine, joins, call, connects, shut>>
vars == <<sharedVars, engineVars, pc, callVars>>

Engines == 1 .. MaxEngines
None    == 0
MaxWorkers == MaxEngines

User      == <<"user", 0>>
Io(e)     == <<"io", e>>
Worker(n) == <<"worker", n>>
Workers == {Worker(n) : n \in 1 .. MaxWorkers}
IoThreads == {Io(e) : e \in Engines}
Threads == {User} \cup IoThreads \cup Workers
Nobody  == <<"nobody", 0>>

Connections == {"unused", "new", "connecting", "open", "half", "lost", "ended", "closed"}
UserPcs   == {"idle", "stop", "join", "reset", "mode", "ensure", "install", "open",
              "close_flag", "close_sockets", "close_engine", "sync_join", "synced"}
WorkerPcs == {"unborn", "wait", "check", "ensure", "install", "reconnecting", "open", "done"}
IoPcs     == {"idle", "open_check", "open_connect", "error_check", "fallback", "ensure",
              "install", "open", "error_listen", "close_check", "close_mark",
              "on_disconnect", "on_close", "close_flag", "close_sockets", "close_engine",
              "close_decide", "schedule", "count", "schedule_lock", "reap"}
-----------------------------------------------------------------------------
Init ==
    /\ force \in BOOLEAN
    /\ intentional = FALSE /\ polling = FALSE /\ attempts = 0
    /\ current = None /\ sockets = {}
    /\ reconnect = Nobody /\ rlock = Nobody /\ slock = Nobody
    /\ made = 0
    /\ kind = [e \in Engines |-> "ws"]
    /\ up = [e \in Engines |-> "unused"]
    /\ closing = [e \in Engines |-> FALSE]
    /\ announced = [e \in Engines |-> {}]
    /\ spawned = 0
    /\ pc = [t \in Threads |-> IF t \in Workers THEN "unborn" ELSE "idle"]
    /\ mine = [t \in Threads |-> None]
    /\ joins = Nobody
    /\ call = "none" /\ connects = 0
    /\ shut = FALSE

Goto(t, l)  == pc' = [pc EXCEPT ![t] = l]
Set(f, x, v) == [f EXCEPT ![x] = v]

IsOpen(e) == up[e] = "open"

\* Somebody other than the client keeps the engine alive: the thread that created
\* it, a handler that runs on its thread, or its heartbeat thread while it is open.
\* The handlers of any other engine find their weak_ptr expired.
Held(e)  == \/ \E t \in Threads : mine[t] = e
            \/ pc[Io(e)] # "idle"
            \/ IsOpen(e)
Alive(e) == current = e \/ Held(e)

\* The client lets go of the engine it replaces; the last reference closes it.
Release(old, new) ==
    up' = IF old \in Engines \ {new} /\ ~Held(old) THEN Set(up, old, "closed") ELSE up
-----------------------------------------------------------------------------
(* ensure_engineio() and engineio_client::open(), on any thread.               *)

EnsureEngineio(t) ==
    /\ pc[t] = "ensure" /\ made < MaxEngines
    /\ made' = made + 1
    /\ kind' = Set(kind, made + 1, IF polling THEN "polling" ELSE "ws")
    /\ up' = Set(up, made + 1, "new")
    /\ mine' = Set(mine, t, made + 1)
    /\ Goto(t, "install")
    /\ UNCHANGED <<sharedVars, closing, announced, spawned, joins, call, connects,
                   shut>>

\* Where a thread continues when it is done with its engine.
Done(t) == CASE t = User     -> "idle"
             [] t \in Workers -> "done"
             [] OTHER        -> "error_listen"

\* A shutdown that has started is not looked at.
InstallEngineio_Bug(t) ==
    /\ pc[t] = "install"
    /\ current' = mine[t]
    /\ Goto(t, IF t \in Workers THEN "reconnecting" ELSE "open")
    /\ Release(current, current')
    /\ UNCHANGED <<force, intentional, polling, attempts, sockets, reconnect, rlock, slock,
                   made, kind, closing, announced, callVars>>

\* The critical section of engineio_mutex_: install the engine, or drop it when a
\* shutdown has started.  The engine that was replaced is released.
InstallEngineio(t) ==
    /\ pc[t] = "install"
    /\ IF intentional
         THEN /\ Goto(t, Done(t))
              /\ mine' = Set(mine, t, None)
              /\ UNCHANGED current
         ELSE /\ current' = mine[t]
              /\ Goto(t, IF t \in Workers THEN "reconnecting" ELSE "open")
              /\ UNCHANGED mine
    /\ Release(current, current')
    /\ UNCHANGED <<force, intentional, polling, attempts, sockets, reconnect, rlock, slock,
                   made, kind, closing, announced, spawned, joins, call, connects, shut>>

\* engineio->open(): a closing engine stays as it is.
OpenEngineio(t) ==
    /\ pc[t] = "open"
    /\ up' = IF closing[mine[t]] THEN up ELSE Set(up, mine[t], "connecting")
    /\ mine' = Set(mine, t, None)
    /\ Goto(t, Done(t))
    /\ UNCHANGED <<sharedVars, made, kind, closing, announced, spawned, joins, call,
                   connects, shut>>
-----------------------------------------------------------------------------
(* The application: connect(), close(), sync_close(), socket().                *)

Connect ==
    /\ pc[User] \in {"idle", "synced"} /\ connects < MaxConnects
    /\ \/ connects = 0
       \/ pc[User] = "synced"
       \/ "connect_again" \in Quirks
    /\ connects' = connects + 1
    /\ call' = "connect"
    /\ Goto(User, IF intentional THEN "stop" ELSE "reset")
    /\ UNCHANGED <<sharedVars, engineVars, spawned, mine, joins, shut>>

\* connect() resets intentional_close_ under sockets_mutex_ ...
ConnectReset ==
    /\ pc[User] = "reset" /\ slock = Nobody
    /\ intentional' = FALSE
    /\ shut' = FALSE
    /\ Goto(User, "mode")
    /\ UNCHANGED <<force, polling, attempts, current, sockets, reconnect, rlock, slock,
                   engineVars, spawned, mine, joins, call, connects>>

\* ... and then using_polling_ and reconnect_attempts_used_.
ConnectMode ==
    /\ pc[User] = "mode"
    /\ polling' = force
    /\ attempts' = 0
    /\ Goto(User, "ensure")
    /\ UNCHANGED <<force, intentional, current, sockets, reconnect, rlock, slock,
                   engineVars, spawned, mine, joins, call, connects, shut>>

Close(kindOfClose) ==
    /\ pc[User] = "idle" /\ connects > 0
    /\ call' = kindOfClose
    /\ Goto(User, "close_flag")
    /\ UNCHANGED <<sharedVars, engineVars, spawned, mine, joins, connects, shut>>

CloseFlag(t) ==
    /\ pc[t] = "close_flag"
    /\ intentional' = TRUE
    /\ shut' = FALSE
    /\ Goto(t, "close_sockets")
    /\ UNCHANGED <<force, polling, attempts, current, sockets, reconnect, rlock, slock,
                   engineVars, spawned, mine, joins, call, connects>>

\* sockets_snapshot(), and the shutdown of each socket.
CloseSockets(t) ==
    /\ pc[t] = "close_sockets" /\ slock = Nobody
    /\ Goto(t, "close_engine")
    /\ UNCHANGED <<sharedVars, engineVars, callVars>>

\* current_engineio()->close().  A polling transport notifies on_close from here:
\* on_engineio_close takes sockets_mutex_ and, as intentional_close_ is set, does no
\* more than call the listeners.
CloseEngine(t) ==
    /\ pc[t] = "close_engine"
    /\ current # None /\ kind[current] = "polling" => slock = Nobody
    /\ IF current = None
         THEN UNCHANGED <<closing, up>>
         ELSE /\ closing' = Set(closing, current, TRUE)
              /\ up' = Set(up, current, "closed")
    /\ shut' = TRUE
    /\ Goto(t, IF t # User THEN "close_decide"
               ELSE IF call = "sync" THEN "stop" ELSE "idle")
    /\ UNCHANGED <<sharedVars, made, kind, announced, spawned, mine, joins, call, connects>>

\* The worker is joined with reconnect_mutex_ held.
StopReconnectThread_Bug ==
    /\ pc[User] = "stop" /\ rlock = Nobody
    /\ rlock' = User
    /\ joins' = reconnect
    /\ reconnect' = Nobody
    /\ Goto(User, "join")
    /\ UNCHANGED <<force, intentional, polling, attempts, current, sockets, slock,
                   engineVars, spawned, mine, call, connects, shut>>

\* stop_reconnect_thread(): take the handle under reconnect_mutex_ ...
StopReconnectThread ==
    /\ pc[User] = "stop" /\ rlock = Nobody
    /\ joins' = reconnect
    /\ reconnect' = Nobody
    /\ Goto(User, "join")
    /\ UNCHANGED <<force, intentional, polling, attempts, current, sockets, rlock, slock,
                   engineVars, spawned, mine, call, connects, shut>>

\* ... and join the worker without it.
JoinReconnectThread ==
    /\ pc[User] = "join"
    /\ joins # Nobody => pc[joins] = "done"
    /\ joins' = Nobody
    /\ Goto(User, IF call = "connect" THEN "reset" ELSE "sync_join")
    /\ UNCHANGED <<sharedVars, engineVars, spawned, mine, call, connects, shut>>

\* current_engineio()->sync_close(): the thread of the current engine is joined.
SyncJoin ==
    /\ pc[User] = "sync_join"
    /\ current # None => pc[Io(current)] = "idle"
    /\ Goto(User, "synced")
    /\ UNCHANGED <<sharedVars, engineVars, callVars>>

\* What sock->connect() sends through send_packet to the engine of the moment.
Announce(names) ==
    announced' = IF current # None /\ IsOpen(current)
                   THEN Set(announced, current, announced[current] \cup names)
                   ELSE announced

\* socket(): a new namespace, announced at once on an open engine.
Socket(nsp) ==
    /\ nsp \notin sockets /\ slock = Nobody
    /\ sockets' = sockets \cup {nsp}
    /\ Announce({nsp})
    /\ UNCHANGED <<force, intentional, polling, attempts, current, reconnect, rlock, slock,
                   made, kind, up, closing, pc, callVars>>
-----------------------------------------------------------------------------
(* What an engine reports, on its thread.                                      *)

Report(e, from, to, label) ==
    /\ pc[Io(e)] = "idle" /\ up[e] \in from /\ ~closing[e] /\ Alive(e)
    /\ up' = Set(up, e, to)
    /\ Goto(Io(e), label)
    /\ UNCHANGED <<sharedVars, made, kind, closing, announced, spawned, mine, joins, call,
                   connects, shut>>

Handshake(e) == Report(e, {"connecting"}, "open", "open_check")

\* The connection could not be established.  A polling transport goes on to close.
ConnectFails(e) == Report(e, {"connecting"}, "ended", "error_check")

\* A WebSocket read fails; a polling request fails, which is an error first.
Lost(e) == \/ kind[e] = "ws" /\ Report(e, {"open", "half"}, "lost", "close_check")
           \/ kind[e] = "polling" /\ Report(e, {"open", "half"}, "ended", "error_check")

\* A WebSocket write fails, after a CLOSE packet too; the read will fail as well.
WriteFails(e) == /\ kind[e] = "ws" /\ up[e] \in {"open", "half"}
                 /\ Report(e, {up[e]}, up[e], "error_check")

LateWriteFails(e) == /\ "late_write" \in Quirks /\ kind[e] = "ws"
                     /\ Report(e, {"lost"}, "ended", "error_check")

\* The CLOSE packet: the engine is not open any more, the transport goes on.
CloseFrame(e) == /\ "close_frame" \in Quirks
                 /\ Report(e, {"open"}, "half", "close_check")
-----------------------------------------------------------------------------
(* The handlers of the client, on the thread of the engine.                    *)

\* handle_engineio_open
HandleOpen(e) ==
    /\ pc[Io(e)] = "open_check"
    /\ Goto(Io(e), IF current = e THEN "open_connect" ELSE "idle")
    /\ UNCHANGED <<sharedVars, engineVars, callVars>>

\* The namespaces asked for before the engine opened are forgotten.
OnEngineioOpen_Bug(e) ==
    /\ pc[Io(e)] = "open_connect" /\ slock = Nobody
    /\ Goto(Io(e), "idle")
    /\ UNCHANGED <<sharedVars, engineVars, callVars>>

\* on_engineio_open: every namespace is announced under sockets_mutex_.
OnEngineioOpen(e) ==
    /\ pc[Io(e)] = "open_connect" /\ slock = Nobody
    /\ Announce(sockets)
    /\ Goto(Io(e), "idle")
    /\ UNCHANGED <<sharedVars, made, kind, up, closing, callVars>>

\* What the transport does when its error was handled: http_polling_transport::fail
\* notifies on_close next, websocket_transport::fail is done.
AfterError(e) == IF kind[e] = "polling" THEN "close_check" ELSE "idle"

\* The fallback does not ask whether the engine is open.
HandleError_Bug(e) ==
    /\ pc[Io(e)] = "error_check"
    /\ Goto(Io(e), IF current # e THEN AfterError(e)
                   ELSE IF polling THEN "error_listen" ELSE "fallback")
    /\ UNCHANGED <<sharedVars, engineVars, callVars>>

\* handle_engineio_error
HandleError(e) ==
    /\ pc[Io(e)] = "error_check"
    /\ Goto(Io(e), IF current # e THEN AfterError(e)
                   ELSE IF polling \/ IsOpen(e) THEN "error_listen" ELSE "fallback")
    /\ UNCHANGED <<sharedVars, engineVars, callVars>>

\* activate_polling_fallback
ActivatePollingFallback(e) ==
    /\ pc[Io(e)] = "fallback"
    /\ IF intentional \/ polling
         THEN Goto(Io(e), "error_listen") /\ UNCHANGED polling
         ELSE Goto(Io(e), "ensure") /\ polling' = TRUE
    /\ UNCHANGED <<force, intentional, attempts, current, sockets, reconnect, rlock, slock,
                   engineVars, callVars>>

\* A WebSocket error counts as a close as well.
ErrorListener_Bug(e) ==
    /\ pc[Io(e)] = "error_listen"
    /\ Goto(Io(e), "close_check")
    /\ UNCHANGED <<sharedVars, engineVars, callVars>>

\* The error listener of the client returns.
ErrorListener(e) ==
    /\ pc[Io(e)] = "error_listen"
    /\ Goto(Io(e), AfterError(e))
    /\ UNCHANGED <<sharedVars, engineVars, callVars>>

\* handle_engineio_close
HandleClose(e) ==
    /\ pc[Io(e)] = "close_check"
    /\ Goto(Io(e), IF current = e THEN "close_mark" ELSE "idle")
    /\ UNCHANGED <<sharedVars, engineVars, callVars>>

\* on_engineio_close: the on_disconnect listeners of the namespaces that were
\* connected run under sockets_mutex_.
MarkSockets(e) ==
    /\ pc[Io(e)] = "close_mark" /\ slock = Nobody
    /\ slock' = Io(e)
    /\ Goto(Io(e), "on_disconnect")
    /\ UNCHANGED <<force, intentional, polling, attempts, current, sockets, reconnect, rlock,
                   engineVars, callVars>>

DisconnectListener(e) ==
    /\ pc[Io(e)] = "on_disconnect"
    /\ \/ slock' = Nobody /\ Goto(Io(e), "on_close")
       \/ /\ "on_disconnect" \in ListenersClose /\ announced[e] # {}
          /\ Goto(Io(e), "close_flag") /\ UNCHANGED slock
    /\ UNCHANGED <<force, intentional, polling, attempts, current, sockets, reconnect, rlock,
                   engineVars, callVars>>

\* The close listener of the client runs without a lock.
CloseListener(e) ==
    /\ pc[Io(e)] = "on_close"
    /\ \/ Goto(Io(e), "close_decide")
       \/ "on_close" \in ListenersClose /\ Goto(Io(e), "close_flag")
    /\ UNCHANGED <<sharedVars, engineVars, callVars>>

\* The attempts used are taken for the attempts allowed.
CloseDecide_Bug(e) ==
    /\ pc[Io(e)] = "close_decide"
    /\ Goto(Io(e), IF ~intentional /\ attempts > 0 THEN "schedule" ELSE "idle")
    /\ UNCHANGED <<sharedVars, engineVars, callVars>>

CloseDecide(e) ==
    /\ pc[Io(e)] = "close_decide"
    /\ Goto(Io(e), IF ~intentional /\ Attempts > 0 THEN "schedule" ELSE "idle")
    /\ UNCHANGED <<sharedVars, engineVars, callVars>>

\* One attempt too many is made.
ScheduleReconnect_Bug(e) ==
    /\ pc[Io(e)] = "schedule"
    /\ Goto(Io(e), IF attempts > Attempts THEN "idle" ELSE "count")
    /\ UNCHANGED <<sharedVars, engineVars, callVars>>

\* schedule_reconnect; with no attempt left it calls the fail listener only.
ScheduleReconnect(e) ==
    /\ pc[Io(e)] = "schedule"
    /\ Goto(Io(e), IF attempts >= Attempts THEN "idle" ELSE "count")
    /\ UNCHANGED <<sharedVars, engineVars, callVars>>

\* reconnect_attempts_used_ is counted apart from the test, without a lock.
CountAttempt(e) ==
    /\ pc[Io(e)] = "count"
    /\ attempts' = attempts + 1
    /\ Goto(Io(e), "schedule_lock")
    /\ UNCHANGED <<force, intentional, polling, current, sockets, reconnect, rlock, slock,
                   engineVars, callVars>>

\* A new reconnect worker; the thread that starts it is done.
Spawn(e) ==
    /\ spawned < MaxWorkers
    /\ spawned' = spawned + 1
    /\ reconnect' = Worker(spawned + 1)
    /\ pc' = [pc EXCEPT ![Worker(spawned + 1)] = "wait", ![Io(e)] = "idle"]

\* Whether the client is being shut down is not asked under the lock.
ScheduleLocked_Bug(e) ==
    /\ pc[Io(e)] = "schedule_lock" /\ rlock = Nobody
    /\ \/ /\ reconnect = Nobody
          /\ Spawn(e)
          /\ UNCHANGED rlock
       \/ /\ reconnect # Nobody
          /\ rlock' = Io(e)
          /\ Goto(Io(e), "reap")
          /\ UNCHANGED <<reconnect, spawned>>
    /\ UNCHANGED <<force, intentional, polling, attempts, current, sockets, slock, engineVars,
                   mine, joins, call, connects, shut>>

\* Its critical section of reconnect_mutex_, up to the join.
ScheduleLocked(e) ==
    /\ pc[Io(e)] = "schedule_lock" /\ rlock = Nobody
    /\ \/ /\ intentional
          /\ Goto(Io(e), "idle")
          /\ UNCHANGED <<reconnect, spawned, rlock>>
       \/ /\ ~intentional /\ reconnect = Nobody
          /\ Spawn(e)
          /\ UNCHANGED rlock
       \/ /\ ~intentional /\ reconnect # Nobody
          /\ rlock' = Io(e)
          /\ Goto(Io(e), "reap")
          /\ UNCHANGED <<reconnect, spawned>>
    /\ UNCHANGED <<force, intentional, polling, attempts, current, sockets, slock, engineVars,
                   mine, joins, call, connects, shut>>

\* The previous worker is not waited for.
Reap_Bug(e) ==
    /\ pc[Io(e)] = "reap"
    /\ rlock' = Nobody
    /\ Spawn(e)
    /\ UNCHANGED <<force, intentional, polling, attempts, current, sockets, slock, engineVars,
                   mine, joins, call, connects, shut>>

\* reconnect_thread_.join() with reconnect_mutex_ held, and the next worker.
Reap(e) ==
    /\ pc[Io(e)] = "reap" /\ pc[reconnect] = "done"
    /\ rlock' = Nobody
    /\ Spawn(e)
    /\ UNCHANGED <<force, intentional, polling, attempts, current, sockets, slock, engineVars,
                   mine, joins, call, connects, shut>>
-----------------------------------------------------------------------------
(* The reconnect worker.                                                       *)

WorkerStep(n, label) ==
    /\ Goto(Worker(n), label)
    /\ UNCHANGED <<sharedVars, engineVars, spawned, joins, call, connects, shut>>

\* wait_for takes reconnect_mutex_ to return, after the delay or the notification.
WorkerWait(n) ==
    /\ pc[Worker(n)] = "wait" /\ rlock = Nobody
    /\ WorkerStep(n, IF intentional THEN "done" ELSE "check")
    /\ UNCHANGED mine

WorkerCheck(n) ==
    /\ pc[Worker(n)] = "check"
    /\ WorkerStep(n, IF intentional THEN "done" ELSE "ensure")
    /\ UNCHANGED mine

\* The reconnecting listener has run.
WorkerReconnecting(n) ==
    /\ pc[Worker(n)] = "reconnecting"
    /\ WorkerStep(n, IF intentional THEN "done" ELSE "open")
    /\ mine' = IF intentional THEN Set(mine, Worker(n), None) ELSE mine
-----------------------------------------------------------------------------
Engine(t) == EnsureEngineio(t) \/ InstallEngineio(t) \/ OpenEngineio(t)
Closing(t) == CloseFlag(t) \/ CloseSockets(t) \/ CloseEngine(t)

UserRuns == \/ ConnectReset
            \/ ConnectMode
            \/ Engine(User)
            \/ Closing(User)
            \/ StopReconnectThread
            \/ JoinReconnectThread
            \/ SyncJoin

IoRuns(e) == \/ HandleOpen(e)
             \/ OnEngineioOpen(e)
             \/ HandleError(e)
             \/ ActivatePollingFallback(e)
             \/ Engine(Io(e))
             \/ ErrorListener(e)
             \/ HandleClose(e)
             \/ MarkSockets(e)
             \/ DisconnectListener(e)
             \/ CloseListener(e)
             \/ Closing(Io(e))
             \/ CloseDecide(e)
             \/ ScheduleReconnect(e)
             \/ CountAttempt(e)
             \/ ScheduleLocked(e)
             \/ Reap(e)

WorkerRuns(n) == \/ WorkerWait(n)
                 \/ WorkerCheck(n)
                 \/ Engine(Worker(n))
                 \/ WorkerReconnecting(n)

Events(e) == \/ Handshake(e)
             \/ ConnectFails(e)
             \/ Lost(e)
             \/ WriteFails(e)
             \/ LateWriteFails(e)
             \/ CloseFrame(e)

Next == \/ Connect
        \/ Close("close") \/ Close("sync")
        \/ \E nsp \in Namespaces : Socket(nsp)
        \/ UserRuns
        \/ \E e \in Engines : Events(e) \/ IoRuns(e)
        \/ \E n \in 1 .. MaxWorkers : WorkerRuns(n)

Spec == Init /\ [][Next]_vars

(* Threads run and reconnect delays end.  Nothing is assumed of the             *)
(* application, of the server or of the network.                               *)
FairSpec == /\ Spec
            /\ WF_vars(UserRuns)
            /\ \A e \in Engines : WF_vars(IoRuns(e))
            /\ \A n \in 1 .. MaxWorkers : WF_vars(WorkerRuns(n))
-----------------------------------------------------------------------------
(* Every variable keeps its type, and an orderly run makes no more reconnection  *)
(* attempts than configured.                                                   *)
TypeOK ==
    /\ force \in BOOLEAN /\ intentional \in BOOLEAN /\ polling \in BOOLEAN
    /\ attempts \in Nat /\ (Quirks = {} => attempts <= Attempts)
    /\ current \in Engines \cup {None} /\ made \in 0 .. MaxEngines
    /\ sockets \subseteq Namespaces
    /\ reconnect \in Workers \cup {Nobody} /\ joins \in Workers \cup {Nobody}
    /\ rlock \in IoThreads \cup {Nobody} /\ slock \in IoThreads \cup {Nobody}
    /\ kind \in [Engines -> {"ws", "polling"}] /\ up \in [Engines -> Connections]
    /\ closing \in [Engines -> BOOLEAN]
    /\ announced \in [Engines -> SUBSET Namespaces]
    /\ spawned \in 0 .. MaxWorkers
    /\ pc \in [Threads -> UserPcs \cup IoPcs \cup WorkerPcs] /\ pc[User] \in UserPcs
    /\ \A t \in IoThreads : pc[t] \in IoPcs
    /\ \A t \in Workers : pc[t] \in WorkerPcs
    /\ mine \in [Threads -> Engines \cup {None}]
    /\ call \in {"none", "connect", "close", "sync"} /\ connects \in 0 .. MaxConnects
    /\ shut \in BOOLEAN

(* The comment of ensure_engineio: a replacement is installed in time for       *)
(* close() to select it, or rejected.  Once close() has been to the engine, the *)
(* engine of the client is closing, whatever a reconnect worker or a fallback   *)
(* was doing, until the next connect().                                        *)
SelectedOrRejected == intentional /\ shut => current = None \/ closing[current]

Running(n) == pc[Worker(n)] \notin {"unborn", "done"}

(* reconnect_thread_ is never overwritten while its worker runs: there is one   *)
(* reconnect worker at a time, and its handle is where a shutdown finds it.     *)
OneWorker == \A n \in 1 .. MaxWorkers : Running(n) => Worker(n) \in {reconnect, joins}

(* When sync_close() has returned, no reconnect worker runs or can be started.  *)
WorkersJoined ==
    pc[User] = "synced" /\ intentional => /\ \A n \in 1 .. MaxWorkers : ~Running(n)
                                          /\ reconnect = Nobody

(* Every namespace the application asked for is announced on the open engine,   *)
(* whichever of socket() and on_engineio_open comes first.                     *)
NamespacesAnnounced ==
    current # None /\ IsOpen(current) /\ pc[Io(current)] \notin {"open_check", "open_connect"}
        => sockets \subseteq announced[current]

(* The comment of schedule_reconnect: who holds reconnect_mutex_ may join the    *)
(* previous worker, because it has finished with the state of the client.       *)
ReapIsSafe == \A e \in Engines : pc[Io(e)] = "reap" => pc[reconnect] # "wait"

(* close() may be called from any listener: it does not wait for a lock that    *)
(* its own thread holds.                                                       *)
CloseFromListeners == \A e \in Engines : pc[Io(e)] = "close_sockets" => slock # Io(e)

(* An open engine is only replaced by the application's connect().              *)
HealthyKept == [][current # current' /\ current # None /\ IsOpen(current)
                    => pc[User] = "install"]_vars

(* A lost connection is followed by a new engine, unless the attempts are used   *)
(* up or the application shuts down.                                           *)
Recovers == \A e \in Engines :
    current = e /\ up[e] \in {"lost", "ended"} ~>
        current # e \/ attempts >= Attempts \/ intentional

(* sync_close() returns.                                                       *)
SyncCloseReturns == call = "sync" /\ pc[User] # "synced" ~> pc[User] = "synced"
=============================================================================
