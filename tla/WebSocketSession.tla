-------------------------- MODULE WebSocketSession --------------------------
(***************************************************************************)
(* One Engine.IO session over the WebSocket transport, on an io_context of *)
(* its own: engineio_client.cpp with its heartbeat threads, composed with   *)
(* websocket_transport.cpp and its I/O thread.                             *)
(*                                                                         *)
(* The I/O thread runs one completion handler at a time; a handler is split *)
(* where it waits for another thread or where another thread can see an     *)
(* intermediate state.  heartbeat_thread_mutex_ and connect_mutex_ guard     *)
(* single steps; heartbeat_mutex_ is held by a heartbeat thread from the     *)
(* test of its predicate until it sleeps.                                   *)
(*                                                                         *)
(* An operator whose name ends in _Bug is a plausible mistake in the code   *)
(* of the definition that follows it; no specification uses one.            *)
(***************************************************************************)
EXTENDS Naturals, Sequences

CONSTANTS MaxHandshakes,   \* bound: OPEN packets, hence heartbeat threads
          MaxSends,        \* bound: messages handed to send()
          MaxTraffic       \* bound: both together

ASSUME SessionAssumption == {MaxHandshakes, MaxSends, MaxTraffic} \subseteq Nat

VARIABLES open,        \* engineio_client::open_
          closing,     \* engineio_client::closing_
          stop,        \* heartbeat_stop_requested_
          handle,      \* heartbeat_thread_: the heartbeat it is the handle of
          stale,       \* the last PING is longer ago than interval and timeout
          beats,       \* heartbeat threads started so far
          tclosing,    \* websocket_transport::closing_, and shutdown_once_
          posted,      \* handlers posted to the strand
          stopped,     \* the io_context was stopped
          link,        \* the WebSocket stream
          reading,     \* an async_read is outstanding
          queue,       \* write_queue_
          inprog,      \* write_in_progress_
          flying,      \* payloads of the outstanding async_writes
          sent,        \* messages handed to send() so far
          pc,          \* where each thread stands
          joins,       \* the heartbeat a thread took to join
          packet,      \* what the I/O thread is handling
          wire,        \* history: payloads written, in order
          expired,     \* history: a heartbeat thread met the ping timeout
          reported     \* history: on_close_ was called

engineVars == <<open, closing, stop, handle, stale, beats>>
writeVars  == <<queue, inprog, flying, sent, wire>>
linkVars   == <<tclosing, posted, stopped, link, reading>>
vars == <<engineVars, linkVars, writeVars, pc, joins, packet, expired, reported>>

Opener == <<"opener", 0>>
Closer == <<"closer", 0>>
Sender == <<"sender", 0>>
Io     == <<"io", 0>>
Beat(n) == <<"heartbeat", n>>
Beats   == {Beat(n) : n \in 1 .. MaxHandshakes}
Threads == {Opener, Closer, Sender, Io} \cup Beats
None    == 0
Shutdown == 0            \* the handler that close() posts; a write is its number

OpenerPcs == {"idle", "open", "connect", "done"}
SenderPcs == {"idle", "post"}
ClosePcs  == {"close_stop", "close_notify", "close_open", "close_transport"}
StopPcs   == {"stop", "notify", "take", "join"}
CloserPcs == {"idle", "sync", "join_io", "synced"} \cup ClosePcs \cup StopPcs
IoPcs     == {"unborn", "idle", "listen", "opened", "start", "report", "exited"}
                \cup ClosePcs \cup StopPcs
BeatPcs   == {"unborn", "check", "lock", "locked", "asleep", "woken", "error", "beat_close",
              "done"} \cup ClosePcs

Goto(t, l) == pc' = [pc EXCEPT ![t] = l]

Init == /\ open = FALSE /\ closing = FALSE /\ stop = TRUE /\ handle = None
        /\ stale = FALSE /\ beats = 0
        /\ tclosing = FALSE /\ posted = <<>> /\ stopped = FALSE
        /\ link = "none" /\ reading = FALSE
        /\ queue = <<>> /\ inprog = FALSE /\ flying = <<>> /\ sent = 0
        /\ pc = [t \in Threads |-> IF t \in Beats \cup {Io} THEN "unborn" ELSE "idle"]
        /\ joins = [t \in Threads |-> None]
        /\ packet = "none"
        /\ wire = <<>> /\ expired = FALSE /\ reported = FALSE
-----------------------------------------------------------------------------
(* engineio_client::open() and send(), on threads of the application.          *)

Open == /\ pc[Opener] = "idle"
        /\ Goto(Opener, IF closing THEN "done" ELSE "open")
        /\ UNCHANGED <<engineVars, linkVars, writeVars, joins, packet, expired, reported>>

OpenReset == /\ pc[Opener] = "open"
             /\ open' = FALSE
             /\ Goto(Opener, "connect")
             /\ UNCHANGED <<closing, stop, handle, stale, beats, linkVars, writeVars, joins,
                            packet, expired, reported>>

\* websocket_transport::connect(): the I/O thread starts, unless close() came first.
Connect == /\ pc[Opener] = "connect"
           /\ IF tclosing
                THEN Goto(Opener, "done") /\ UNCHANGED link
                ELSE /\ pc' = [pc EXCEPT ![Opener] = "done", ![Io] = "idle"]
                     /\ link' = "connecting"
           /\ UNCHANGED <<engineVars, tclosing, posted, stopped, reading, writeVars, joins,
                          packet, expired, reported>>

\* The bounds let one more handshake or message begin.
MayOpen == beats < MaxHandshakes /\ beats + sent < MaxTraffic
MaySend == sent < MaxSends /\ beats + sent + (IF packet = "OPEN" THEN 1 ELSE 0) < MaxTraffic

\* Only an open session is sent to.
Send == /\ pc[Sender] = "idle" /\ open /\ MaySend
        /\ Goto(Sender, "post")
        /\ UNCHANGED <<engineVars, linkVars, writeVars, joins, packet, expired, reported>>

\* queue_write() posts the write to the strand.
SendPost == /\ pc[Sender] = "post" /\ MaySend
            /\ sent' = sent + 1
            /\ posted' = Append(posted, sent + 1)
            /\ Goto(Sender, "idle")
            /\ UNCHANGED <<engineVars, tclosing, stopped, link, reading, queue, inprog, flying,
                           wire, joins, packet, expired, reported>>
-----------------------------------------------------------------------------
(* engineio_client::close() and sync_close(), on the Closer; close() also from a  *)
(* listener on the I/O thread or on a heartbeat thread.                        *)

CloseReturns(t) == CASE t = Closer -> "sync"
                     [] t = Io     -> "idle"
                     [] OTHER      -> "beat_close"

Close(t) ==
    /\ \/ t = Closer /\ pc[t] = "idle"
       \/ t = Io /\ pc[t] = "listen"
       \/ t \in Beats /\ pc[t] = "error"
    /\ closing' = TRUE
    /\ Goto(t, IF closing THEN CloseReturns(t) ELSE "close_stop")
    /\ UNCHANGED <<open, stop, handle, stale, beats, linkVars, writeVars, joins, packet, expired,
                   reported>>

Locked(n) == pc[Beat(n)] = "locked"

\* The stop is requested without heartbeat_mutex_.
RequestStop_Bug(t) ==
    /\ pc[t] \in {"close_stop", "stop"}
    /\ stop' = TRUE
    /\ Goto(t, IF pc[t] = "stop" THEN "notify" ELSE "close_notify")
    /\ UNCHANGED <<open, closing, handle, stale, beats, linkVars, writeVars, joins, packet,
                   expired, reported>>

\* request_heartbeat_stop(): the flag under heartbeat_mutex_ ...
RequestStop(t) ==
    /\ pc[t] \in {"close_stop", "stop"}
    /\ \A n \in 1 .. MaxHandshakes : ~Locked(n)
    /\ stop' = TRUE
    /\ Goto(t, IF pc[t] = "stop" THEN "notify" ELSE "close_notify")
    /\ UNCHANGED <<open, closing, handle, stale, beats, linkVars, writeVars, joins, packet,
                   expired, reported>>

\* ... and the notification without it; a sleeper goes to look at its predicate.
Notify(t) ==
    /\ pc[t] \in {"close_notify", "notify"}
    /\ pc' = [u \in Threads |->
                IF u = t THEN (IF pc[t] = "notify" THEN "take" ELSE "close_open")
                ELSE IF pc[u] = "asleep" THEN "woken" ELSE pc[u]]
    /\ UNCHANGED <<engineVars, linkVars, writeVars, joins, packet, expired, reported>>

CloseOpen(t) ==
    /\ pc[t] = "close_open"
    /\ open' = FALSE
    /\ Goto(t, "close_transport")
    /\ UNCHANGED <<closing, stop, handle, stale, beats, linkVars, writeVars, joins, packet,
                   expired, reported>>

\* The io_context is left running.
ShutDown_Bug == /\ queue' = <<>> /\ inprog' = FALSE
                /\ link' = IF link = "none" THEN link ELSE "closed"
                /\ UNCHANGED stopped

\* What shutdown_on_io_thread() does to the transport.
ShutDown == /\ queue' = <<>> /\ inprog' = FALSE
            /\ link' = IF link = "none" THEN link ELSE "closed"
            /\ stopped' = TRUE

\* websocket_transport::close(), once: at once on the I/O thread, posted by the others.
TransportClose(t, next) ==
    /\ tclosing' = TRUE
    /\ Goto(t, next)
    /\ \/ tclosing /\ UNCHANGED <<posted, stopped, link, queue, inprog>>
       \/ ~tclosing /\ t = Io /\ ShutDown /\ UNCHANGED posted
       \/ /\ ~tclosing /\ t # Io
          /\ posted' = Append(posted, Shutdown)
          /\ UNCHANGED <<stopped, link, queue, inprog>>
    /\ UNCHANGED <<engineVars, reading, flying, sent, wire, joins, packet, expired, reported>>

CloseTransport(t) == pc[t] = "close_transport" /\ TransportClose(t, CloseReturns(t))

\* sync_close() goes on to stop_heartbeat_timer() ...
SyncClose == /\ pc[Closer] = "sync"
             /\ Goto(Closer, "stop")
             /\ UNCHANGED <<engineVars, linkVars, writeVars, joins, packet, expired, reported>>

\* ... and joins the I/O thread, if there is one.
JoinIo == /\ pc[Closer] = "join_io" /\ pc[Io] \in {"unborn", "exited"}
          /\ Goto(Closer, "synced")
          /\ UNCHANGED <<engineVars, linkVars, writeVars, joins, packet, expired, reported>>
-----------------------------------------------------------------------------
(* stop_heartbeat_timer(), on the Closer or on the I/O thread.                 *)

\* The handle is moved out under heartbeat_thread_mutex_ ...
TakeHeartbeat(t) ==
    /\ pc[t] = "take"
    /\ joins' = [joins EXCEPT ![t] = handle]
    /\ handle' = None
    /\ Goto(t, "join")
    /\ UNCHANGED <<open, closing, stop, stale, beats, linkVars, writeVars, packet, expired,
                   reported>>

\* Where the caller of stop_heartbeat_timer() continues.
Stopped(t) == IF t = Closer THEN "join_io"
              ELSE IF packet = "OPEN" THEN "opened" ELSE "report"

\* The thread is detached.
JoinHeartbeat_Bug(t) ==
    /\ pc[t] = "join"
    /\ joins' = [joins EXCEPT ![t] = None]
    /\ Goto(t, Stopped(t))
    /\ UNCHANGED <<engineVars, linkVars, writeVars, packet, expired, reported>>

\* ... and the thread is joined without it.
JoinHeartbeat(t) ==
    /\ pc[t] = "join"
    /\ joins[t] # None => pc[Beat(joins[t])] = "done"
    /\ joins' = [joins EXCEPT ![t] = None]
    /\ Goto(t, Stopped(t))
    /\ UNCHANGED <<engineVars, linkVars, writeVars, packet, expired, reported>>
-----------------------------------------------------------------------------
(* The I/O thread: connection, reads and what they carry.                      *)

IoIdle == pc[Io] = "idle" /\ ~stopped

\* Resolve, connect, proxy tunnel and handshakes succeed: the first read starts.
Connected ==
    /\ IoIdle /\ link = "connecting"
    /\ IF tclosing
         THEN link' = "closed" /\ UNCHANGED reading
         ELSE link' = "up" /\ reading' = TRUE
    /\ UNCHANGED <<engineVars, tclosing, posted, stopped, writeVars, pc, joins, packet, expired,
                   reported>>

\* One of them fails: on_error_, unless the transport is closing.
ConnectFails ==
    /\ IoIdle /\ link = "connecting"
    /\ link' = "closed"
    /\ Goto(Io, IF tclosing THEN "idle" ELSE "listen")
    /\ packet' = IF tclosing THEN "none" ELSE "error"
    /\ UNCHANGED <<engineVars, tclosing, posted, stopped, reading, writeVars, joins, expired,
                   reported>>

\* A read completes; one that completes on a closing transport is dropped.
Read(what) ==
    /\ IoIdle /\ reading
    /\ reading' = FALSE
    /\ packet' = IF tclosing THEN "none" ELSE what

ReadPacket(what, label) ==
    /\ Read(what) /\ link = "up"
    /\ Goto(Io, IF tclosing THEN "idle" ELSE label)

\* An OPEN packet stops the heartbeat of the previous one first.
ReadOpen == /\ MayOpen
            /\ ReadPacket("OPEN", "stop")
            /\ UNCHANGED <<engineVars, tclosing, posted, stopped, link, writeVars, joins, expired,
                           reported>>

\* PING: last_pong_, a PONG that is written without asking whether the session is
\* open, and the next read.
ReadPing == /\ IoIdle /\ reading /\ link = "up" /\ MaySend
            /\ reading' = ~tclosing
            /\ IF tclosing THEN UNCHANGED <<stale, posted, sent>>
                           ELSE /\ stale' = FALSE
                                /\ sent' = sent + 1
                                /\ posted' = Append(posted, sent + 1)
            /\ UNCHANGED <<open, closing, stop, handle, beats, tclosing, stopped, link, queue,
                           inprog, flying, wire, pc, joins, packet, expired, reported>>

ReadPong == /\ IoIdle /\ reading /\ link = "up"
            /\ reading' = ~tclosing
            /\ stale' = (stale /\ tclosing)
            /\ UNCHANGED <<open, closing, stop, handle, beats, tclosing, posted, stopped, link,
                           writeVars, pc, joins, packet, expired, reported>>

\* A message for the client: on_frame_.
ReadMessage == /\ ReadPacket("MESSAGE", "listen")
               /\ UNCHANGED <<engineVars, tclosing, posted, stopped, link, writeVars, joins,
                              expired, reported>>

\* The CLOSE packet, and a read that fails: not open any more, and the heartbeat stops.
ReadClose == /\ ReadPacket("CLOSE", "stop")
             /\ open' = IF tclosing THEN open ELSE FALSE
             /\ UNCHANGED <<closing, stop, handle, stale, beats, tclosing, posted, stopped, link,
                            writeVars, joins, expired, reported>>

ReadFails == /\ Read("lost")
             /\ link' = "closed"
             /\ open' = IF tclosing THEN open ELSE FALSE
             /\ Goto(Io, IF tclosing THEN "idle" ELSE "stop")
             /\ UNCHANGED <<closing, stop, handle, stale, beats, tclosing, posted, stopped,
                            writeVars, joins, expired, reported>>

\* handle_transport_message of an OPEN packet, after stop_heartbeat_timer().
Opened == /\ pc[Io] = "opened"
          /\ stale' = FALSE
          /\ open' = TRUE
          /\ Goto(Io, "start")
          /\ UNCHANGED <<closing, stop, handle, beats, linkVars, writeVars, joins, packet,
                         expired, reported>>

Started == /\ beats' = beats + 1
           /\ handle' = beats + 1
           /\ pc' = [pc EXCEPT ![Io] = "listen", ![Beat(beats + 1)] = "check"]

\* The request that stopped the previous heartbeat is left standing.
StartHeartbeatStopped_Bug ==
    /\ pc[Io] = "start"
    /\ IF ~open \/ closing THEN Goto(Io, "listen") /\ UNCHANGED <<handle, beats>>
                           ELSE Started
    /\ UNCHANGED <<open, closing, stop, stale, linkVars, writeVars, joins, packet, expired,
                   reported>>

\* A shutdown that has started is not looked at.
StartHeartbeatClosing_Bug ==
    /\ pc[Io] = "start"
    /\ stop' = FALSE
    /\ Started
    /\ UNCHANGED <<open, closing, stale, linkVars, writeVars, joins, packet, expired, reported>>

\* start_heartbeat_timer(), under heartbeat_thread_mutex_.
StartHeartbeat ==
    /\ pc[Io] = "start"
    /\ IF ~open \/ closing THEN Goto(Io, "listen") /\ UNCHANGED <<stop, handle, beats>>
                           ELSE stop' = FALSE /\ Started
    /\ UNCHANGED <<open, closing, stale, linkVars, writeVars, joins, packet, expired, reported>>

\* on_close_
ReportClose == /\ pc[Io] = "report"
               /\ reported' = TRUE
               /\ Goto(Io, "listen")
               /\ UNCHANGED <<engineVars, linkVars, writeVars, joins, packet, expired>>

\* The listeners return without a close(); the next read starts, if this was a read
\* that succeeded and the transport is not closing.
ListenerReturns ==
    /\ pc[Io] = "listen"
    /\ reading' = (reading \/ (packet \notin {"error", "lost"} /\ ~tclosing))
    /\ packet' = "none"
    /\ Goto(Io, "idle")
    /\ UNCHANGED <<engineVars, tclosing, posted, stopped, link, writeVars, joins, expired,
                   reported>>
-----------------------------------------------------------------------------
(* The I/O thread: writes, shutdown.                                           *)

\* pump_write_queue: the front of the queue is written, and popped when that is done.
Pump(q, others) == IF q = <<>> THEN inprog' = FALSE /\ flying' = others
                               ELSE inprog' = TRUE /\ flying' = Append(others, Head(q))

\* Whether a write is in progress is not asked.
QueueWrite_Bug(k) == /\ queue' = Append(queue, k)
                     /\ Pump(queue', flying)

\* The handler posted by queue_write().
QueueWrite(k) == /\ queue' = Append(queue, k)
                 /\ IF inprog THEN UNCHANGED <<inprog, flying>> ELSE Pump(queue', flying)

RunPosted ==
    /\ IoIdle /\ posted # <<>>
    /\ posted' = Tail(posted)
    /\ IF Head(posted) = Shutdown
         THEN ShutDown /\ UNCHANGED flying
         ELSE /\ IF tclosing THEN UNCHANGED <<queue, inprog, flying>>
                             ELSE QueueWrite(Head(posted))
              /\ UNCHANGED <<link, stopped>>
    /\ UNCHANGED <<engineVars, tclosing, reading, sent, wire, pc, joins, packet, expired,
                   reported>>

Popped == IF queue = <<>> THEN queue ELSE Tail(queue)

\* The payload stays at the front of the queue.
WriteDone_Bug ==
    /\ IoIdle /\ flying # <<>> /\ link = "up"
    /\ wire' = Append(wire, Head(flying))
    /\ IF tclosing
         THEN flying' = Tail(flying) /\ UNCHANGED inprog
         ELSE Pump(queue, Tail(flying))
    /\ UNCHANGED <<engineVars, linkVars, queue, sent, pc, joins, packet, expired, reported>>

\* An async_write completes: the next one starts, unless the transport is closing.
WriteDone ==
    /\ IoIdle /\ flying # <<>> /\ link = "up"
    /\ wire' = Append(wire, Head(flying))
    /\ IF tclosing
         THEN flying' = Tail(flying) /\ UNCHANGED <<queue, inprog>>
         ELSE queue' = Popped /\ Pump(queue', Tail(flying))
    /\ UNCHANGED <<engineVars, linkVars, sent, pc, joins, packet, expired, reported>>

\* It fails: fail() calls on_error_, and then write_in_progress_ is cleared.
WriteFails ==
    /\ IoIdle /\ flying # <<>>
    /\ flying' = Tail(flying)
    /\ IF tclosing
         THEN UNCHANGED <<queue, inprog, pc, packet>>
         ELSE /\ queue' = Popped
              /\ inprog' = FALSE
              /\ Goto(Io, "listen")
              /\ packet' = "error"
    /\ UNCHANGED <<engineVars, linkVars, sent, wire, joins, expired, reported>>

\* run() returns from a stopped io_context; what is left completes without effect,
\* as every handler finds the transport closing.
IoExit == /\ pc[Io] = "idle" /\ stopped
          /\ posted' = <<>> /\ reading' = FALSE /\ flying' = <<>>
          /\ Goto(Io, "exited")
          /\ UNCHANGED <<engineVars, tclosing, stopped, link, queue, inprog, sent, wire, joins,
                         packet, expired, reported>>
-----------------------------------------------------------------------------
(* The heartbeat threads.                                                      *)

BeatStep(n, from, to) ==
    /\ pc[Beat(n)] = from
    /\ Goto(Beat(n), to)
    /\ UNCHANGED <<engineVars, linkVars, writeVars, joins, packet, reported>>

\* The condition of the loop, read without a lock.
BeatCheck(n) == /\ BeatStep(n, "check", IF open /\ ~closing /\ ~stop THEN "lock" ELSE "done")
                /\ UNCHANGED expired

\* wait_for tests its predicate with heartbeat_mutex_ held, and lets go of it asleep.
BeatLock(n)  == /\ BeatStep(n, "lock", IF closing \/ stop THEN "done" ELSE "locked")
                /\ UNCHANGED expired
BeatSleep(n) == BeatStep(n, "locked", "asleep") /\ UNCHANGED expired

\* A notification or a spurious wake-up.
BeatWoken(n) == /\ BeatStep(n, "woken", IF closing \/ stop THEN "done" ELSE "asleep")
                /\ UNCHANGED expired

\* One interval without a ping timeout ends the heartbeat.
BeatTick_Bug(n) ==
    /\ BeatStep(n, "asleep", IF closing \/ stop \/ ~stale THEN "done" ELSE "error")
    /\ expired' = (expired \/ (stale /\ ~closing /\ ~stop))

\* The ping interval is over: look at last_pong_, under heartbeat_mutex_.
BeatTick(n) ==
    /\ BeatStep(n, "asleep", IF closing \/ stop THEN "done"
                             ELSE IF stale THEN "error" ELSE "check")
    /\ expired' = (expired \/ (stale /\ ~closing /\ ~stop))

\* on_error_("engine.io ping timeout") returns.
BeatError(n) == BeatStep(n, "error", "beat_close") /\ UNCHANGED expired

BeatClose(n) == pc[Beat(n)] = "beat_close" /\ TransportClose(Beat(n), "done")

\* Time passes without a PING.
Silence == /\ ~stale
           /\ stale' = TRUE
           /\ UNCHANGED <<open, closing, stop, handle, beats, linkVars, writeVars, pc, joins,
                          packet, expired, reported>>
-----------------------------------------------------------------------------
Closes(t) == RequestStop(t) \/ Notify(t) \/ CloseOpen(t) \/ CloseTransport(t)
Stops(t)  == TakeHeartbeat(t) \/ JoinHeartbeat(t)

OpenerRuns == OpenReset \/ Connect
CloserRuns == Closes(Closer) \/ SyncClose \/ Stops(Closer) \/ JoinIo
IoRuns     == \/ Closes(Io) \/ Stops(Io)
              \/ Opened \/ StartHeartbeat \/ ReportClose \/ ListenerReturns
              \/ RunPosted \/ IoExit
BeatRuns(n) == \/ Closes(Beat(n))
               \/ BeatCheck(n) \/ BeatLock(n) \/ BeatSleep(n) \/ BeatWoken(n) \/ BeatTick(n)
               \/ BeatError(n) \/ BeatClose(n)

Network == \/ Connected \/ ConnectFails
           \/ ReadOpen \/ ReadPing \/ ReadPong \/ ReadMessage \/ ReadClose \/ ReadFails
           \/ WriteDone \/ WriteFails

Next == \/ Open \/ Send \/ SendPost
        \/ \E t \in Threads : Close(t)
        \/ OpenerRuns \/ CloserRuns \/ IoRuns
        \/ \E n \in 1 .. MaxHandshakes : BeatRuns(n)
        \/ Network
        \/ Silence

Spec == Init /\ [][Next]_vars

(* Threads run and ping intervals end.  Nothing is assumed of the network.      *)
FairSpec == /\ Spec
            /\ WF_vars(CloserRuns) /\ WF_vars(IoRuns)
            /\ \A n \in 1 .. MaxHandshakes : WF_vars(BeatRuns(n))
-----------------------------------------------------------------------------
Packets == {"none", "OPEN", "MESSAGE", "CLOSE", "lost", "error"}

PcOK == /\ pc \in [Threads -> OpenerPcs \cup SenderPcs \cup CloserPcs \cup IoPcs \cup BeatPcs]
        /\ pc[Opener] \in OpenerPcs /\ pc[Sender] \in SenderPcs
        /\ pc[Closer] \in CloserPcs /\ pc[Io] \in IoPcs
        /\ \A n \in 1 .. MaxHandshakes : pc[Beat(n)] \in BeatPcs

(* Every variable keeps its type.  Beast allows one outstanding async_write.    *)
TypeOK ==
    /\ {open, closing, stop, stale, tclosing, stopped, reading, inprog, expired, reported}
          \subseteq BOOLEAN
    /\ handle \in 0 .. beats /\ beats \in 0 .. MaxHandshakes /\ sent \in 0 .. MaxSends
    /\ posted \in Seq(0 .. sent) /\ queue \in Seq(1 .. sent)
    /\ Len(flying) <= 1
    /\ link \in {"none", "connecting", "up", "closed"}
    /\ packet \in Packets
    /\ joins \in [Threads -> 0 .. MaxHandshakes]
    /\ PcOK

(* What is written is written once, in the order in which it was posted.        *)
WritesInOrder == \A i, j \in DOMAIN wire : i < j => wire[i] < wire[j]

Beating(n) == pc[Beat(n)] \notin {"unborn", "done"}

(* A heartbeat thread is started over an empty handle (std::thread terminates    *)
(* the program otherwise), when every heartbeat before it has ended.            *)
OneHeartbeat == pc[Io] = "start" /\ ~closing =>
                    handle = None /\ \A n \in 1 .. MaxHandshakes : ~Beating(n)

(* An open session is watched: while the I/O thread waits for the next event,    *)
(* a heartbeat thread runs that nobody has told to stop, or it met the timeout. *)
Watched == open /\ ~closing /\ pc[Io] = "idle" =>
               \/ expired
               \/ ~stop /\ \E n \in 1 .. MaxHandshakes : handle = n /\ Beating(n)

(* A heartbeat that was told to stop does not sleep through its interval: it is  *)
(* awake, or the thread that stops it is about to notify.                       *)
PromptStop == stop => \A n \in 1 .. MaxHandshakes : pc[Beat(n)] = "asleep" =>
                         \E t \in Threads : pc[t] \in {"notify", "close_notify"}

(* When sync_close() has returned, the I/O thread and every heartbeat thread      *)
(* have ended, whoever took the handle of the heartbeat.                        *)
SyncCloseStopsSession ==
    pc[Closer] = "synced" => /\ pc[Io] \in {"unborn", "exited"}
                             /\ \A n \in 1 .. MaxHandshakes : ~Beating(n)

(* sync_close() returns.                                                       *)
SyncCloseReturns == pc[Closer] = "sync" ~> pc[Closer] = "synced"

(* A server that stays silent is noticed.                                       *)
SilenceNoticed == open /\ stale ~> ~open \/ ~stale \/ closing \/ expired

(* A ping timeout ends the connection for the client: it is reported as closed,  *)
(* or the application closes it.                                               *)
TimeoutReported == expired ~> reported \/ closing
=============================================================================
