------------------------------- MODULE Socket -------------------------------
(***************************************************************************)
(* One namespace socket of a sioxx client (src/socket.cpp) with the        *)
(* deadline worker it owns (src/ack_scheduler.hpp).                        *)
(*                                                                         *)
(* Every critical section of socket::mutex_ is one action; what a thread   *)
(* carries from one critical section to the next is in pc, pkt, due and    *)
(* claimed.  The scheduler's own mutex is only ever taken inside a critical *)
(* section of mutex_, once, or by the worker's loop, so its operations are  *)
(* part of those actions.                                                  *)
(*                                                                         *)
(* An operator whose name ends in _Bug is a plausible mistake in the code   *)
(* of the definition that follows it.  No specification uses one: they are *)
(* there to show that the properties notice the mistake.                   *)
(*                                                                         *)
(* Threads: application threads (emit, disconnect), the threads of the     *)
(* transports that deliver frames (mark_connected, dispatch_ack; a polling *)
(* transport has several, and two engines overlap during a reconnect), the *)
(* deadline worker, and the thread that shuts the client down.             *)
(***************************************************************************)
EXTENDS Integers, Sequences, FiniteSets

CONSTANTS Apps,          \* application threads
          IoThreads,     \* threads that deliver frames and transport events
          Worker,        \* the thread of ack_scheduler
          Closer,        \* the thread in client close(), sync_close(), connect()
          MaxIds,        \* bound: acknowledgement ids handed out
          MaxEmits,      \* bound: emissions of one application thread
          MaxTime,       \* bound: last reading of the steady clock
          Timeouts,      \* the timeouts an application passes
          SendMayThrow   \* can send_packet throw (the parser rejects a payload)?

ASSUME ThreadAssumption ==
    /\ Worker # Closer
    /\ {Worker, Closer} \cap (Apps \cup IoThreads) = {}
    /\ Apps \cap IoThreads = {}
    /\ IsFiniteSet(Apps) /\ IsFiniteSet(IoThreads)

ASSUME BoundAssumption ==
    /\ MaxIds \in Nat /\ MaxEmits \in Nat /\ MaxTime \in Nat
    /\ Timeouts \subseteq Nat \ {0}
    /\ SendMayThrow \in BOOLEAN

VARIABLES connected,     \* connected_
          flushing,      \* flushing_send_buffer_
          buffer,        \* send_buffer_: packets with their place in the queue
          tail,          \* the place the next buffered packet gets
          next_ack_id,   \* next_ack_id_
          pending_acks,  \* keys of pending_acks_
          timed_acks,    \* keys of timed_acks_
          active,        \* active_timed_acks_
          closed,        \* timed_acks_closed_
          scheduled,     \* keys of the scheduler's deadlines (and ordered)
          deadline,      \* the deadline an id was registered with
          wakeAt,        \* what the waiting worker waits for: a time or Never
          claimed,       \* the id the worker took from the scheduler
          now,           \* steady_clock::now()
          pc,            \* where each thread stands
          pkt,           \* the packet a thread carries between critical sections
          due,           \* the deadline a timed emit computed before it locks
          emits,         \* emissions made so far by each application thread
          wire,          \* history: packets handed to client_impl::send_packet
          outcome,       \* history: how a timed emission was resolved
          calls          \* history: starts of each acknowledgement callback

socketVars    == <<connected, flushing, buffer, tail, next_ack_id,
                   pending_acks, timed_acks, active, closed>>
schedulerVars == <<scheduled, deadline, wakeAt, claimed>>
threadVars    == <<pc, pkt, due, emits>>
historyVars   == <<wire, outcome, calls>>
vars == <<socketVars, schedulerVars, now, threadVars, historyVars>>

Threads == Apps \cup IoThreads \cup {Worker, Closer}
Ids     == 0 .. MaxIds - 1
Times   == 0 .. MaxTime
Never   == MaxTime + 1

NoId == -1
Packet   == [id : Ids \cup {NoId}, from : Apps, nth : 1 .. MaxEmits]
NoPacket == [id |-> NoId, from |-> Closer, nth |-> 0]
Entry    == [place : Nat, pkt : Packet]

AppPcs    == {"idle", "ready", "timed", "send", "disconnect"}
IoPcs     == {"idle", "flush", "flush_send", "flush_expire", "flush_callback",
              "callback", "throw"}
WorkerPcs == {"loop", "waiting", "expire", "callback"}
CloserPcs == {"idle", "close", "disconnect", "wait", "synced"}

FlushPcs    == {"flush", "flush_send", "flush_expire", "flush_callback"}
CallbackPcs == {"callback", "flush_callback"}
-----------------------------------------------------------------------------
Init ==
    /\ connected = FALSE /\ flushing = FALSE
    /\ buffer = {} /\ tail = 0
    /\ next_ack_id = 0
    /\ pending_acks = {} /\ timed_acks = {}
    /\ active = 0 /\ closed = FALSE
    /\ scheduled = {} /\ deadline = [id \in Ids |-> 0]
    /\ wakeAt = Never /\ claimed = NoId
    /\ now = 0
    /\ pc = [t \in Threads |-> IF t = Worker THEN "loop" ELSE "idle"]
    /\ pkt = [t \in Threads |-> NoPacket]
    /\ due = [a \in Apps |-> 0]
    /\ emits = [a \in Apps |-> 0]
    /\ wire = <<>>
    /\ outcome = [id \in Ids |-> "unused"]
    /\ calls = [id \in Ids |-> 0]

Goto(t, l) == pc' = [pc EXCEPT ![t] = l]

(* send_buffer_ is a deque: push_back gives a packet the next place, front is  *)
(* the packet in the first place taken, and erasing frees places.             *)
PushBack(p) == /\ buffer' = buffer \cup {[place |-> tail, pkt |-> p]}
               /\ tail' = tail + 1

IsFront(e) == e \in buffer /\ \A o \in buffer : e.place <= o.place

Erase(ids) == buffer' = {e \in buffer : e.pkt.id \notin ids}
-----------------------------------------------------------------------------
(* The scheduler, as its callers see it.  *)

\* The comparison with the clock is strict.
Expired_Bug(id) == id \notin scheduled \/ deadline[id] < now

\* ack_scheduler::expired: an id without a deadline was claimed by the worker.
Expired(id) == id \notin scheduled \/ deadline[id] <= now

\* The notification is forgotten.
Notified_Bug == pc

\* notify_one: the waiting worker re-examines the deadlines.
Notified == [pc EXCEPT ![Worker] = IF @ = "waiting" THEN "loop" ELSE @]

IsEarliest(id) ==
    /\ id \in scheduled
    /\ \A o \in scheduled : \/ deadline[id] < deadline[o]
                            \/ deadline[id] = deadline[o] /\ id <= o

\* One turn of the worker's loop, from the lock to the wait or to the claim.
WorkerLoop ==
    /\ pc[Worker] = "loop"
    /\ \/ /\ scheduled = {}
          /\ wakeAt' = Never
          /\ Goto(Worker, "waiting")
          /\ UNCHANGED <<scheduled, claimed>>
       \/ \E id \in scheduled :
             /\ IsEarliest(id) /\ deadline[id] > now
             /\ wakeAt' = deadline[id]
             /\ Goto(Worker, "waiting")
             /\ UNCHANGED <<scheduled, claimed>>
       \/ \E id \in scheduled :
             /\ IsEarliest(id) /\ deadline[id] <= now
             /\ scheduled' = scheduled \ {id}
             /\ claimed' = id
             /\ Goto(Worker, "expire")
             /\ UNCHANGED wakeAt
    /\ UNCHANGED <<socketVars, deadline, now, pkt, due, emits, historyVars>>

\* wait_until reached its time.
WorkerWake ==
    /\ pc[Worker] = "waiting"
    /\ wakeAt <= now
    /\ Goto(Worker, "loop")
    /\ UNCHANGED <<socketVars, schedulerVars, now, pkt, due, emits, historyVars>>
-----------------------------------------------------------------------------
(* Emission.  *)

Emission(a, id) == [id |-> id, from |-> a, nth |-> emits[a] + 1]

\* The flush in progress is ignored: an emit may overtake the buffer.
SendOrBuffer_Bug(a, p) ==
    IF ~connected
    THEN /\ PushBack(p)
         /\ Goto(a, "idle")
         /\ pkt' = [pkt EXCEPT ![a] = NoPacket]
    ELSE /\ Goto(a, "send")
         /\ pkt' = [pkt EXCEPT ![a] = p]
         /\ UNCHANGED <<buffer, tail>>

\* The critical section of send_or_buffer: buffer the packet, or leave with it.
SendOrBuffer(a, p) ==
    IF ~connected \/ flushing
    THEN /\ PushBack(p)
         /\ Goto(a, "idle")
         /\ pkt' = [pkt EXCEPT ![a] = NoPacket]
    ELSE /\ Goto(a, "send")
         /\ pkt' = [pkt EXCEPT ![a] = p]
         /\ UNCHANGED <<buffer, tail>>

\* emit(event, data)
Emit(a) ==
    /\ pc[a] = "idle" /\ emits[a] < MaxEmits
    /\ SendOrBuffer(a, Emission(a, NoId))
    /\ emits' = [emits EXCEPT ![a] = @ + 1]
    /\ UNCHANGED <<connected, flushing, next_ack_id, pending_acks, timed_acks,
                   active, closed, schedulerVars, now, due, historyVars>>

\* emit(event, data, callback): the id and the callback are registered first.
EmitAck(a) ==
    /\ pc[a] = "idle" /\ emits[a] < MaxEmits /\ next_ack_id < MaxIds
    /\ next_ack_id' = next_ack_id + 1
    /\ pending_acks' = pending_acks \cup {next_ack_id}
    /\ pkt' = [pkt EXCEPT ![a] = Emission(a, next_ack_id)]
    /\ emits' = [emits EXCEPT ![a] = @ + 1]
    /\ Goto(a, "ready")
    /\ UNCHANGED <<connected, flushing, buffer, tail, timed_acks, active, closed,
                   schedulerVars, now, due, historyVars>>

\* ... and the packet is sent or buffered in a second critical section.
EmitAckSend(a) ==
    /\ pc[a] = "ready"
    /\ SendOrBuffer(a, pkt[a])
    /\ UNCHANGED <<connected, flushing, next_ack_id, pending_acks, timed_acks,
                   active, closed, schedulerVars, now, due, emits, historyVars>>

\* emit(event, data, timeout, callback): the deadline starts at the call, before
\* the lock; it saturates at the clock's last value.
TimedEmit(a, timeout) ==
    /\ pc[a] = "idle" /\ emits[a] < MaxEmits
    /\ due' = [due EXCEPT ![a] = IF timeout >= MaxTime - now
                                   THEN MaxTime ELSE now + timeout]
    /\ Goto(a, "timed")
    /\ UNCHANGED <<socketVars, schedulerVars, now, pkt, emits, historyVars>>

\* Its critical section: register_timed_ack, then drop, buffer or send.
TimedEmitLocked(a) ==
    LET id == next_ack_id IN
    /\ pc[a] = "timed" /\ ~closed /\ next_ack_id < MaxIds
    /\ next_ack_id' = id + 1
    /\ timed_acks' = timed_acks \cup {id}
    /\ scheduled' = scheduled \cup {id}
    /\ deadline' = [deadline EXCEPT ![id] = due[a]]
    /\ emits' = [emits EXCEPT ![a] = @ + 1]
    /\ IF due[a] <= now \/ ~connected \/ flushing
         THEN /\ pc' = [Notified EXCEPT ![a] = "idle"]
              /\ IF due[a] <= now THEN UNCHANGED <<buffer, tail>>
                                  ELSE PushBack(Emission(a, id))
              /\ UNCHANGED pkt
         ELSE /\ pc' = [Notified EXCEPT ![a] = "send"]
              /\ pkt' = [pkt EXCEPT ![a] = Emission(a, id)]
              /\ UNCHANGED <<buffer, tail>>
    /\ UNCHANGED <<connected, flushing, pending_acks, active, closed, wakeAt,
                   claimed, now, due, historyVars>>

\* register_timed_ack throws logic_error after a shutdown.
TimedEmitRejected(a) ==
    /\ pc[a] = "timed" /\ closed
    /\ Goto(a, "idle")
    /\ UNCHANGED <<socketVars, schedulerVars, now, pkt, due, emits, historyVars>>

\* client_impl::send_packet, outside the lock; it may throw to the caller.
SendPacket(a) ==
    /\ pc[a] = "send"
    /\ \/ wire' = Append(wire, pkt[a])
       \/ SendMayThrow /\ UNCHANGED wire
    /\ pkt' = [pkt EXCEPT ![a] = NoPacket]
    /\ Goto(a, "idle")
    /\ UNCHANGED <<socketVars, schedulerVars, now, due, emits, outcome, calls>>

\* disconnect(): the DISCONNECT packet is sent first, by an application thread or
\* by close(), and connected_ is cleared in a critical section of its own.
Disconnect(a) ==
    /\ pc[a] = "idle"
    /\ Goto(a, "disconnect")
    /\ UNCHANGED <<socketVars, schedulerVars, now, pkt, due, emits, historyVars>>

DisconnectLocked(t) ==
    /\ pc[t] = "disconnect"
    /\ connected' = FALSE
    /\ Goto(t, IF t = Closer THEN "wait" ELSE "idle")
    /\ UNCHANGED <<flushing, buffer, tail, next_ack_id, pending_acks, timed_acks,
                   active, closed, schedulerVars, now, pkt, due, emits, historyVars>>
-----------------------------------------------------------------------------
(* Frames and transport events.  *)

\* Every rising edge starts a flush.
MarkConnected_Bug(t) ==
    /\ pc[t] = "idle"
    /\ connected' = TRUE
    /\ IF ~connected
         THEN flushing' = TRUE /\ Goto(t, "flush")
         ELSE UNCHANGED <<flushing, pc>>
    /\ UNCHANGED <<buffer, tail, next_ack_id, pending_acks, timed_acks, active, closed,
                   schedulerVars, now, pkt, due, emits, historyVars>>

\* mark_connected(true): only a rising edge starts a flush, and only when no
\* thread is flushing already.
MarkConnected(t) ==
    /\ pc[t] = "idle"
    /\ connected' = TRUE
    /\ IF ~connected /\ ~flushing
         THEN flushing' = TRUE /\ Goto(t, "flush")
         ELSE UNCHANGED <<flushing, pc>>
    /\ UNCHANGED <<buffer, tail, next_ack_id, pending_acks, timed_acks, active, closed,
                   schedulerVars, now, pkt, due, emits, historyVars>>

\* mark_connected(false): a DISCONNECT frame, or the transport closed.
Disconnected(t, from) ==
    /\ pc[t] = from
    /\ connected' = FALSE
    /\ Goto(t, "idle")
    /\ UNCHANGED <<flushing, buffer, tail, next_ack_id, pending_acks, timed_acks,
                   active, closed, schedulerVars, now, pkt, due, emits, historyVars>>

MarkDisconnected(t) == Disconnected(t, "idle")

\* The exception of FlushSend ended in fail(), whose close handler disconnects.
Unwind(t) == Disconnected(t, "throw")

\* The loop ends one packet early.
FlushNext_Bug(t) ==
    /\ pc[t] = "flush"
    /\ \/ /\ ~connected \/ Cardinality(buffer) <= 1
          /\ flushing' = FALSE
          /\ Goto(t, "idle")
          /\ UNCHANGED <<buffer, pkt>>
       \/ \E e \in buffer :
             /\ connected /\ Cardinality(buffer) > 1 /\ IsFront(e)
             /\ buffer' = buffer \ {e}
             /\ pkt' = [pkt EXCEPT ![t] = e.pkt]
             /\ Goto(t, "flush_send")
             /\ UNCHANGED flushing
    /\ UNCHANGED <<connected, tail, next_ack_id, pending_acks, timed_acks, active,
                   closed, schedulerVars, now, due, emits, historyVars>>

\* The critical section of flush_send_buffer's loop.
FlushNext(t) ==
    /\ pc[t] = "flush"
    /\ \/ /\ ~connected \/ buffer = {}
          /\ flushing' = FALSE
          /\ Goto(t, "idle")
          /\ UNCHANGED <<buffer, pkt>>
       \/ \E e \in buffer :
             /\ connected /\ IsFront(e)
             /\ buffer' = buffer \ {e}
             /\ pkt' = [pkt EXCEPT ![t] = e.pkt]
             /\ Goto(t, IF e.pkt.id \in timed_acks /\ Expired(e.pkt.id)
                          THEN "flush_expire" ELSE "flush_send")
             /\ UNCHANGED flushing
    /\ UNCHANGED <<connected, tail, next_ack_id, pending_acks, timed_acks, active,
                   closed, schedulerVars, now, due, emits, historyVars>>

\* send_packet from the flush.  An exception unwinds through mark_connected to
\* http_polling_transport::run, which fails the transport.
FlushSend(t) ==
    /\ pc[t] = "flush_send"
    /\ \/ wire' = Append(wire, pkt[t]) /\ Goto(t, "flush")
       \/ SendMayThrow /\ UNCHANGED wire /\ Goto(t, "throw")
    /\ pkt' = [pkt EXCEPT ![t] = NoPacket]
    /\ UNCHANGED <<socketVars, schedulerVars, now, due, emits, outcome, calls>>

\* The running callback is not counted.
ExpireAckUncounted_Bug(id) ==
    /\ id \in timed_acks
    /\ timed_acks' = timed_acks \ {id}
    /\ Erase({id})
    /\ outcome' = [outcome EXCEPT ![id] = "timeout"]
    /\ calls' = [calls EXCEPT ![id] = @ + 1]
    /\ UNCHANGED active

\* The callback is taken without looking whether it is still there.
ExpireAckUnchecked_Bug(id) ==
    /\ timed_acks' = timed_acks \ {id}
    /\ active' = active + 1
    /\ Erase({id})
    /\ outcome' = [outcome EXCEPT ![id] = "timeout"]
    /\ calls' = [calls EXCEPT ![id] = @ + 1]

\* The expired packet stays in the send buffer.
ExpireAckBuffered_Bug(id) ==
    /\ id \in timed_acks
    /\ timed_acks' = timed_acks \ {id}
    /\ active' = active + 1
    /\ outcome' = [outcome EXCEPT ![id] = "timeout"]
    /\ calls' = [calls EXCEPT ![id] = @ + 1]
    /\ UNCHANGED buffer

\* The critical section of expire_ack, which claims the callback of id.
ExpireAck(id) ==
    /\ id \in timed_acks
    /\ timed_acks' = timed_acks \ {id}
    /\ active' = active + 1
    /\ Erase({id})
    /\ outcome' = [outcome EXCEPT ![id] = "timeout"]
    /\ calls' = [calls EXCEPT ![id] = @ + 1]

\* expire_ack finds that another thread already claimed the callback.
AlreadyClaimed(id) ==
    /\ id \notin timed_acks
    /\ UNCHANGED <<timed_acks, active, buffer, outcome, calls>>

FlushExpire(t) ==
    /\ pc[t] = "flush_expire"
    /\ \/ ExpireAck(pkt[t].id) /\ Goto(t, "flush_callback")
       \/ AlreadyClaimed(pkt[t].id) /\ Goto(t, "flush")
    /\ pkt' = [pkt EXCEPT ![t] = NoPacket]
    /\ UNCHANGED <<connected, flushing, tail, next_ack_id, pending_acks, closed,
                   schedulerVars, now, due, emits, wire>>

WorkerExpire ==
    /\ pc[Worker] = "expire"
    /\ \/ ExpireAck(claimed) /\ Goto(Worker, "callback")
       \/ AlreadyClaimed(claimed) /\ Goto(Worker, "loop")
    /\ claimed' = NoId
    /\ UNCHANGED <<connected, flushing, tail, next_ack_id, pending_acks, closed, scheduled,
                   deadline, wakeAt, now, pkt, due, emits, wire>>

\* finish_timed_ack, after the callback returned.
FinishTimedAck(t) ==
    /\ pc[t] \in CallbackPcs
    /\ active' = active - 1
    /\ Goto(t, CASE pc[t] = "flush_callback" -> "flush"
                 [] t = Worker -> "loop"
                 [] OTHER -> "idle")
    /\ UNCHANGED <<connected, flushing, buffer, tail, next_ack_id, pending_acks, timed_acks,
                   closed, schedulerVars, now, pkt, due, emits, historyVars>>

\* dispatch_ack of a timed emission: the scheduler decides the verdict.
DispatchTimedAck(t, id) ==
    /\ pc[t] = "idle" /\ id \in timed_acks
    /\ scheduled' = scheduled \ {id}
    /\ timed_acks' = timed_acks \ {id}
    /\ active' = active + 1
    /\ Erase({id})
    /\ outcome' = [outcome EXCEPT ![id] = IF Expired(id) THEN "timeout"
                                                        ELSE "acknowledged"]
    /\ calls' = [calls EXCEPT ![id] = @ + 1]
    /\ LET woken == IF id \in scheduled THEN Notified ELSE pc
       IN  pc' = [woken EXCEPT ![t] = "callback"]
    /\ UNCHANGED <<connected, flushing, tail, next_ack_id, pending_acks, closed, deadline,
                   wakeAt, claimed, now, pkt, due, emits, wire>>

\* dispatch_ack of an untimed emission; an unknown id changes nothing.
DispatchAck(t, id) ==
    /\ pc[t] = "idle" /\ id \notin timed_acks /\ id \in pending_acks
    /\ pending_acks' = pending_acks \ {id}
    /\ calls' = [calls EXCEPT ![id] = @ + 1]
    /\ UNCHANGED <<connected, flushing, buffer, tail, next_ack_id, timed_acks, active, closed,
                   schedulerVars, now, threadVars, wire, outcome>>
-----------------------------------------------------------------------------
(* client_impl::close(), sync_close() and connect(), as they reach the socket. *)

\* The deadlines are dropped but the callbacks are kept.
CancelTimedAcks_Bug ==
    /\ pc[Closer] = "idle"
    /\ closed' = TRUE
    /\ scheduled' = {}
    /\ Erase(timed_acks)
    /\ pc' = [Notified EXCEPT ![Closer] = "close"]
    /\ UNCHANGED <<connected, flushing, tail, next_ack_id, pending_acks, timed_acks, active,
                   deadline, wakeAt, claimed, now, pkt, due, emits, historyVars>>

CancelTimedAcks ==
    /\ pc[Closer] = "idle"
    /\ closed' = TRUE
    /\ scheduled' = {}
    /\ Erase(timed_acks)
    /\ timed_acks' = {}
    /\ outcome' = [id \in Ids |-> IF id \in timed_acks THEN "cancelled" ELSE outcome[id]]
    /\ pc' = [Notified EXCEPT ![Closer] = "close"]
    /\ UNCHANGED <<connected, flushing, tail, next_ack_id, pending_acks, active, deadline,
                   wakeAt, claimed, now, pkt, due, emits, wire, calls>>

\* if (sock->connected()) sock->disconnect();
CloseDisconnect ==
    /\ pc[Closer] = "close"
    /\ Goto(Closer, IF connected THEN "disconnect" ELSE "wait")
    /\ UNCHANGED <<socketVars, schedulerVars, now, pkt, due, emits, historyVars>>

\* sync_close() does not wait for the callbacks that are running.
WaitForTimedAcks_Bug ==
    /\ pc[Closer] = "wait"
    /\ Goto(Closer, "synced")
    /\ UNCHANGED <<socketVars, schedulerVars, now, pkt, due, emits, historyVars>>

\* wait_for_timed_acks, the last thing sync_close() does.
WaitForTimedAcks ==
    /\ pc[Closer] = "wait"
    /\ active = 0
    /\ Goto(Closer, "synced")
    /\ UNCHANGED <<socketVars, schedulerVars, now, pkt, due, emits, historyVars>>

\* connect() again, after close() (which does not wait) or after sync_close().
ResumeTimedAcks ==
    /\ pc[Closer] \in {"wait", "synced"}
    /\ closed' = FALSE
    /\ Goto(Closer, "idle")
    /\ UNCHANGED <<connected, flushing, buffer, tail, next_ack_id, pending_acks, timed_acks,
                   active, schedulerVars, now, pkt, due, emits, historyVars>>
-----------------------------------------------------------------------------
Tick ==
    /\ now < MaxTime
    /\ now' = now + 1
    /\ UNCHANGED <<socketVars, schedulerVars, threadVars, historyVars>>

App(a) == \/ Emit(a)
          \/ EmitAck(a)
          \/ EmitAckSend(a)
          \/ \E timeout \in Timeouts : TimedEmit(a, timeout)
          \/ TimedEmitLocked(a)
          \/ TimedEmitRejected(a)
          \/ SendPacket(a)
          \/ Disconnect(a)
          \/ DisconnectLocked(a)

Io(t) == \/ MarkConnected(t)
         \/ MarkDisconnected(t)
         \/ Unwind(t)
         \/ FlushNext(t)
         \/ FlushSend(t)
         \/ FlushExpire(t)
         \/ FinishTimedAck(t)
         \/ \E id \in Ids : DispatchTimedAck(t, id) \/ DispatchAck(t, id)

Deadlines == WorkerLoop \/ WorkerWake \/ WorkerExpire \/ FinishTimedAck(Worker)

Shutdown == \/ CancelTimedAcks
            \/ CloseDisconnect
            \/ DisconnectLocked(Closer)
            \/ WaitForTimedAcks
            \/ ResumeTimedAcks

Next == \/ \E a \in Apps : App(a)
        \/ \E t \in IoThreads : Io(t)
        \/ Deadlines
        \/ Shutdown
        \/ Tick

Spec == Init /\ [][Next]_vars

(* Threads run: time passes, a waiting thread that may continue does, and code   *)
(* that was entered reaches its next critical section.  What the application, *)
(* the server and the network do (emit, frames, close) is under no fairness.  *)
Fairness ==
    /\ WF_vars(Tick)
    /\ WF_vars(Deadlines)
    /\ \A a \in Apps : WF_vars(EmitAckSend(a) \/ TimedEmitLocked(a)
                                \/ TimedEmitRejected(a) \/ SendPacket(a)
                                \/ DisconnectLocked(a))
    /\ \A t \in IoThreads : WF_vars(FlushNext(t) \/ FlushSend(t) \/ FlushExpire(t)
                                     \/ FinishTimedAck(t) \/ Unwind(t))
    /\ WF_vars(CloseDisconnect \/ DisconnectLocked(Closer))

FairSpec == Spec /\ Fairness
-----------------------------------------------------------------------------
PcOK ==
    /\ pc \in [Threads -> AppPcs \cup IoPcs \cup WorkerPcs \cup CloserPcs]
    /\ \A a \in Apps : pc[a] \in AppPcs
    /\ \A t \in IoThreads : pc[t] \in IoPcs
    /\ pc[Worker] \in WorkerPcs /\ pc[Closer] \in CloserPcs

(* Every variable keeps its type; in particular active_timed_acks_ (a size_t) *)
(* never goes below zero.                                                    *)
TypeOK ==
    /\ connected \in BOOLEAN /\ flushing \in BOOLEAN /\ closed \in BOOLEAN
    /\ buffer \subseteq Entry /\ tail \in Nat /\ wire \in Seq(Packet)
    /\ next_ack_id \in 0 .. MaxIds
    /\ pending_acks \subseteq Ids /\ timed_acks \subseteq Ids /\ scheduled \subseteq Ids
    /\ active \in Nat
    /\ deadline \in [Ids -> Times] /\ due \in [Apps -> Times]
    /\ wakeAt \in Times \cup {Never} /\ claimed \in Ids \cup {NoId}
    /\ now \in Times
    /\ PcOK
    /\ pkt \in [Threads -> Packet \cup {NoPacket}]
    /\ emits \in [Apps -> 0 .. MaxEmits]
    /\ outcome \in [Ids -> {"unused", "acknowledged", "timeout", "cancelled"}]
    /\ calls \in [Ids -> Nat]

(* A pending timed acknowledgement is never orphaned: its deadline is with the *)
(* scheduler, or has passed and the worker is on its way to expire_ack.  The   *)
(* id of an emission that is not pending is with nobody but, once its deadline *)
(* passed, the scheduler (flush_send_buffer expires without ack_scheduler::remove). *)
NeverOrphaned ==
    /\ \A id \in timed_acks : \/ id \in scheduled
                              \/ /\ pc[Worker] = "expire" /\ claimed = id
                                 /\ deadline[id] <= now
    /\ \A id \in scheduled \ timed_acks : deadline[id] <= now

(* The worker never sleeps past a deadline: every change of the deadlines that  *)
(* could make it late wakes it (the notify_one of add, remove and clear).      *)
NeverOversleeps ==
    pc[Worker] = "waiting" => \A id \in scheduled : wakeAt <= deadline[id]

(* No acknowledgement callback runs twice, whichever of the ACK, the worker, *)
(* the flush and the shutdown gets to it first, and none runs for an id that  *)
(* was cancelled or is still pending.                                        *)
CallbackAtMostOnce ==
    \A id \in Ids : /\ calls[id] <= 1
                    /\ (id \in timed_acks \/ outcome[id] = "cancelled") => calls[id] = 0

(* A timed emission in the send buffer is still pending: once it timed out,   *)
(* was acknowledged or was cancelled, nothing in the buffer can send it.      *)
Untimed(id) == id \in pending_acks \/ (outcome[id] = "unused" /\ calls[id] = 1)
BufferedIsPending ==
    \A e \in buffer : e.pkt.id # NoId => e.pkt.id \in timed_acks \/ Untimed(e.pkt.id)

(* flushing_send_buffer_ is set exactly while one thread is in              *)
(* flush_send_buffer, so a rising edge that skips the flush can rely on it.  *)
OneFlusher ==
    /\ flushing <=> \E t \in IoThreads : pc[t] \in FlushPcs
    /\ \A t, u \in IoThreads : pc[t] \in FlushPcs /\ pc[u] \in FlushPcs => t = u

(* While the namespace is connected, a non-empty send buffer is being flushed. *)
NothingStranded == connected /\ buffer # {} => flushing

(* The events of one application thread reach send_packet in the order of the *)
(* emits and none twice, across buffering, flushing and reconnections.        *)
InOrder == \A i, j \in DOMAIN wire :
             i < j /\ wire[i].from = wire[j].from => wire[i].nth < wire[j].nth

(* After sync_close() returned, and until connect(), no timed callback is      *)
(* running or can start, whatever frames still arrive.                        *)
QuietAfterSyncClose ==
    pc[Closer] = "synced" =>
        timed_acks = {} /\ \A t \in Threads : pc[t] \notin CallbackPcs

(* The detailed specification implements the promise of a timed emission.     *)
Promise == INSTANCE TimedAck WITH
    status <- [id \in Ids |-> IF id \in timed_acks THEN "pending" ELSE outcome[id]]
KeepsPromise == Promise!Spec

(* Every pending timed acknowledgement is eventually resolved or cancelled.   *)
TimedAckResolves == \A id \in Ids : id \in timed_acks ~> id \notin timed_acks

Buffered(a, n) == \E e \in buffer : e.pkt.from = a /\ e.pkt.nth = n

(* A buffered event leaves the buffer unless the namespace disconnects.       *)
BufferDrains == \A a \in Apps, n \in 1 .. MaxEmits :
    Buffered(a, n) /\ connected ~> ~Buffered(a, n) \/ ~connected

\* An exception went through flush_send_buffer and left the flag set.
Abandoned == flushing /\ \A t \in IoThreads : pc[t] \notin FlushPcs

(* A buffered event leaves the buffer unless the namespace disconnects or an    *)
(* exception of send_packet cuts the flush short.                            *)
DrainsUnlessThrown == \A a \in Apps, n \in 1 .. MaxEmits :
    Buffered(a, n) /\ connected ~> ~Buffered(a, n) \/ ~connected \/ Abandoned
=============================================================================
