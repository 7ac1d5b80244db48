------------------------------ MODULE SocketInv ------------------------------
(***************************************************************************)
(* The inductive invariant behind the safety properties of Socket, in the  *)
(* groups in which the proof modules prove it.                             *)
(***************************************************************************)
EXTENDS Socket

(* Ids are handed out once, an id is timed or untimed, and the history of a *)
(* callback that was not started yet is empty.                              *)
AckInv ==
    /\ pending_acks \cap timed_acks = {}
    /\ \A id \in Ids : id >= next_ack_id =>
          /\ id \notin pending_acks \cup timed_acks \cup scheduled
          /\ calls[id] = 0 /\ outcome[id] = "unused"
    /\ \A id \in pending_acks \cup timed_acks : calls[id] = 0 /\ outcome[id] = "unused"
    /\ \A id \in Ids : /\ calls[id] <= 1
                       /\ outcome[id] = "cancelled" => calls[id] = 0

(* A thread only holds an id to expire once its deadline has passed.         *)
DeadlineInv ==
    /\ NeverOrphaned
    /\ NeverOversleeps
    /\ pc[Worker] = "expire" =>
          claimed \in Ids /\ claimed < next_ack_id /\ deadline[claimed] <= now
    /\ \A t \in IoThreads : pc[t] = "flush_expire" =>
          /\ pkt[t].id \in Ids /\ pkt[t].id < next_ack_id
          /\ deadline[pkt[t].id] <= now

(* active_timed_acks_ counts the timed callbacks that are running, and from   *)
(* the cancellation to the next connect() nothing is pending.                *)
CallbackThreads == {t \in Threads : pc[t] \in CallbackPcs}
CloseInv ==
    /\ active = Cardinality(CallbackThreads)
    /\ pc[Closer] # "idle" => closed /\ timed_acks = {}
    /\ pc[Closer] = "synced" => active = 0

(* One thread at most flushes, and flushing_send_buffer_ is set while it does. *)
FlushInv ==
    /\ \A t \in IoThreads : pc[t] \in FlushPcs => flushing
    /\ \A t, u \in IoThreads : pc[t] \in FlushPcs /\ pc[u] \in FlushPcs => t = u
    /\ NothingStranded

(* Without exceptions the flag is set only while a thread flushes.           *)
ThrowFree == ~SendMayThrow =>
    /\ \A t \in IoThreads : pc[t] # "throw"
    /\ flushing => \E t \in IoThreads : pc[t] \in FlushPcs

(* Where the packets of a thread are, in the order they were emitted: on the  *)
(* wire, in the hand of the flush, in the buffer, in the thread's own hand.   *)
Before(p, q) == p.from = q.from => p.nth < q.nth
WireOrder ==
    /\ InOrder
    /\ \A i \in DOMAIN wire : /\ wire[i].nth <= emits[wire[i].from]
                              /\ \A e \in buffer : Before(wire[i], e.pkt)
BufferOrder ==
    /\ \A e \in buffer : e.place < tail /\ e.pkt.nth <= emits[e.pkt.from]
    /\ \A e, f \in buffer : e # f => e.place # f.place
    /\ \A e, f \in buffer : e.place < f.place => Before(e.pkt, f.pkt)
FlushHand == \A t \in IoThreads : pc[t] = "flush_send" =>
    /\ pkt[t] \in Packet /\ pkt[t].nth <= emits[pkt[t].from]
    /\ \A i \in DOMAIN wire : Before(wire[i], pkt[t])
    /\ \A e \in buffer : Before(pkt[t], e.pkt)
AppHand == \A a \in Apps :
    /\ pc[a] = "timed" => emits[a] < MaxEmits
    /\ pc[a] \in {"ready", "send"} =>
          /\ pkt[a] \in Packet /\ pkt[a].from = a /\ pkt[a].nth = emits[a]
          /\ \A i \in DOMAIN wire : Before(wire[i], pkt[a])
          /\ \A e \in buffer : Before(e.pkt, pkt[a])
          /\ \A t \in IoThreads : pc[t] = "flush_send" => Before(pkt[t], pkt[a])
    /\ pc[a] = "send" =>
          /\ \A e \in buffer : e.pkt.from # a
          /\ \A t \in IoThreads : pc[t] = "flush_send" => pkt[t].from # a
OrderInv == WireOrder /\ BufferOrder /\ FlushHand /\ AppHand

(* What is on its way into the buffer is an untimed packet.                  *)
PendingInv ==
    /\ BufferedIsPending
    /\ \A a \in Apps : pc[a] = "ready" => pkt[a].id \in Ids /\ Untimed(pkt[a].id)

IInv == /\ TypeOK /\ AckInv /\ DeadlineInv /\ CloseInv
        /\ FlushInv /\ ThrowFree /\ OrderInv /\ PendingInv
=============================================================================
