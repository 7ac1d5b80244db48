-------------------------- MODULE SocketAckProofs ---------------------------
(***************************************************************************)
(* Facts about the operators of Socket that the proofs of its invariants   *)
(* share: what a jump, a notification, a push, an emission or an expiry    *)
(* preserves, and what a send or a push does to the order of packets.      *)
(* Every step keeps the packets of a thread in order, the flush exclusive, *)
(* the acknowledgement ids and their deadlines: OrderInv, FlushInv and     *)
(* ThrowFree, AckInv and DeadlineInv of the inductive invariant.           *)
(***************************************************************************)
EXTENDS SocketInv, TLAPS

(* What a thread's jump, a push to the send buffer and an erasure preserve.  *)
LEMMA GotoType ==
    ASSUME PcOK, NEW t \in Threads, NEW l,
           t \in Apps => l \in AppPcs, t \in IoThreads => l \in IoPcs,
           t = Worker => l \in WorkerPcs, t = Closer => l \in CloserPcs,
           Goto(t, l)
    PROVE  PcOK'
BY ThreadAssumption DEF PcOK, Goto, Threads

(* A jump moves one thread.                                                   *)
LEMMA GotoMoves ==
    ASSUME PcOK, NEW t \in Threads, NEW l, Goto(t, l)
    PROVE  pc'[t] = l /\ \A u \in Threads : u # t => pc'[u] = pc[u]
BY DEF PcOK, Goto

(* A thread takes a packet, or lets it go, for itself.                        *)
LEMMA TakesPacket ==
    ASSUME TypeOK, NEW t \in Threads, NEW p, pkt' = [pkt EXCEPT ![t] = p]
    PROVE  pkt'[t] = p /\ \A u \in Threads : u # t => pkt'[u] = pkt[u]
BY DEF TypeOK

(* notify_one moves the worker only, and to a place of the worker.            *)
LEMMA NotifiedType ==
    ASSUME PcOK, NEW t \in Threads, NEW l,
           t \in Apps => l \in AppPcs, t \in IoThreads => l \in IoPcs,
           t = Closer => l \in CloserPcs, t # Worker,
           pc' = [Notified EXCEPT ![t] = l]
    PROVE  PcOK'
BY ThreadAssumption DEF PcOK, Notified, Threads, WorkerPcs

(* A packet pushed to send_buffer_ is an entry of it.                         *)
LEMMA PushBackType ==
    ASSUME TypeOK, NEW p \in Packet, PushBack(p)
    PROVE  buffer' \subseteq Entry /\ tail' \in Nat
BY DEF TypeOK, PushBack, Entry

(* What Append adds, and what it leaves where it was.                         *)
LEMMA AppendType ==
    ASSUME NEW S, NEW s \in Seq(S), NEW e \in S
    PROVE  /\ Append(s, e) \in Seq(S)
           /\ DOMAIN Append(s, e) = DOMAIN s \cup {Len(s) + 1}
           /\ \A i \in DOMAIN s : Append(s, e)[i] = s[i] /\ i < Len(s) + 1
           /\ Append(s, e)[Len(s) + 1] = e
OBVIOUS

(* An emission within the bound is a packet of its thread.                    *)
LEMMA EmissionType ==
    ASSUME TypeOK, NEW a \in Apps, emits[a] < MaxEmits, NEW id \in Ids \cup {NoId}
    PROVE  Emission(a, id) \in Packet /\ emits[a] + 1 \in 0 .. MaxEmits
BY BoundAssumption DEF TypeOK, Emission, Packet

(* The id handed out next is an id, as long as the bound allows one.          *)
LEMMA NextId ==
    ASSUME TypeOK, next_ack_id < MaxIds
    PROVE  next_ack_id \in Ids /\ next_ack_id + 1 \in 0 .. MaxIds
BY BoundAssumption DEF TypeOK, Ids

(* send_or_buffer keeps the buffer, the hands and the places typed.           *)
LEMMA SendOrBufferType ==
    ASSUME TypeOK, NEW a \in Apps, NEW p \in Packet, SendOrBuffer(a, p)
    PROVE  /\ PcOK' /\ buffer' \subseteq Entry /\ tail' \in Nat
           /\ pkt' \in [Threads -> Packet \cup {NoPacket}]
<1> USE ThreadAssumption DEF Threads
<1>1. CASE ~connected \/ flushing
  BY <1>1, GotoType, PushBackType, Zenon DEF SendOrBuffer, TypeOK, AppPcs
<1>2. CASE ~(~connected \/ flushing)
  BY <1>2, GotoType, ZenonT(30) DEF SendOrBuffer, TypeOK, AppPcs
<1> QED
  BY <1>1, <1>2

(* expire_ack keeps the types of all it changes.                              *)
LEMMA ExpireAckType ==
    ASSUME TypeOK, NEW id \in Ids, ExpireAck(id)
    PROVE  /\ timed_acks' \subseteq Ids /\ active' \in Nat /\ buffer' \subseteq Entry
           /\ outcome' \in [Ids -> {"unused", "acknowledged", "timeout", "cancelled"}]
           /\ calls' \in [Ids -> Nat]
BY DEF TypeOK, ExpireAck, Erase

(* Order.  What is where, with the types the arithmetic needs.               *)
LEMMA PacketFields ==
    ASSUME TypeOK
    PROVE  /\ \A p \in Packet : p.from \in Apps /\ p.nth \in Nat
           /\ \A e \in buffer : e.place \in Nat /\ e.pkt \in Packet
           /\ \A i \in DOMAIN wire : wire[i] \in Packet
           /\ \A a \in Apps : emits[a] \in Nat
<1>1. \A p \in Packet : p.from \in Apps /\ p.nth \in Nat
  BY BoundAssumption DEF Packet
<1>2. \A e \in buffer : e.place \in Nat /\ e.pkt \in Packet
  BY DEF TypeOK, Entry
<1>3. \A i \in DOMAIN wire : wire[i] \in Packet
  BY DEF TypeOK
<1>4. \A a \in Apps : emits[a] \in Nat
  BY BoundAssumption DEF TypeOK
<1> QED
  BY <1>1, <1>2, <1>3, <1>4

(* A step that neither sends nor emits, and takes from the buffer only.      *)
LEMMA OrderKept ==
    ASSUME OrderInv, UNCHANGED <<wire, tail, emits>>, buffer' \subseteq buffer,
           \A t \in IoThreads : pc'[t] = "flush_send" =>
               pc[t] = "flush_send" /\ pkt'[t] = pkt[t],
           \A a \in Apps : /\ pc'[a] \in {"ready", "send"} => pc'[a] = pc[a] /\ pkt'[a] = pkt[a]
                           /\ pc'[a] = "timed" => emits[a] < MaxEmits
    PROVE  OrderInv'
<1> USE DEF OrderInv
<1>1. WireOrder'
  BY DEF WireOrder, InOrder
<1>2. BufferOrder'
  BY DEF BufferOrder
<1>3. FlushHand'
  BY DEF FlushHand
<1>4. AppHand'
  BY DEF AppHand
<1> QED
  BY <1>1, <1>2, <1>3, <1>4

(* A thread that is in a timed emit() may still emit.                          *)
LEMMA TimedHasRoom ==
    ASSUME OrderInv
    PROVE  \A a \in Apps : pc[a] = "timed" => emits[a] < MaxEmits
BY DEF OrderInv, AppHand

(* p comes after everything its thread emitted before: on the wire, in the *)
(* buffer and in the hand of the flush.                                      *)
IsLast(p) == /\ \A i \in DOMAIN wire : Before(wire[i], p)
             /\ \A e \in buffer : Before(e.pkt, p)
             /\ \A t \in IoThreads : pc[t] = "flush_send" => Before(pkt[t], p)

(* A fresh emission comes after everything its thread emitted before.         *)
LEMMA EmissionIsLast ==
    ASSUME TypeOK, OrderInv, NEW a \in Apps, NEW id
    PROVE  IsLast(Emission(a, id))
<1> DEFINE p == Emission(a, id)
<1>0. p.from = a /\ p.nth = emits[a] + 1
  BY DEF Emission
<1> HIDE DEF p
<1>1. ASSUME NEW q \in Packet, q.nth <= emits[q.from] PROVE Before(q, p)
  BY <1>0, <1>1, PacketFields DEF Before
<1> QED
  BY <1>1, PacketFields DEF IsLast, OrderInv, WireOrder, BufferOrder, FlushHand, p

(* Thread a pushes its last packet to the buffer.                            *)
LEMMA OrderPush ==
    ASSUME TypeOK, OrderInv, NEW a \in Apps, NEW p \in Packet, IsLast(p), PushBack(p),
           p.from = a, p.nth = emits'[a], emits[a] <= emits'[a], emits'[a] \in Nat,
           \A b \in Apps : b # a => emits'[b] = emits[b] /\ pc'[b] = pc[b] /\ pkt'[b] = pkt[b],
           \A t \in IoThreads : pc'[t] = pc[t] /\ pkt'[t] = pkt[t],
           UNCHANGED wire, pc'[a] = "idle"
    PROVE  OrderInv'
<1> DEFINE new == [place |-> tail, pkt |-> p]
<1>0. /\ buffer' = buffer \cup {new} /\ tail' = tail + 1 /\ tail \in Nat
      /\ new.place = tail /\ new.pkt = p
      /\ \A e \in buffer : e.place < tail
      /\ \A b \in Apps : emits[b] \in Nat /\ emits'[b] \in Nat /\ emits[b] <= emits'[b]
  BY PacketFields, SMTT(20) DEF PushBack, TypeOK, OrderInv, BufferOrder
<1> HIDE DEF new
<1> USE <1>0, PacketFields DEF OrderInv
<1>1. WireOrder'
  <2>1. InOrder'
    BY DEF WireOrder, InOrder
  <2>2. ASSUME NEW i \in DOMAIN wire
        PROVE  /\ wire[i].nth <= emits'[wire[i].from]
               /\ \A e \in buffer' : Before(wire[i], e.pkt)
    <3>1. wire[i].from \in Apps /\ wire[i].nth \in Nat /\ wire[i].nth <= emits[wire[i].from]
      BY <2>2 DEF WireOrder
    <3>2. wire[i].nth <= emits'[wire[i].from]
      BY <3>1
    <3>3. \A e \in buffer' : Before(wire[i], e.pkt)
      BY <2>2 DEF WireOrder, IsLast
    <3> QED
      BY <3>2, <3>3
  <2> QED
    BY <2>1, <2>2 DEF WireOrder
<1>2. BufferOrder'
  BY DEF BufferOrder, IsLast
<1>3. FlushHand'
  BY DEF FlushHand, IsLast
<1>4. AppHand'
  BY DEF AppHand, Before
<1> QED
  BY <1>1, <1>2, <1>3, <1>4

(* Thread a keeps its last packet in hand; it may send it at once only when   *)
(* nothing is buffered or being flushed.                                     *)
LEMMA OrderHold ==
    ASSUME TypeOK, OrderInv, NEW a \in Apps, NEW p \in Packet, IsLast(p),
           p.from = a, p.nth = emits'[a], emits[a] <= emits'[a], emits'[a] \in Nat,
           \A b \in Apps : b # a => emits'[b] = emits[b] /\ pc'[b] = pc[b] /\ pkt'[b] = pkt[b],
           \A t \in IoThreads : pc'[t] = pc[t] /\ pkt'[t] = pkt[t],
           UNCHANGED <<wire, buffer, tail>>, pkt'[a] = p,
           \/ pc'[a] = "ready"
           \/ /\ pc'[a] = "send" /\ buffer = {}
              /\ \A t \in IoThreads : pc[t] # "flush_send"
    PROVE  OrderInv'
<1>0. \A b \in Apps : emits[b] \in Nat /\ emits'[b] \in Nat /\ emits[b] <= emits'[b]
  BY PacketFields
<1> USE <1>0, PacketFields DEF OrderInv
<1>1. WireOrder'
  BY DEF WireOrder, InOrder
<1>2. BufferOrder'
  BY DEF BufferOrder
<1>3. FlushHand'
  BY DEF FlushHand
<1>4. AppHand'
  BY DEF AppHand, IsLast
<1> QED
  BY <1>1, <1>2, <1>3, <1>4

(* send_or_buffer with the last packet of its thread.                         *)
LEMMA OrderSendOrBuffer ==
    ASSUME TypeOK, OrderInv, FlushInv, NEW a \in Apps, NEW p \in Packet, IsLast(p),
           SendOrBuffer(a, p), UNCHANGED wire,
           p.from = a, p.nth = emits'[a], emits[a] <= emits'[a], emits'[a] \in Nat,
           \A b \in Apps : b # a => emits'[b] = emits[b]
    PROVE  OrderInv'
<1>1. /\ \A b \in Apps : b # a => pc'[b] = pc[b] /\ pkt'[b] = pkt[b]
      /\ \A t \in IoThreads : pc'[t] = pc[t] /\ pkt'[t] = pkt[t]
  BY ThreadAssumption DEF SendOrBuffer, Goto, TypeOK, PcOK, Threads
<1>2. CASE ~connected \/ flushing
  <2>1. PushBack(p) /\ pc'[a] = "idle"
    BY <1>2 DEF SendOrBuffer, Goto, TypeOK, PcOK, Threads
  <2> QED
    BY <1>1, <2>1, OrderPush
<1>3. CASE ~(~connected \/ flushing)
  <2>1. UNCHANGED <<buffer, tail>> /\ pkt'[a] = p /\ pc'[a] = "send"
    BY <1>3 DEF SendOrBuffer, Goto, TypeOK, PcOK, Threads
  <2>2. buffer = {} /\ \A t \in IoThreads : pc[t] # "flush_send"
    BY <1>3 DEF FlushInv, NothingStranded, FlushPcs
  <2> QED
    BY <1>1, <2>1, <2>2, OrderHold
<1> QED
  BY <1>2, <1>3

(* A packet that leaves a thread's hand for the wire.                         *)
LEMMA InOrderAppend ==
    ASSUME TypeOK, InOrder, NEW p \in Packet, wire' = Append(wire, p),
           \A i \in DOMAIN wire : Before(wire[i], p)
    PROVE  /\ InOrder'
           /\ \A i \in DOMAIN wire' : wire'[i] = p \/ \E k \in DOMAIN wire : wire'[i] = wire[k]
<1>1. wire \in Seq(Packet)
  BY DEF TypeOK
<1>2. /\ DOMAIN wire' = DOMAIN wire \cup {Len(wire) + 1}
      /\ \A i \in DOMAIN wire : wire'[i] = wire[i] /\ i < Len(wire) + 1
      /\ wire'[Len(wire) + 1] = p
  BY <1>1, AppendType
<1>3. DOMAIN wire \subseteq Nat /\ Len(wire) \in Nat
  BY <1>1
<1> QED
  BY <1>2, <1>3 DEF InOrder, Before

(* Every step keeps the packets of a thread in emission order.                *)
LEMMA OrderStep == IInv /\ [Next]_vars => OrderInv'
<1> SUFFICES ASSUME IInv, [Next]_vars PROVE OrderInv'
  OBVIOUS
<1>0. TypeOK /\ PcOK /\ FlushInv /\ OrderInv
  BY Zenon DEF IInv, TypeOK
<1> USE <1>0, ThreadAssumption DEF socketVars, schedulerVars, threadVars, historyVars
<1>1. ASSUME NEW a \in Apps, Emit(a) PROVE OrderInv'
  <2> DEFINE p == Emission(a, NoId)
  <2>1. p \in Packet /\ p.from = a /\ p.nth = emits[a] + 1 /\ IsLast(p)
    BY <1>1, EmissionType, EmissionIsLast, Zenon DEF Emit, Emission
  <2>2. /\ emits'[a] = emits[a] + 1 /\ emits[a] \in Nat
        /\ \A b \in Apps : b # a => emits'[b] = emits[b]
    BY <1>1, PacketFields DEF Emit, TypeOK
  <2>3. SendOrBuffer(a, p) /\ UNCHANGED wire
    BY <1>1 DEF Emit
  <2> HIDE DEF p
  <2> QED
    BY <2>1, <2>2, <2>3, OrderSendOrBuffer
<1>2. ASSUME NEW a \in Apps, EmitAck(a) PROVE OrderInv'
  <2> DEFINE p == Emission(a, next_ack_id)
  <2>1. p \in Packet /\ p.from = a /\ p.nth = emits[a] + 1 /\ IsLast(p)
    BY <1>2, NextId, EmissionType, EmissionIsLast, Zenon DEF EmitAck, Emission
  <2>2. /\ emits'[a] = emits[a] + 1 /\ emits[a] \in Nat
        /\ \A b \in Apps : b # a => emits'[b] = emits[b] /\ pc'[b] = pc[b] /\ pkt'[b] = pkt[b]
        /\ \A t \in IoThreads : pc'[t] = pc[t] /\ pkt'[t] = pkt[t]
        /\ UNCHANGED <<wire, buffer, tail>>
        /\ pkt'[a] = p /\ pc'[a] = "ready"
    BY <1>2, PacketFields, Zenon DEF EmitAck, Goto, TypeOK, PcOK, Threads
  <2> HIDE DEF p
  <2> QED
    BY <2>1, <2>2, OrderHold
<1>3. ASSUME NEW a \in Apps, EmitAckSend(a) PROVE OrderInv'
  <2>1. /\ pkt[a] \in Packet /\ pkt[a].from = a /\ pkt[a].nth = emits[a]
        /\ IsLast(pkt[a]) /\ emits[a] \in Nat
    <3>1. pc[a] = "ready" /\ AppHand
      BY <1>3 DEF EmitAckSend, OrderInv
    <3> QED
      BY <3>1, PacketFields, Zenon DEF AppHand, IsLast
  <2>2. SendOrBuffer(a, pkt[a]) /\ UNCHANGED <<wire, emits>>
    BY <1>3, Zenon DEF EmitAckSend
  <2> QED
    BY <2>1, <2>2, OrderSendOrBuffer
<1>4. ASSUME NEW a \in Apps, TimedEmitLocked(a) PROVE OrderInv'
  <2> DEFINE p == Emission(a, next_ack_id)
  <2>1. p \in Packet /\ p.from = a /\ p.nth = emits[a] + 1 /\ IsLast(p)
    <3>1. emits[a] < MaxEmits
      BY <1>4, Zenon DEF TimedEmitLocked, OrderInv, AppHand
    <3> QED
      BY <1>4, <3>1, NextId, EmissionType, EmissionIsLast, Zenon DEF TimedEmitLocked, Emission
  <2>2. /\ emits'[a] = emits[a] + 1 /\ emits[a] \in Nat
        /\ \A b \in Apps : b # a => emits'[b] = emits[b]
        /\ UNCHANGED wire
    BY <1>4, PacketFields, Zenon DEF TimedEmitLocked, TypeOK
  <2>3. /\ \A b \in Apps : b # a => pc'[b] = pc[b] /\ pkt'[b] = pkt[b]
        /\ \A t \in IoThreads : pc'[t] = pc[t] /\ pkt'[t] = pkt[t]
    BY <1>4 DEF TimedEmitLocked, Notified, TypeOK, PcOK, Threads
  <2> HIDE DEF p
  <2>4. CASE PushBack(p) /\ pc' = [Notified EXCEPT ![a] = "idle"]
    <3>1. pc'[a] = "idle"
      BY <2>4 DEF Notified, PcOK, Threads
    <3> QED
      BY <2>1, <2>2, <2>3, <2>4, <3>1, OrderPush
  <2>5. CASE UNCHANGED <<buffer, tail>> /\ pc' = [Notified EXCEPT ![a] = "idle"]
    <3>1. pc'[a] = "idle"
      BY <2>5 DEF Notified, PcOK, Threads
    <3>2. WireOrder' /\ BufferOrder' /\ FlushHand' /\ AppHand'
      <4>0. /\ UNCHANGED <<wire, buffer, tail>>
            /\ \A b \in Apps : emits[b] \in Nat /\ emits'[b] \in Nat /\ emits[b] <= emits'[b]
        BY <2>2, <2>5, PacketFields
      <4> USE <4>0, <2>2, <2>3, PacketFields DEF OrderInv
      <4>1. WireOrder'
        BY DEF WireOrder, InOrder
      <4>2. BufferOrder'
        BY DEF BufferOrder
      <4>3. FlushHand'
        BY DEF FlushHand
      <4>4. AppHand'
        BY <3>1 DEF AppHand
      <4> QED
        BY <4>1, <4>2, <4>3, <4>4, Zenon
    <3> QED
      BY <3>2 DEF OrderInv
  <2>6. CASE /\ ~(~connected \/ flushing) /\ UNCHANGED <<buffer, tail>>
             /\ pc' = [Notified EXCEPT ![a] = "send"] /\ pkt' = [pkt EXCEPT ![a] = p]
    <3>1. pc'[a] = "send" /\ pkt'[a] = p
      BY <2>6 DEF Notified, TypeOK, PcOK, Threads
    <3>2. buffer = {} /\ \A t \in IoThreads : pc[t] # "flush_send"
      BY <2>6 DEF FlushInv, NothingStranded, FlushPcs
    <3> QED
      BY <2>1, <2>2, <2>3, <2>6, <3>1, <3>2, OrderHold
  <2> QED
    BY <1>4, <2>4, <2>5, <2>6, Zenon DEF TimedEmitLocked, p
<1>5. ASSUME NEW a \in Apps, SendPacket(a) PROVE OrderInv'
  <2>1. /\ pkt[a] \in Packet /\ pkt[a].from = a /\ pkt[a].nth = emits[a]
        /\ \A i \in DOMAIN wire : Before(wire[i], pkt[a])
        /\ \A e \in buffer : e.pkt.from # a
        /\ \A t \in IoThreads : pc[t] = "flush_send" => pkt[t].from # a
    BY <1>5, Zenon DEF SendPacket, OrderInv, AppHand
  <2>2. /\ pc'[a] = "idle" /\ UNCHANGED <<buffer, tail, emits>>
        /\ \A b \in Apps : b # a => pc'[b] = pc[b] /\ pkt'[b] = pkt[b]
        /\ \A t \in IoThreads : pc'[t] = pc[t] /\ pkt'[t] = pkt[t]
    BY <1>5, Zenon DEF SendPacket, Goto, TypeOK, PcOK, Threads
  <2>3. CASE UNCHANGED wire
    BY <2>2, <2>3, OrderKept, TimedHasRoom, Zenon
  <2>4. CASE wire' = Append(wire, pkt[a])
    <3>1. /\ InOrder'
          /\ \A i \in DOMAIN wire' :
                wire'[i] = pkt[a] \/ \E k \in DOMAIN wire : wire'[i] = wire[k]
      BY <2>1, <2>4, InOrderAppend, Zenon DEF OrderInv, WireOrder
    <3> USE <2>1, <2>2, PacketFields DEF OrderInv
    <3>2. WireOrder'
      BY <3>1 DEF WireOrder, Before
    <3>3. BufferOrder'
      BY Zenon DEF BufferOrder
    <3>4. FlushHand'
      BY <3>1 DEF FlushHand, Before
    <3>5. AppHand'
      BY <3>1 DEF AppHand, Before
    <3> QED
      BY <3>2, <3>3, <3>4, <3>5, Zenon
  <2> QED
    BY <1>5, <2>3, <2>4, Zenon DEF SendPacket
<1>6. ASSUME NEW t \in IoThreads, FlushNext(t) PROVE OrderInv'
  <2>1. /\ UNCHANGED <<wire, tail, emits>>
        /\ \A u \in IoThreads : u # t => pc'[u] = pc[u] /\ pkt'[u] = pkt[u]
        /\ \A a \in Apps : pc'[a] = pc[a] /\ pkt'[a] = pkt[a]
    <3>1. /\ UNCHANGED <<wire, tail, emits>>
          /\ \E l : Goto(t, l)
          /\ pkt' = pkt \/ \E p : pkt' = [pkt EXCEPT ![t] = p]
      BY <1>6 DEF FlushNext
    <3> QED
      BY <3>1, GotoMoves, TakesPacket DEF Threads
  <2>2. CASE buffer' \subseteq buffer /\ pc'[t] # "flush_send"
    BY <2>1, <2>2, OrderKept, TimedHasRoom, Zenon
  <2>3. ASSUME NEW e \in buffer, IsFront(e), buffer' = buffer \ {e},
               pkt'[t] = e.pkt
        PROVE  OrderInv'
    <3>1. \A f \in buffer' : Before(e.pkt, f.pkt)
      <4>1. ASSUME NEW f \in buffer, f # e PROVE e.place < f.place
        BY <2>3, <4>1, PacketFields DEF IsFront, OrderInv, BufferOrder
      <4> QED
        BY <2>3, <4>1, Zenon DEF OrderInv, BufferOrder
    <3> USE <2>1, <2>3, <3>1, PacketFields DEF OrderInv
    <3>2. WireOrder'
      BY Zenon DEF WireOrder, InOrder
    <3>3. BufferOrder'
      BY Zenon DEF BufferOrder
    <3>4. FlushHand'
      BY Zenon DEF FlushHand, WireOrder, BufferOrder
    <3>5. AppHand'
      BY DEF AppHand
    <3> QED
      BY <3>2, <3>3, <3>4, <3>5, Zenon
  <2>4. CASE Goto(t, "idle") /\ UNCHANGED buffer
    BY <2>2, <2>4, Zenon DEF Goto, PcOK, Threads
  <2>5. ASSUME NEW e \in buffer, IsFront(e), buffer' = buffer \ {e},
               pkt' = [pkt EXCEPT ![t] = e.pkt]
        PROVE  OrderInv'
    <3>1. pkt'[t] = e.pkt
      BY <2>5, Zenon DEF TypeOK, Threads
    <3> QED
      BY <2>3, <2>5, <3>1, Zenon
  <2> QED
    BY <1>6, <2>4, <2>5, Zenon DEF FlushNext
<1>7. ASSUME NEW t \in IoThreads, FlushSend(t) PROVE OrderInv'
  <2>1. /\ pkt[t] \in Packet /\ pkt[t].nth <= emits[pkt[t].from]
        /\ \A i \in DOMAIN wire : Before(wire[i], pkt[t])
        /\ \A e \in buffer : Before(pkt[t], e.pkt)
        /\ pc[t] = "flush_send"
    BY <1>7, Zenon DEF FlushSend, OrderInv, FlushHand
  <2>2. /\ pc'[t] # "flush_send" /\ UNCHANGED <<buffer, tail, emits>>
        /\ \A u \in IoThreads : u # t => pc'[u] = pc[u] /\ pkt'[u] = pkt[u]
        /\ \A a \in Apps : pc'[a] = pc[a] /\ pkt'[a] = pkt[a]
    <3>1. /\ UNCHANGED <<buffer, tail, emits>> /\ pkt' = [pkt EXCEPT ![t] = NoPacket]
          /\ Goto(t, "flush") \/ Goto(t, "throw")
      BY <1>7, Zenon DEF FlushSend
    <3> QED
      BY <3>1, GotoMoves, TakesPacket DEF Threads
  <2>3. CASE UNCHANGED wire
    BY <2>2, <2>3, OrderKept, TimedHasRoom, Zenon
  <2>4. CASE wire' = Append(wire, pkt[t])
    <3>1. /\ InOrder'
          /\ \A i \in DOMAIN wire' :
                wire'[i] = pkt[t] \/ \E k \in DOMAIN wire : wire'[i] = wire[k]
      BY <2>1, <2>4, InOrderAppend, Zenon DEF OrderInv, WireOrder
    <3>0. \A u \in IoThreads : pc'[u] # "flush_send"
      BY <2>1, <2>2, Zenon DEF FlushInv, FlushPcs
    <3> USE <2>1, <2>2, PacketFields DEF OrderInv
    <3>2. WireOrder'
      BY <3>1, Zenon DEF WireOrder
    <3>3. BufferOrder'
      BY Zenon DEF BufferOrder
    <3>4. FlushHand'
      BY <3>0, Zenon DEF FlushHand
    <3>5. AppHand'
      BY <3>0, <3>1 DEF AppHand
    <3> QED
      BY <3>2, <3>3, <3>4, <3>5, Zenon
  <2> QED
    BY <1>7, <2>3, <2>4, Zenon DEF FlushSend
<1>8. CASE /\ UNCHANGED <<wire, tail, emits>> /\ buffer' \subseteq buffer
           /\ \A t \in IoThreads : pc'[t] = "flush_send" =>
                  pc[t] = "flush_send" /\ pkt'[t] = pkt[t]
           /\ \A a \in Apps :
                  /\ pc'[a] \in {"ready", "send"} => pc'[a] = pc[a] /\ pkt'[a] = pkt[a]
                  /\ pc'[a] = "timed" => emits[a] < MaxEmits
  BY <1>8, OrderKept, Zenon
<1>9. ASSUME NEW a \in Apps,
             \/ \E d \in Timeouts : TimedEmit(a, d)
             \/ TimedEmitRejected(a) \/ Disconnect(a)
      PROVE  OrderInv'
  <2>1. /\ UNCHANGED <<wire, tail, emits, buffer, pkt>>
        /\ \A t \in IoThreads : pc'[t] = pc[t]
        /\ \A b \in Apps : b # a => pc'[b] = pc[b]
        /\ pc'[a] \notin {"ready", "send"} /\ (pc'[a] = "timed" => emits[a] < MaxEmits)
    BY <1>9, GotoMoves DEF TimedEmit, TimedEmitRejected, Disconnect, Threads
  <2> QED
    BY <1>8, <2>1, TimedHasRoom, Zenon
<1>10. ASSUME NEW t \in IoThreads,
              \/ MarkConnected(t) \/ MarkDisconnected(t) \/ Unwind(t)
              \/ FlushExpire(t) \/ FinishTimedAck(t)
              \/ \E id \in Ids : DispatchTimedAck(t, id) \/ DispatchAck(t, id)
       PROVE  OrderInv'
  <2>1. UNCHANGED <<wire, tail, emits>> /\ buffer' \subseteq buffer
    BY <1>10, Zenon DEF MarkConnected, MarkDisconnected, Unwind, Disconnected, FlushExpire,
                 ExpireAck, AlreadyClaimed, FinishTimedAck, DispatchTimedAck, DispatchAck, Erase
  <2>2. /\ pc'[t] = "flush_send" => pc[t] = "flush_send"
        /\ \A u \in IoThreads : u # t => pc'[u] = pc[u] /\ pkt'[u] = pkt[u]
        /\ \A a \in Apps : pc'[a] = pc[a] /\ pkt'[a] = pkt[a]
        /\ pc'[t] = "flush_send" => pkt'[t] = pkt[t]
    <3>1. CASE FlushExpire(t)
      <4>1. /\ pkt' = [pkt EXCEPT ![t] = NoPacket]
            /\ Goto(t, "flush_callback") \/ Goto(t, "flush")
        BY <3>1, Zenon DEF FlushExpire
      <4> QED
        BY <4>1, GotoMoves, TakesPacket DEF Threads
    <3>2. CASE \E id \in Ids : DispatchTimedAck(t, id)
      <4>1. PICK id \in Ids : DispatchTimedAck(t, id)
        BY <3>2, Zenon
      <4>2. CASE id \in scheduled
        BY <4>1, <4>2, Zenon DEF DispatchTimedAck, Notified, PcOK, Threads
      <4>3. CASE id \notin scheduled
        BY <4>1, <4>3, Zenon DEF DispatchTimedAck, PcOK, Threads
      <4> QED
        BY <4>2, <4>3
    <3>3. CASE \/ MarkConnected(t) \/ MarkDisconnected(t) \/ Unwind(t)
               \/ FinishTimedAck(t) \/ \E id \in Ids : DispatchAck(t, id)
      BY <3>3, Zenon DEF MarkConnected, MarkDisconnected, Unwind, Disconnected, FinishTimedAck,
                  DispatchAck, Goto, PcOK, Threads
    <3> QED
      BY <1>10, <3>1, <3>2, <3>3, Zenon
  <2> QED
    BY <1>8, <2>1, <2>2, TimedHasRoom, Zenon
<1>11. CASE Deadlines \/ Shutdown \/ (\E a \in Apps : DisconnectLocked(a))
  <2>1. UNCHANGED <<wire, tail, emits, pkt>> /\ buffer' \subseteq buffer
    BY <1>11, Zenon
       DEF Deadlines, WorkerLoop, WorkerWake, WorkerExpire, ExpireAck, AlreadyClaimed,
                 FinishTimedAck, Shutdown, CancelTimedAcks, CloseDisconnect, DisconnectLocked,
                 WaitForTimedAcks, ResumeTimedAcks, Erase
  <2>2. /\ \A t \in IoThreads : pc'[t] = pc[t]
        /\ \A a \in Apps : pc'[a] = pc[a] \/ pc'[a] = "idle"
    <3>1. CASE Deadlines
      BY <3>1, Zenon DEF Deadlines, WorkerLoop, WorkerWake, WorkerExpire, FinishTimedAck, Goto,
                  PcOK, Threads
    <3>2. CASE CancelTimedAcks
      BY <3>2, Zenon DEF CancelTimedAcks, Notified, PcOK, Threads
    <3>3. CASE CloseDisconnect \/ WaitForTimedAcks \/ ResumeTimedAcks
      BY <3>3, Zenon DEF CloseDisconnect, WaitForTimedAcks, ResumeTimedAcks, Goto, PcOK, Threads
    <3>4. ASSUME NEW a \in Apps \cup {Closer}, DisconnectLocked(a)
          PROVE  /\ \A t \in IoThreads : pc'[t] = pc[t]
                 /\ \A b \in Apps : pc'[b] = pc[b] \/ pc'[b] = "idle"
      <4>1. Goto(a, IF a = Closer THEN "wait" ELSE "idle")
        BY <3>4, Zenon DEF DisconnectLocked
      <4> QED
        BY <4>1, GotoMoves, Zenon DEF Threads
    <3> QED
      BY <1>11, <3>1, <3>2, <3>3, <3>4, Zenon DEF Shutdown
  <2> QED
    BY <1>8, <2>1, <2>2, TimedHasRoom, Zenon
<1>12. CASE Tick \/ UNCHANGED vars
  BY <1>12, <1>8 DEF Tick, vars, OrderInv, AppHand
<1> QED
  BY <1>1, <1>2, <1>3, <1>4, <1>5, <1>6, <1>7, <1>9, <1>10, <1>11, <1>12, Zenon
  DEF Next, App, Io
-----------------------------------------------------------------------------
(* Flushing.  A step that leaves no thread in or out of flush_send_buffer and *)
(* adds to the buffer only while the namespace is down or being flushed.      *)
LEMMA FlushKept ==
    ASSUME FlushInv, ThrowFree, UNCHANGED flushing, connected' => connected,
           buffer' \subseteq buffer \/ ~connected \/ flushing,
           \A u \in IoThreads : /\ pc'[u] \in FlushPcs <=> pc[u] \in FlushPcs
                                /\ pc'[u] = "throw" => pc[u] = "throw"
    PROVE  FlushInv' /\ ThrowFree'
<1>1. FlushInv'
  BY DEF FlushInv, NothingStranded
<1>2. ThrowFree'
  BY Zenon DEF ThrowFree
<1> QED
  BY <1>1, <1>2, Zenon

(* Every step keeps the flush exclusive and flagged.                          *)
LEMMA FlushStep == IInv /\ [Next]_vars => FlushInv' /\ ThrowFree'
<1> SUFFICES ASSUME IInv, [Next]_vars PROVE FlushInv' /\ ThrowFree'
  BY Zenon
<1>0. TypeOK /\ PcOK /\ FlushInv /\ ThrowFree
  BY Zenon DEF IInv, TypeOK
<1> USE <1>0, ThreadAssumption DEF socketVars, schedulerVars, threadVars, historyVars
<1>1. ASSUME NEW a \in Apps, App(a) PROVE FlushInv' /\ ThrowFree'
  <2>1. \A u \in IoThreads : pc'[u] = pc[u]
    BY <1>1, Zenon DEF App, Emit, EmitAck, EmitAckSend, SendOrBuffer, TimedEmit, TimedEmitLocked,
                TimedEmitRejected, SendPacket, Disconnect, DisconnectLocked, Notified, Goto,
                PcOK, Threads
  <2>2. /\ UNCHANGED flushing /\ (connected' => connected)
        /\ buffer' \subseteq buffer \/ ~connected \/ flushing
    BY <1>1 DEF App, Emit, EmitAck, EmitAckSend, SendOrBuffer, TimedEmit,
                          TimedEmitLocked, TimedEmitRejected, SendPacket, Disconnect,
                          DisconnectLocked
  <2> QED
    BY <2>1, <2>2, FlushKept, Zenon
<1>2. ASSUME NEW t \in IoThreads, MarkConnected(t) PROVE FlushInv' /\ ThrowFree'
  <2>1. CASE ~connected /\ ~flushing
    <3>1. /\ flushing' /\ pc'[t] = "flush"
          /\ \A u \in IoThreads : u # t => pc'[u] = pc[u]
      BY <1>2, <2>1 DEF MarkConnected, Goto, PcOK, Threads
    <3>2. \A u \in IoThreads : pc[u] \notin FlushPcs
      BY <2>1, Zenon DEF FlushInv
    <3> QED
      BY <3>1, <3>2, Zenon DEF FlushInv, ThrowFree, NothingStranded, FlushPcs
  <2>2. CASE connected \/ flushing
    BY <1>2, <2>2, Zenon DEF MarkConnected, FlushInv, ThrowFree, NothingStranded, TypeOK
  <2> QED
    BY <2>1, <2>2, Zenon
<1>3. ASSUME NEW t \in IoThreads, MarkDisconnected(t) \/ Unwind(t)
      PROVE  FlushInv' /\ ThrowFree'
  <2>1. /\ pc[t] \notin FlushPcs /\ pc'[t] = "idle"
        /\ \A u \in IoThreads : u # t => pc'[u] = pc[u]
        /\ UNCHANGED <<flushing, buffer>> /\ ~connected'
    BY <1>3, Zenon DEF MarkDisconnected, Unwind, Disconnected, Goto, PcOK, Threads, FlushPcs
  <2> QED
    BY <2>1, FlushKept, Zenon DEF FlushPcs
<1>4. ASSUME NEW t \in IoThreads, FlushNext(t) PROVE FlushInv' /\ ThrowFree'
  <2>1. pc[t] \in FlushPcs /\ UNCHANGED connected
    BY <1>4, Zenon DEF FlushNext, FlushPcs
  <2>2. CASE /\ ~connected \/ buffer = {}
             /\ ~flushing' /\ Goto(t, "idle") /\ UNCHANGED buffer
    <3>1. \A u \in IoThreads : pc'[u] \notin FlushPcs
      BY <2>1, <2>2 DEF FlushInv, Goto, PcOK, Threads, FlushPcs
    <3>2. \A u \in IoThreads : pc'[u] = "throw" => pc[u] = "throw"
      BY <2>2, Zenon DEF Goto, PcOK, Threads
    <3> QED
      BY <2>1, <2>2, <3>1, <3>2, Zenon DEF FlushInv, ThrowFree, NothingStranded
  <2>3. CASE /\ UNCHANGED flushing /\ buffer' \subseteq buffer
             /\ \E l \in {"flush_send", "flush_expire"} : Goto(t, l)
    <3>1. /\ pc'[t] \in FlushPcs
          /\ \A u \in IoThreads : u # t => pc'[u] = pc[u]
      BY <2>3, Zenon DEF Goto, PcOK, Threads, FlushPcs
    <3> QED
      BY <2>1, <2>3, <3>1, FlushKept, Zenon DEF FlushPcs
  <2> QED
    BY <1>4, <2>2, <2>3, Zenon DEF FlushNext
<1>5. ASSUME NEW t \in IoThreads, FlushSend(t) PROVE FlushInv' /\ ThrowFree'
  <2>1. /\ pc[t] \in FlushPcs /\ UNCHANGED <<connected, flushing, buffer>>
        /\ \A u \in IoThreads : u # t => pc'[u] = pc[u]
        /\ pc'[t] = "flush" \/ (pc'[t] = "throw" /\ SendMayThrow)
    BY <1>5, Zenon DEF FlushSend, Goto, PcOK, Threads, FlushPcs
  <2> QED
    BY <2>1, Zenon DEF FlushInv, ThrowFree, NothingStranded, FlushPcs
<1>6. ASSUME NEW t \in IoThreads, FlushExpire(t) PROVE FlushInv' /\ ThrowFree'
  <2>1. /\ pc[t] \in FlushPcs /\ pc'[t] \in FlushPcs
        /\ \A u \in IoThreads : u # t => pc'[u] = pc[u]
    BY <1>6, Zenon DEF FlushExpire, Goto, PcOK, Threads, FlushPcs
  <2>2. UNCHANGED <<connected, flushing>> /\ buffer' \subseteq buffer
    BY <1>6 DEF FlushExpire, ExpireAck, AlreadyClaimed, Erase
  <2> QED
    BY <2>1, <2>2, FlushKept, Zenon DEF FlushPcs
<1>7. ASSUME NEW t \in IoThreads \cup {Worker}, FinishTimedAck(t)
      PROVE  FlushInv' /\ ThrowFree'
  <2>1. \A u \in IoThreads : /\ pc'[u] \in FlushPcs <=> pc[u] \in FlushPcs
                             /\ pc'[u] = "throw" => pc[u] = "throw"
    BY <1>7, Zenon DEF FinishTimedAck, Goto, PcOK, Threads, FlushPcs, CallbackPcs
  <2> QED
    BY <1>7, <2>1, FlushKept DEF FinishTimedAck
<1>8. ASSUME NEW t \in IoThreads, NEW id \in Ids, DispatchTimedAck(t, id)
      PROVE  FlushInv' /\ ThrowFree'
  <2>1. /\ pc[t] \notin FlushPcs /\ pc'[t] = "callback"
        /\ \A u \in IoThreads : u # t => pc'[u] = pc[u]
    <3>1. CASE id \in scheduled
      BY <1>8, <3>1, Zenon DEF DispatchTimedAck, Notified, PcOK, Threads, FlushPcs
    <3>2. CASE id \notin scheduled
      BY <1>8, <3>2, Zenon DEF DispatchTimedAck, PcOK, Threads, FlushPcs
    <3> QED
      BY <3>1, <3>2, Zenon
  <2>2. UNCHANGED <<connected, flushing>> /\ buffer' \subseteq buffer
    BY <1>8, Zenon DEF DispatchTimedAck, Erase
  <2> QED
    BY <2>1, <2>2, FlushKept, Zenon DEF FlushPcs
<1>9. ASSUME NEW t \in IoThreads, NEW id \in Ids, DispatchAck(t, id)
      PROVE  FlushInv' /\ ThrowFree'
  BY <1>9, FlushKept, Zenon DEF DispatchAck
<1>10. CASE WorkerLoop \/ WorkerWake \/ WorkerExpire
  <2>1. /\ \A u \in IoThreads : pc'[u] = pc[u]
        /\ UNCHANGED <<connected, flushing>> /\ buffer' \subseteq buffer
    BY <1>10, Zenon DEF WorkerLoop, WorkerWake, WorkerExpire, ExpireAck, AlreadyClaimed, Erase,
                 Goto, PcOK, Threads
  <2> QED
    BY <2>1, FlushKept, Zenon
<1>11. CASE Shutdown
  <2>1. /\ \A u \in IoThreads : pc'[u] = pc[u]
        /\ UNCHANGED flushing /\ (connected' => connected) /\ buffer' \subseteq buffer
    BY <1>11 DEF Shutdown, CancelTimedAcks, CloseDisconnect, DisconnectLocked, Notified,
                 WaitForTimedAcks, ResumeTimedAcks, Erase, Goto, PcOK, Threads
  <2> QED
    BY <2>1, FlushKept, Zenon
<1>12. CASE Tick \/ UNCHANGED vars
  <2> HIDE DEF socketVars, schedulerVars, threadVars, historyVars
  <2>0. UNCHANGED socketVars /\ UNCHANGED threadVars
    BY <1>12, Zenon DEF Tick, vars
  <2>1. /\ \A u \in IoThreads : pc'[u] = pc[u]
        /\ UNCHANGED <<flushing, buffer>> /\ (connected' => connected)
    BY <2>0, Zenon DEF socketVars, threadVars
  <2> QED
    BY <2>1, FlushKept, Zenon
<1> QED
  BY <1>1, <1>2, <1>3, <1>4, <1>5, <1>6, <1>7, <1>8, <1>9, <1>10, <1>11, <1>12, Zenon
  DEF Next, Io, Deadlines

(* Ids: only an emission hands one out, and whoever takes it out of the maps   *)
(* starts its callback or cancels it.                                          *)
ackVars == <<next_ack_id, pending_acks, timed_acks, scheduled, calls, outcome>>

(* expire_ack of a pending id keeps the callback histories consistent.        *)
LEMMA ExpireAckOnce ==
    ASSUME TypeOK, AckInv, NEW id \in Ids, ExpireAck(id),
           UNCHANGED <<next_ack_id, pending_acks, scheduled>>
    PROVE  AckInv'
BY DEF TypeOK, AckInv, ExpireAck

(* Every step keeps AckInv: an id is claimed by whoever removes it.           *)
LEMMA AckStep == IInv /\ [Next]_vars => AckInv'
<1> SUFFICES ASSUME IInv, [Next]_vars PROVE AckInv'
  OBVIOUS
<1>0. TypeOK /\ AckInv
  BY Zenon DEF IInv
<1> USE <1>0 DEF socketVars, schedulerVars, threadVars, historyVars
<1>1. CASE UNCHANGED ackVars
  BY <1>1, Zenon DEF ackVars, AckInv
<1>2. ASSUME NEW a \in Apps, EmitAck(a) PROVE AckInv'
  BY <1>2, NextId DEF EmitAck, AckInv, TypeOK, Ids
<1>3. ASSUME NEW a \in Apps, TimedEmitLocked(a) PROVE AckInv'
  <2>1. UNCHANGED <<pending_acks, calls, outcome>>
    BY <1>3, Zenon DEF TimedEmitLocked
  <2>2. /\ next_ack_id \in Ids /\ next_ack_id' = next_ack_id + 1
        /\ timed_acks' = timed_acks \cup {next_ack_id}
        /\ scheduled' = scheduled \cup {next_ack_id}
    BY <1>3, NextId, Zenon DEF TimedEmitLocked
  <2> QED
    BY <2>1, <2>2 DEF AckInv, TypeOK, Ids
<1>4. ASSUME NEW t \in IoThreads, FlushExpire(t) PROVE AckInv'
  <2>1. pkt[t].id \in Ids
    BY <1>4, Zenon DEF FlushExpire, IInv, DeadlineInv
  <2>2. CASE ExpireAck(pkt[t].id)
    BY <1>4, <2>1, <2>2, ExpireAckOnce, Zenon DEF FlushExpire
  <2>3. CASE AlreadyClaimed(pkt[t].id)
    BY <1>4, <2>3, <1>1, Zenon DEF FlushExpire, AlreadyClaimed, ackVars
  <2> QED
    BY <1>4, <2>2, <2>3, Zenon DEF FlushExpire
<1>5. CASE WorkerExpire
  <2>1. claimed \in Ids
    BY <1>5, Zenon DEF WorkerExpire, IInv, DeadlineInv
  <2>2. CASE ExpireAck(claimed)
    BY <1>5, <2>1, <2>2, ExpireAckOnce, Zenon DEF WorkerExpire
  <2>3. CASE AlreadyClaimed(claimed)
    BY <1>5, <2>3, <1>1, Zenon DEF WorkerExpire, AlreadyClaimed, ackVars
  <2> QED
    BY <1>5, <2>2, <2>3, Zenon DEF WorkerExpire
<1>6. ASSUME NEW t \in IoThreads, NEW id \in Ids, DispatchTimedAck(t, id) PROVE AckInv'
  BY <1>6 DEF DispatchTimedAck, AckInv, TypeOK
<1>7. ASSUME NEW t \in IoThreads, NEW id \in Ids, DispatchAck(t, id) PROVE AckInv'
  BY <1>7 DEF DispatchAck, AckInv, TypeOK
<1>8. CASE WorkerLoop
  BY <1>8, Zenon DEF WorkerLoop, AckInv, TypeOK
<1>9. CASE CancelTimedAcks
  BY <1>9, Zenon DEF CancelTimedAcks, AckInv, TypeOK
<1>10. ASSUME NEW a \in Apps,
              \/ Emit(a) \/ EmitAckSend(a) \/ (\E d \in Timeouts : TimedEmit(a, d))
              \/ TimedEmitRejected(a) \/ SendPacket(a) \/ Disconnect(a)
       PROVE  UNCHANGED ackVars
  BY <1>10, Zenon DEF ackVars, Emit, EmitAckSend, TimedEmit, TimedEmitRejected, SendPacket,
               Disconnect
<1>11. ASSUME NEW t \in IoThreads,
              \/ MarkConnected(t) \/ MarkDisconnected(t) \/ Unwind(t)
              \/ FlushNext(t) \/ FlushSend(t)
       PROVE  UNCHANGED ackVars
  BY <1>11 DEF ackVars, MarkConnected, MarkDisconnected, Unwind, Disconnected, FlushNext,
               FlushSend
<1>12. ASSUME NEW t \in Threads, FinishTimedAck(t) \/ DisconnectLocked(t)
       PROVE  UNCHANGED ackVars
  BY <1>12, Zenon DEF ackVars, FinishTimedAck, DisconnectLocked
<1>13. CASE \/ WorkerWake \/ CloseDisconnect \/ WaitForTimedAcks \/ ResumeTimedAcks
            \/ Tick \/ UNCHANGED vars
  BY <1>13, <1>1, Zenon DEF ackVars, WorkerWake, CloseDisconnect, WaitForTimedAcks,
                     ResumeTimedAcks, Tick, vars
<1> QED
  BY <1>1, <1>2, <1>3, <1>4, <1>5, <1>6, <1>7, <1>8, <1>9, <1>10, <1>11, <1>12, <1>13, Zenon
  DEF Next, App, Io, Deadlines, Shutdown, Threads

(* An id somebody still holds was handed out before.                          *)
LEMMA IssuedIds ==
    ASSUME TypeOK, AckInv
    PROVE  \A id \in scheduled \cup timed_acks \cup pending_acks :
              id \in Ids /\ id < next_ack_id
BY BoundAssumption DEF TypeOK, AckInv, Ids

(* Deadlines.  A thread other than the worker that moves on without touching *)
(* the deadlines, and not towards expire_ack, disturbs nothing.              *)
deadlineVars == <<timed_acks, scheduled, deadline, wakeAt, claimed, now>>

(* A jump that leaves the deadlines alone keeps DeadlineInv.                  *)
LEMMA DeadlineJump ==
    ASSUME TypeOK, DeadlineInv, NEW t \in Threads, t # Worker, NEW l, l # "flush_expire",
           Goto(t, l), UNCHANGED deadlineVars,
           next_ack_id' \in {next_ack_id, next_ack_id + 1},
           \A u \in IoThreads : u # t => pkt'[u] = pkt[u]
    PROVE  DeadlineInv'
<1>0. pc \in [Threads -> AppPcs \cup IoPcs \cup WorkerPcs \cup CloserPcs]
  BY Zenon DEF TypeOK, PcOK
<1>1. /\ pc'[Worker] = pc[Worker]
      /\ \A u \in IoThreads : pc'[u] = "flush_expire" => pc[u] = "flush_expire" /\ u # t
  BY <1>0, Zenon DEF Goto, Threads
<1>2. \A id \in Ids : id < next_ack_id => id < next_ack_id'
  BY BoundAssumption DEF TypeOK, Ids
<1>3. NeverOrphaned' /\ NeverOversleeps'
  BY <1>1, Zenon DEF DeadlineInv, NeverOrphaned, NeverOversleeps, deadlineVars
<1> QED
  BY <1>1, <1>2, <1>3, Zenon DEF DeadlineInv, deadlineVars

(* Every step keeps DeadlineInv: no id orphaned, no deadline overslept.       *)
LEMMA DeadlineStep == IInv /\ [Next]_vars => DeadlineInv'
<1> SUFFICES ASSUME IInv, [Next]_vars PROVE DeadlineInv'
  OBVIOUS
<1>0. TypeOK /\ PcOK /\ AckInv /\ DeadlineInv
  BY Zenon DEF IInv, TypeOK
<1> USE <1>0, ThreadAssumption DEF socketVars, schedulerVars, threadVars, historyVars
<1>1. ASSUME NEW a \in Apps,
             \/ Emit(a) \/ EmitAck(a) \/ EmitAckSend(a)
             \/ (\E d \in Timeouts : TimedEmit(a, d))
             \/ TimedEmitRejected(a) \/ SendPacket(a) \/ Disconnect(a)
      PROVE  DeadlineInv'
  <2>0. \E l \in AppPcs : Goto(a, l)
    BY <1>1, Zenon DEF Emit, EmitAck, EmitAckSend, SendOrBuffer, TimedEmit, TimedEmitRejected,
                SendPacket, Disconnect, AppPcs
  <2>1. /\ UNCHANGED deadlineVars
        /\ next_ack_id' \in {next_ack_id, next_ack_id + 1}
    BY <1>1, Zenon DEF Emit, EmitAck, EmitAckSend, SendOrBuffer, TimedEmit, TimedEmitRejected,
                SendPacket, Disconnect, deadlineVars
  <2>2. \A u \in IoThreads : pkt'[u] = pkt[u]
    BY <1>1 DEF Emit, EmitAck, EmitAckSend, SendOrBuffer, TimedEmit, TimedEmitRejected,
                SendPacket, Disconnect, TypeOK, Threads
  <2> QED
    BY <2>0, <2>1, <2>2, DeadlineJump, Zenon DEF Threads, AppPcs
<1>2. ASSUME NEW a \in Apps, TimedEmitLocked(a) PROVE DeadlineInv'
  <2>1. /\ next_ack_id \in Ids /\ next_ack_id' = next_ack_id + 1
        /\ timed_acks' = timed_acks \cup {next_ack_id}
        /\ scheduled' = scheduled \cup {next_ack_id}
        /\ UNCHANGED <<claimed, now>>
    BY <1>2, NextId, Zenon DEF TimedEmitLocked
  <2>2. \A id \in Ids : id # next_ack_id => deadline'[id] = deadline[id]
    BY <1>2, Zenon DEF TimedEmitLocked, TypeOK
  <2>3. /\ pc'[Worker] # "waiting" /\ (pc'[Worker] = "expire" <=> pc[Worker] = "expire")
        /\ \A u \in IoThreads : pc'[u] = pc[u] /\ pkt'[u] = pkt[u]
    BY <1>2, ZenonT(30) DEF TimedEmitLocked, Notified, PcOK, TypeOK, Threads
  <2>4. \A id \in scheduled \cup timed_acks : id < next_ack_id
    BY IssuedIds
  <2>5. NeverOrphaned' /\ NeverOversleeps'
    BY <2>1, <2>2, <2>3, <2>4, Zenon DEF DeadlineInv, NeverOrphaned, NeverOversleeps, TypeOK
  <2>6. \A id \in Ids : id < next_ack_id =>
           id < next_ack_id' /\ deadline'[id] = deadline[id]
    BY <2>1, <2>2 DEF Ids
  <2> QED
    BY <2>1, <2>3, <2>5, <2>6 DEF DeadlineInv
<1>3. ASSUME NEW t \in Apps \cup {Closer}, DisconnectLocked(t) PROVE DeadlineInv'
  BY <1>3, DeadlineJump DEF DisconnectLocked, deadlineVars, Threads
<1>4. ASSUME NEW t \in IoThreads,
             MarkConnected(t) \/ MarkDisconnected(t) \/ Unwind(t) \/ FlushSend(t)
      PROVE  DeadlineInv'
  <2>1. /\ \E l \in {"idle", "flush", "throw"} : Goto(t, l)
        /\ UNCHANGED deadlineVars /\ UNCHANGED next_ack_id
    BY <1>4, Zenon DEF MarkConnected, MarkDisconnected, Unwind, Disconnected, FlushSend,
                deadlineVars, Goto, PcOK
  <2>2. \A u \in IoThreads : u # t => pkt'[u] = pkt[u]
    BY <1>4, Zenon DEF MarkConnected, MarkDisconnected, Unwind, Disconnected, FlushSend, TypeOK,
                Threads
  <2> QED
    BY <2>1, <2>2, DeadlineJump, Zenon DEF Threads
<1>5. ASSUME NEW t \in IoThreads, FlushNext(t) PROVE DeadlineInv'
  <2>1. UNCHANGED deadlineVars /\ UNCHANGED next_ack_id
    BY <1>5, Zenon DEF FlushNext, deadlineVars
  <2>2. CASE Goto(t, "idle") /\ UNCHANGED pkt
    BY <2>1, <2>2, DeadlineJump, Zenon DEF Threads
  <2>3. ASSUME NEW e \in buffer, pkt' = [pkt EXCEPT ![t] = e.pkt], Goto(t, "flush_send")
        PROVE  DeadlineInv'
    BY <2>1, <2>3, DeadlineJump, Zenon DEF Threads, TypeOK
  <2>4. ASSUME NEW e \in buffer, pkt' = [pkt EXCEPT ![t] = e.pkt], Goto(t, "flush_expire"),
               e.pkt.id \in timed_acks, Expired(e.pkt.id)
        PROVE  DeadlineInv'
    <3>1. /\ e.pkt.id \in Ids /\ e.pkt.id < next_ack_id /\ deadline[e.pkt.id] <= now
      <4>1. deadline[e.pkt.id] <= now
        BY <2>4, Zenon DEF Expired, DeadlineInv, NeverOrphaned
      <4>2. e.pkt.id \in Ids /\ e.pkt.id < next_ack_id
        BY <2>4, IssuedIds, Zenon
      <4> QED
        BY <4>1, <4>2, Zenon
    <3>2. /\ pc'[Worker] = pc[Worker] /\ pkt'[t] = e.pkt
          /\ \A u \in IoThreads : u # t => pc'[u] = pc[u] /\ pkt'[u] = pkt[u]
      BY <2>4, Zenon DEF Goto, PcOK, TypeOK, Threads
    <3> QED
      BY <2>1, <3>1, <3>2, Zenon DEF DeadlineInv, NeverOrphaned, NeverOversleeps, deadlineVars
  <2> QED
    BY <1>5, <2>2, <2>3, <2>4, Zenon DEF FlushNext
<1>6. ASSUME NEW t \in IoThreads, FlushExpire(t) PROVE DeadlineInv'
  <2>1. pkt[t].id \in Ids /\ deadline[pkt[t].id] <= now
    BY <1>6, Zenon DEF FlushExpire, DeadlineInv
  <2>2. /\ pc'[Worker] = pc[Worker] /\ pc'[t] # "flush_expire"
        /\ \A u \in IoThreads : u # t => pc'[u] = pc[u] /\ pkt'[u] = pkt[u]
    BY <1>6, Zenon DEF FlushExpire, Goto, PcOK, TypeOK, Threads
  <2>3. /\ timed_acks' = timed_acks \ {pkt[t].id}
        /\ UNCHANGED <<next_ack_id, scheduled, deadline, wakeAt, claimed, now>>
    BY <1>6, Zenon DEF FlushExpire, ExpireAck, AlreadyClaimed
  <2> QED
    BY <2>1, <2>2, <2>3, Zenon DEF DeadlineInv, NeverOrphaned, NeverOversleeps
<1>7. ASSUME NEW t \in IoThreads, NEW id \in Ids, DispatchTimedAck(t, id)
      PROVE  DeadlineInv'
  <2>1. /\ scheduled' = scheduled \ {id} /\ timed_acks' = timed_acks \ {id}
        /\ UNCHANGED <<next_ack_id, deadline, wakeAt, claimed, now, pkt>>
    BY <1>7, Zenon DEF DispatchTimedAck
  <2>2. /\ pc'[Worker] = "waiting" => pc[Worker] = "waiting"
        /\ pc'[Worker] = "expire" <=> pc[Worker] = "expire"
        /\ pc'[t] # "flush_expire" /\ \A u \in IoThreads : u # t => pc'[u] = pc[u]
    <3>1. CASE id \in scheduled
      BY <1>7, <3>1, Zenon DEF DispatchTimedAck, Notified, PcOK, Threads
    <3>2. CASE id \notin scheduled
      BY <1>7, <3>2, Zenon DEF DispatchTimedAck, PcOK, Threads
    <3> QED
      BY <3>1, <3>2, Zenon
  <2> QED
    BY <2>1, <2>2, Zenon DEF DeadlineInv, NeverOrphaned, NeverOversleeps
<1>8. ASSUME NEW t \in IoThreads, NEW id \in Ids, DispatchAck(t, id) PROVE DeadlineInv'
  BY <1>8, Zenon DEF DispatchAck, DeadlineInv, NeverOrphaned, NeverOversleeps
<1>9. ASSUME NEW t \in IoThreads, FinishTimedAck(t) PROVE DeadlineInv'
  <2>1. Goto(t, IF pc[t] = "flush_callback" THEN "flush" ELSE "idle")
    BY <1>9, Zenon DEF FinishTimedAck
  <2> QED
    BY <1>9, <2>1, DeadlineJump DEF FinishTimedAck, deadlineVars, Threads
<1>10. CASE FinishTimedAck(Worker) \/ WorkerWake
  <2>1. /\ pc'[Worker] \notin {"waiting", "expire"} /\ pc[Worker] # "expire"
        /\ \A u \in IoThreads : pc'[u] = pc[u]
        /\ UNCHANGED deadlineVars /\ UNCHANGED <<next_ack_id, pkt>>
    BY <1>10, Zenon DEF FinishTimedAck, WorkerWake, Goto, deadlineVars, PcOK, Threads, CallbackPcs
  <2> QED
    BY <2>1, Zenon DEF DeadlineInv, NeverOrphaned, NeverOversleeps, deadlineVars
<1>11. CASE WorkerExpire
  <2>1. /\ pc'[Worker] \notin {"waiting", "expire"}
        /\ \A u \in IoThreads : pc'[u] = pc[u]
    BY <1>11, Zenon DEF WorkerExpire, Goto, PcOK, Threads
  <2>2. /\ timed_acks' = timed_acks \ {claimed}
        /\ UNCHANGED <<next_ack_id, scheduled, deadline, wakeAt, now, pkt>>
    BY <1>11, Zenon DEF WorkerExpire, ExpireAck, AlreadyClaimed
  <2>3. deadline[claimed] <= now
    BY <1>11, Zenon DEF WorkerExpire, DeadlineInv
  <2> QED
    BY <2>1, <2>2, <2>3, Zenon DEF DeadlineInv, NeverOrphaned, NeverOversleeps
<1>12. CASE WorkerLoop
  <2>1. /\ pc[Worker] = "loop" /\ \A u \in IoThreads : pc'[u] = pc[u]
        /\ UNCHANGED <<next_ack_id, timed_acks, deadline, now, pkt>>
    BY <1>12, Zenon DEF WorkerLoop, Goto, PcOK, Threads
  <2>2. CASE /\ pc'[Worker] = "waiting" /\ UNCHANGED scheduled
             /\ \A id \in scheduled : wakeAt' <= deadline[id]
    BY <2>1, <2>2, Zenon DEF DeadlineInv, NeverOrphaned, NeverOversleeps
  <2>3. ASSUME NEW id \in scheduled, deadline[id] <= now, scheduled' = scheduled \ {id},
               claimed' = id, pc'[Worker] = "expire"
        PROVE  DeadlineInv'
    <3>1. id \in Ids /\ id < next_ack_id
      BY <2>3, IssuedIds, Zenon
    <3> QED
      BY <2>1, <2>3, <3>1, Zenon DEF DeadlineInv, NeverOrphaned, NeverOversleeps
  <2>4. ASSUME NEW id \in scheduled, IsEarliest(id)
        PROVE  \A o \in scheduled : deadline[id] <= deadline[o]
    <3>1. \A o \in scheduled : deadline[o] \in Int
      BY BoundAssumption DEF TypeOK, Times
    <3> QED
      BY <2>4, <3>1 DEF IsEarliest
  <2>5. \A l : Goto(Worker, l) => pc'[Worker] = l
    BY Zenon DEF Goto, PcOK, Threads
  <2> QED
    BY <1>12, <2>2, <2>3, <2>4, <2>5, Zenon DEF WorkerLoop
<1>13. CASE CancelTimedAcks
  <2>1. /\ timed_acks' = {} /\ scheduled' = {}
        /\ UNCHANGED <<next_ack_id, deadline, claimed, now, pkt>>
    BY <1>13, Zenon DEF CancelTimedAcks
  <2>2. /\ pc'[Worker] # "waiting" /\ (pc'[Worker] = "expire" <=> pc[Worker] = "expire")
        /\ \A u \in IoThreads : pc'[u] = pc[u]
    BY <1>13, Zenon DEF CancelTimedAcks, Notified, PcOK, Threads
  <2> QED
    BY <2>1, <2>2, Zenon DEF DeadlineInv, NeverOrphaned, NeverOversleeps
<1>14. CASE CloseDisconnect \/ WaitForTimedAcks \/ ResumeTimedAcks
  <2>1. \E l \in CloserPcs : Goto(Closer, l)
    BY <1>14, Zenon DEF CloseDisconnect, WaitForTimedAcks, ResumeTimedAcks, CloserPcs
  <2> QED
    BY <1>14, <2>1, DeadlineJump, Zenon
    DEF CloseDisconnect, WaitForTimedAcks, ResumeTimedAcks, deadlineVars, Threads, CloserPcs
<1>15. CASE Tick
  <2>1. /\ scheduled \subseteq Ids /\ timed_acks \subseteq Ids
        /\ \A id \in Ids : deadline[id] <= now => deadline[id] <= now'
    BY <1>15 DEF Tick, TypeOK, Times
  <2>2. UNCHANGED <<timed_acks, scheduled, deadline, wakeAt, claimed, next_ack_id, pc, pkt>>
    BY <1>15, Zenon DEF Tick
  <2> QED
    BY <2>1, <2>2, Zenon DEF DeadlineInv, NeverOrphaned, NeverOversleeps
<1>16. CASE UNCHANGED vars
  BY <1>16 DEF vars, DeadlineInv, NeverOrphaned, NeverOversleeps
<1> QED
  BY <1>1, <1>2, <1>3, <1>4, <1>5, <1>6, <1>7, <1>8, <1>9, <1>10, <1>11, <1>12, <1>13,
     <1>14, <1>15, <1>16, Zenon
  DEF Next, App, Io, Deadlines, Shutdown
=============================================================================
