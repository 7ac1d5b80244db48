---------------------------- MODULE SocketProofs ----------------------------
(***************************************************************************)
(* The safety properties of Socket, proved for any number of threads,      *)
(* emissions, ids and clock readings: every step keeps the types and the   *)
(* count of running callbacks (TypeOK and CloseInv), the groups of the     *)
(* inductive invariant put together, what follows from them, and that      *)
(* Socket implements TimedAck, the promise of a timed emission.            *)
(***************************************************************************)
EXTENDS SocketAckProofs, FiniteSetTheorems

(* The threads that run a timed callback are finitely many, and a thread that *)
(* runs one is counted.                                                      *)
LEMMA CallbackThreadsFinite ==
    IsFiniteSet(CallbackThreads) /\ Cardinality(CallbackThreads) \in Nat
<1>1. IsFiniteSet({Worker, Closer})
  <2>1. IsFiniteSet({Worker} \cup {Closer})
    BY FS_Singleton, FS_AddElement, Zenon
  <2>2. {Worker, Closer} = {Worker} \cup {Closer}
    OBVIOUS
  <2> QED
    BY <2>1, <2>2
<1>2. IsFiniteSet(Threads)
  BY <1>1, ThreadAssumption, FS_Union, Zenon DEF Threads
<1> QED
  BY <1>2, FS_Subset, FS_CardinalityType DEF CallbackThreads

(* A thread that runs a timed callback is counted in active_timed_acks_.      *)
LEMMA CallbackCounted ==
    ASSUME CloseInv, NEW t \in Threads, pc[t] \in CallbackPcs
    PROVE  active \in Nat /\ active > 0
<1>1. CallbackThreads # {}
  BY DEF CallbackThreads
<1>2. Cardinality(CallbackThreads) # 0
  BY <1>1, CallbackThreadsFinite, FS_EmptySet, Zenon
<1> QED
  BY <1>2, CallbackThreadsFinite DEF CloseInv

(* Types are preserved.  The other parts of IInv say what a thread carries:  *)
(* a real packet where it sends one, a real id where it expires one, and at  *)
(* least one running callback where it finishes one.                         *)
LEMMA TypeStep == IInv /\ [Next]_vars => TypeOK'
<1> SUFFICES ASSUME IInv, [Next]_vars PROVE TypeOK'
  OBVIOUS
<1>0. TypeOK /\ PcOK
  BY Zenon DEF IInv, TypeOK
<1> USE <1>0, ThreadAssumption DEF socketVars, schedulerVars, threadVars, historyVars
<1>1. ASSUME NEW a \in Apps, Emit(a) PROVE TypeOK'
  <2>1. Emission(a, NoId) \in Packet /\ emits[a] + 1 \in 0 .. MaxEmits
    BY <1>1, EmissionType, Zenon DEF Emit
  <2> QED
    BY <1>1, <2>1, SendOrBufferType, Zenon DEF Emit, TypeOK
<1>2. ASSUME NEW a \in Apps, EmitAck(a) PROVE TypeOK'
  <2>1. /\ next_ack_id \in Ids /\ next_ack_id + 1 \in 0 .. MaxIds
        /\ Emission(a, next_ack_id) \in Packet /\ emits[a] + 1 \in 0 .. MaxEmits
    BY <1>2, NextId, EmissionType DEF EmitAck
  <2>2. PcOK'
    BY <1>2, GotoType DEF EmitAck, Threads, AppPcs
  <2> QED
    BY <1>2, <2>1, <2>2, Zenon DEF EmitAck, TypeOK
<1>3. ASSUME NEW a \in Apps, EmitAckSend(a) PROVE TypeOK'
  <2>1. pkt[a] \in Packet
    BY <1>3, Zenon DEF EmitAckSend, IInv, OrderInv, AppHand, FlushHand
  <2> QED
    BY <1>3, <2>1, SendOrBufferType DEF EmitAckSend, TypeOK
<1>4. ASSUME NEW a \in Apps, NEW timeout \in Timeouts, TimedEmit(a, timeout) PROVE TypeOK'
  <2>1. PcOK'
    BY <1>4, GotoType, Zenon DEF TimedEmit, Threads, AppPcs
  <2>2. due' \in [Apps -> Times]
    BY <1>4, BoundAssumption DEF TimedEmit, TypeOK, Times
  <2> QED
    BY <1>4, <2>1, <2>2, Zenon DEF TimedEmit, TypeOK
<1>5. ASSUME NEW a \in Apps, TimedEmitLocked(a) PROVE TypeOK'
  <2>1. emits[a] < MaxEmits
    BY <1>5 DEF TimedEmitLocked, IInv, OrderInv, AppHand, FlushHand
  <2>2. /\ next_ack_id \in Ids /\ next_ack_id + 1 \in 0 .. MaxIds
        /\ Emission(a, next_ack_id) \in Packet /\ emits[a] + 1 \in 0 .. MaxEmits
    BY <1>5, <2>1, NextId, EmissionType, Zenon DEF TimedEmitLocked
  <2>3. PcOK'
    BY <1>5, NotifiedType, Zenon DEF TimedEmitLocked, Threads, AppPcs
  <2>4. buffer' \subseteq Entry /\ tail' \in Nat
    BY <1>5, <2>2, PushBackType, Zenon DEF TimedEmitLocked, TypeOK
  <2>5. pkt' \in [Threads -> Packet \cup {NoPacket}]
    BY <1>5, <2>2 DEF TimedEmitLocked, TypeOK
  <2> QED
    BY <1>5, <2>2, <2>3, <2>4, <2>5, Zenon DEF TimedEmitLocked, TypeOK
<1>6. ASSUME NEW a \in Apps, TimedEmitRejected(a) \/ Disconnect(a) PROVE TypeOK'
  <2>1. PcOK'
    BY <1>6, GotoType, Zenon DEF TimedEmitRejected, Disconnect, Threads, AppPcs
  <2> QED
    BY <1>6, <2>1, Zenon DEF TimedEmitRejected, Disconnect, TypeOK
<1>7. ASSUME NEW a \in Apps, SendPacket(a) PROVE TypeOK'
  <2>1. PcOK'
    BY <1>7, GotoType DEF SendPacket, Threads, AppPcs
  <2>2. pkt[a] \in Packet
    BY <1>7 DEF SendPacket, IInv, OrderInv, AppHand, FlushHand
  <2>3. wire' \in Seq(Packet)
    <3>1. wire \in Seq(Packet) /\ (wire' = wire \/ wire' = Append(wire, pkt[a]))
      BY <1>7 DEF SendPacket, TypeOK
    <3> QED
      BY <2>2, <3>1, AppendType
  <2> QED
    BY <1>7, <2>1, <2>3, Zenon DEF SendPacket, TypeOK
<1>8. ASSUME NEW t \in Apps \cup {Closer}, DisconnectLocked(t) PROVE TypeOK'
  <2>1. PcOK'
    BY <1>8, GotoType DEF DisconnectLocked, Threads, AppPcs, CloserPcs
  <2> QED
    BY <1>8, <2>1, Zenon DEF DisconnectLocked, TypeOK
<1>9. ASSUME NEW t \in IoThreads, MarkConnected(t) \/ MarkDisconnected(t) \/ Unwind(t)
      PROVE  TypeOK'
  <2>1. PcOK'
    BY <1>9, GotoType
    DEF MarkConnected, MarkDisconnected, Unwind, Disconnected, Threads, IoPcs, PcOK
  <2> QED
    BY <1>9, <2>1, Zenon DEF MarkConnected, MarkDisconnected, Unwind, Disconnected, TypeOK
<1>10. ASSUME NEW t \in IoThreads, FlushNext(t) PROVE TypeOK'
  <2>1. PcOK'
    BY <1>10, GotoType, Zenon DEF FlushNext, Threads, IoPcs
  <2>2. buffer' \subseteq Entry /\ pkt' \in [Threads -> Packet \cup {NoPacket}]
    BY <1>10, Zenon DEF FlushNext, TypeOK, Entry
  <2>3. /\ flushing' \in BOOLEAN
        /\ UNCHANGED <<connected, tail, next_ack_id, pending_acks, timed_acks, active,
                       closed, schedulerVars, now, due, emits, historyVars>>
    BY <1>10, Zenon DEF FlushNext, TypeOK
  <2> QED
    BY <2>1, <2>2, <2>3 DEF TypeOK
<1>11. ASSUME NEW t \in IoThreads, FlushSend(t) PROVE TypeOK'
  <2>1. PcOK'
    BY <1>11, GotoType DEF FlushSend, Threads, IoPcs
  <2>2. pkt[t] \in Packet
    BY <1>11 DEF FlushSend, IInv, OrderInv, AppHand, FlushHand
  <2>3. wire' \in Seq(Packet)
    <3>1. wire \in Seq(Packet) /\ (wire' = wire \/ wire' = Append(wire, pkt[t]))
      BY <1>11, Zenon DEF FlushSend, TypeOK
    <3> QED
      BY <2>2, <3>1, AppendType
  <2> QED
    BY <1>11, <2>1, <2>3, Zenon DEF FlushSend, TypeOK
<1>12. ASSUME NEW t \in IoThreads, FlushExpire(t) PROVE TypeOK'
  <2>1. PcOK'
    BY <1>12, GotoType, Zenon DEF FlushExpire, Threads, IoPcs
  <2>2. pkt[t].id \in Ids
    BY <1>12, Zenon DEF FlushExpire, IInv, DeadlineInv
  <2>3. CASE ExpireAck(pkt[t].id)
    BY <1>12, <2>1, <2>2, <2>3, ExpireAckType, Zenon DEF FlushExpire, TypeOK
  <2>4. CASE AlreadyClaimed(pkt[t].id)
    BY <1>12, <2>1, <2>4, Zenon DEF FlushExpire, AlreadyClaimed, TypeOK
  <2> QED
    BY <1>12, <2>3, <2>4, Zenon DEF FlushExpire
<1>13. ASSUME NEW t \in IoThreads \cup {Worker}, FinishTimedAck(t) PROVE TypeOK'
  <2>1. PcOK'
    BY <1>13, GotoType
    DEF FinishTimedAck, Threads, IoPcs, WorkerPcs, CallbackPcs, PcOK
  <2>2. active' \in Nat
    BY <1>13, CallbackCounted DEF FinishTimedAck, IInv, Threads
  <2> QED
    BY <1>13, <2>1, <2>2 DEF FinishTimedAck, TypeOK
<1>14. ASSUME NEW t \in IoThreads, NEW id \in Ids, DispatchTimedAck(t, id) PROVE TypeOK'
  <2>1. PcOK'
    <3>1. CASE id \in scheduled
      BY <1>14, <3>1, NotifiedType, Zenon DEF DispatchTimedAck, Threads, IoPcs
    <3>2. CASE id \notin scheduled
      BY <1>14, <3>2, GotoType, Zenon DEF DispatchTimedAck, Threads, IoPcs, Goto
    <3> QED
      BY <3>1, <3>2
  <2> QED
    BY <1>14, <2>1 DEF DispatchTimedAck, Erase, TypeOK
<1>15. ASSUME NEW t \in IoThreads, NEW id \in Ids, DispatchAck(t, id) PROVE TypeOK'
  BY <1>15 DEF DispatchAck, TypeOK, PcOK
<1>16. CASE WorkerLoop
  <2>1. PcOK'
    BY <1>16, GotoType, Zenon DEF WorkerLoop, Threads, WorkerPcs
  <2> QED
    BY <1>16, <2>1 DEF WorkerLoop, TypeOK
<1>17. CASE WorkerWake
  <2>1. PcOK'
    BY <1>17, GotoType, Zenon DEF WorkerWake, Threads, WorkerPcs
  <2> QED
    BY <1>17, <2>1, Zenon DEF WorkerWake, TypeOK
<1>18. CASE WorkerExpire
  <2>1. PcOK'
    BY <1>18, GotoType, Zenon DEF WorkerExpire, Threads, WorkerPcs
  <2>2. claimed \in Ids
    BY <1>18, Zenon DEF WorkerExpire, IInv, DeadlineInv
  <2>3. CASE ExpireAck(claimed)
    BY <1>18, <2>1, <2>2, <2>3, ExpireAckType, Zenon DEF WorkerExpire, TypeOK
  <2>4. CASE AlreadyClaimed(claimed)
    BY <1>18, <2>1, <2>4, Zenon DEF WorkerExpire, AlreadyClaimed, TypeOK
  <2> QED
    BY <1>18, <2>3, <2>4, Zenon DEF WorkerExpire
<1>19. CASE CancelTimedAcks
  <2>1. PcOK'
    BY <1>19, NotifiedType, Zenon DEF CancelTimedAcks, Threads, CloserPcs
  <2> QED
    BY <1>19, <2>1, Zenon DEF CancelTimedAcks, Erase, TypeOK
<1>20. CASE CloseDisconnect \/ WaitForTimedAcks \/ ResumeTimedAcks
  <2>1. PcOK'
    BY <1>20, GotoType
    DEF CloseDisconnect, WaitForTimedAcks, ResumeTimedAcks, Threads, CloserPcs
  <2> QED
    BY <1>20, <2>1, Zenon DEF CloseDisconnect, WaitForTimedAcks, ResumeTimedAcks, TypeOK
<1>21. CASE Tick
  BY <1>21, BoundAssumption DEF Tick, TypeOK, PcOK, Times
<1>22. CASE UNCHANGED vars
  BY <1>22, Zenon DEF vars, TypeOK, PcOK
<1> QED
  BY <1>1, <1>2, <1>3, <1>4, <1>5, <1>6, <1>7, <1>8, <1>9, <1>10, <1>11, <1>12, <1>13,
     <1>14, <1>15, <1>16, <1>17, <1>18, <1>19, <1>20, <1>21, <1>22, SMTT(20)
  DEF Next, App, Io, Deadlines, Shutdown

(* The count of running callbacks and the shutdown.                          *)
LEMMA SameCallbacks ==
    ASSUME \A u \in Threads : pc'[u] \in CallbackPcs <=> pc[u] \in CallbackPcs
    PROVE  CallbackThreads' = CallbackThreads
BY Zenon DEF CallbackThreads, Threads, CallbackPcs

(* The thread that starts a callback is one more to count.                    *)
LEMMA StartCallback ==
    ASSUME NEW t \in Threads, pc[t] \notin CallbackPcs, pc'[t] \in CallbackPcs,
           \A u \in Threads : u # t => (pc'[u] \in CallbackPcs <=> pc[u] \in CallbackPcs)
    PROVE  Cardinality(CallbackThreads)' = Cardinality(CallbackThreads) + 1
<1>1. CallbackThreads' = CallbackThreads \cup {t} /\ t \notin CallbackThreads
  BY DEF CallbackThreads, Threads, CallbackPcs
<1> QED
  BY <1>1, CallbackThreadsFinite, FS_AddElement, Zenon

(* The thread that ends a callback is one less to count.                      *)
LEMMA EndCallback ==
    ASSUME NEW t \in Threads, pc[t] \in CallbackPcs, pc'[t] \notin CallbackPcs,
           \A u \in Threads : u # t => (pc'[u] \in CallbackPcs <=> pc[u] \in CallbackPcs)
    PROVE  Cardinality(CallbackThreads)' = Cardinality(CallbackThreads) - 1
<1>1. CallbackThreads' = CallbackThreads \ {t} /\ t \in CallbackThreads
  BY DEF CallbackThreads, Threads, CallbackPcs
<1> QED
  BY <1>1, CallbackThreadsFinite, FS_RemoveElement, Zenon

(* A jump of a thread other than the closer, neither from nor to a callback.  *)
LEMMA CloseJump ==
    ASSUME PcOK, CloseInv, NEW t \in Threads \ {Closer}, NEW l,
           pc[t] \notin CallbackPcs, l \notin CallbackPcs,
           Goto(t, l), UNCHANGED <<active, closed, timed_acks>>
    PROVE  CloseInv'
<1>1. /\ \A u \in Threads : pc'[u] \in CallbackPcs <=> pc[u] \in CallbackPcs
      /\ pc'[Closer] = pc[Closer]
  BY DEF PcOK, Goto, Threads
<1> QED
  BY <1>1, SameCallbacks DEF CloseInv

(* The start of a timed callback: something was pending, so nothing is closed. *)
LEMMA CloseStart ==
    ASSUME CloseInv, NEW t \in Threads, timed_acks # {}, active' = active + 1,
           pc'[Closer] = pc[Closer], pc[t] \notin CallbackPcs, pc'[t] \in CallbackPcs,
           \A u \in Threads : u # t => (pc'[u] \in CallbackPcs <=> pc[u] \in CallbackPcs)
    PROVE  CloseInv'
BY StartCallback, Zenon DEF CloseInv

(* Every step keeps CloseInv: active_timed_acks_ counts exactly.              *)
LEMMA CloseStep == IInv /\ [Next]_vars => CloseInv'
<1> SUFFICES ASSUME IInv, [Next]_vars PROVE CloseInv'
  OBVIOUS
<1>0. TypeOK /\ PcOK /\ CloseInv
  BY Zenon DEF IInv, TypeOK
<1> USE <1>0, ThreadAssumption DEF socketVars, schedulerVars, threadVars, historyVars
<1>1. ASSUME NEW a \in Apps,
             \/ Emit(a) \/ EmitAck(a) \/ EmitAckSend(a)
             \/ (\E d \in Timeouts : TimedEmit(a, d)) \/ TimedEmitRejected(a)
             \/ SendPacket(a) \/ Disconnect(a) \/ DisconnectLocked(a)
      PROVE  CloseInv'
  <2>1. /\ \E l \in AppPcs : Goto(a, l)
        /\ UNCHANGED <<active, closed, timed_acks>>
    BY <1>1, Zenon DEF Emit, EmitAck, EmitAckSend, SendOrBuffer, TimedEmit, TimedEmitRejected,
                SendPacket, Disconnect, DisconnectLocked, AppPcs
  <2> QED
    BY <2>1, CloseJump, Zenon DEF PcOK, Threads, AppPcs, CallbackPcs
<1>2. ASSUME NEW a \in Apps, TimedEmitLocked(a) PROVE CloseInv'
  <2>1. /\ \A u \in Threads : pc'[u] \in CallbackPcs <=> pc[u] \in CallbackPcs
        /\ pc'[Closer] = pc[Closer]
    <3>1. pc[a] = "timed" /\ \E l \in {"idle", "send"} : pc' = [Notified EXCEPT ![a] = l]
      BY <1>2, Zenon DEF TimedEmitLocked
    <3> QED
      BY <3>1, Zenon DEF Notified, PcOK, Threads, CallbackPcs
  <2>2. pc[Closer] = "idle" /\ UNCHANGED active
    BY <1>2, Zenon DEF TimedEmitLocked, CloseInv
  <2> QED
    BY <2>1, <2>2, SameCallbacks, Zenon DEF CloseInv
<1>3. ASSUME NEW t \in IoThreads,
             \/ MarkConnected(t) \/ MarkDisconnected(t) \/ Unwind(t)
             \/ FlushNext(t) \/ FlushSend(t)
      PROVE  CloseInv'
  <2>1. /\ \E l \in IoPcs \ CallbackPcs : Goto(t, l)
        /\ pc[t] \notin CallbackPcs
        /\ UNCHANGED <<active, closed, timed_acks>>
    <3>1. CASE MarkConnected(t)
      BY <3>1, Zenon DEF MarkConnected, PcOK, Goto, IoPcs, CallbackPcs
    <3>2. CASE MarkDisconnected(t) \/ Unwind(t) \/ FlushNext(t) \/ FlushSend(t)
      BY <3>2, Zenon DEF MarkDisconnected, Unwind, Disconnected, FlushNext, FlushSend, Goto, IoPcs,
                  CallbackPcs
    <3> QED
      BY <1>3, <3>1, <3>2, Zenon
  <2> QED
    BY <2>1, CloseJump, Zenon DEF Threads
<1>4. ASSUME NEW t \in IoThreads, FlushExpire(t) PROVE CloseInv'
  <2>1. CASE ExpireAck(pkt[t].id) /\ Goto(t, "flush_callback")
    BY <1>4, <2>1, CloseStart, Zenon
    DEF FlushExpire, ExpireAck, Goto, PcOK, Threads, CallbackPcs
  <2>2. CASE AlreadyClaimed(pkt[t].id) /\ Goto(t, "flush")
    BY <1>4, <2>2, CloseJump, Zenon DEF FlushExpire, AlreadyClaimed, Threads, CallbackPcs
  <2> QED
    BY <1>4, <2>1, <2>2, Zenon DEF FlushExpire
<1>5. CASE WorkerExpire
  <2>1. CASE ExpireAck(claimed) /\ Goto(Worker, "callback")
    BY <1>5, <2>1, CloseStart, Zenon
    DEF WorkerExpire, ExpireAck, Goto, PcOK, Threads, CallbackPcs
  <2>2. CASE AlreadyClaimed(claimed) /\ Goto(Worker, "loop")
    BY <1>5, <2>2, CloseJump, Zenon DEF WorkerExpire, AlreadyClaimed, Threads, CallbackPcs
  <2> QED
    BY <1>5, <2>1, <2>2, Zenon DEF WorkerExpire
<1>6. ASSUME NEW t \in IoThreads, NEW id \in Ids, DispatchTimedAck(t, id) PROVE CloseInv'
  <2>1. /\ timed_acks # {} /\ active' = active + 1
        /\ pc[t] \notin CallbackPcs /\ t \in Threads
    BY <1>6, Zenon DEF DispatchTimedAck, Threads, CallbackPcs
  <2>2. /\ pc'[Closer] = pc[Closer] /\ pc'[t] \in CallbackPcs
        /\ \A u \in Threads : u # t => (pc'[u] \in CallbackPcs <=> pc[u] \in CallbackPcs)
    <3>1. CASE id \in scheduled
      BY <1>6, <3>1, Zenon DEF DispatchTimedAck, Notified, PcOK, Threads, CallbackPcs
    <3>2. CASE id \notin scheduled
      BY <1>6, <3>2, Zenon DEF DispatchTimedAck, PcOK, Threads, CallbackPcs
    <3> QED
      BY <3>1, <3>2, Zenon
  <2> QED
    BY <2>1, <2>2, CloseStart, Zenon
<1>7. ASSUME NEW t \in IoThreads \cup {Worker}, FinishTimedAck(t) PROVE CloseInv'
  <2>1. /\ pc[t] \in CallbackPcs /\ pc'[t] \notin CallbackPcs /\ pc'[Closer] = pc[Closer]
        /\ \A u \in Threads : u # t => (pc'[u] \in CallbackPcs <=> pc[u] \in CallbackPcs)
        /\ active' = active - 1 /\ UNCHANGED <<closed, timed_acks>>
    BY <1>7, Zenon DEF FinishTimedAck, Goto, PcOK, Threads, CallbackPcs
  <2>2. active > 0 /\ active \in Nat
    BY <2>1, CallbackCounted, Zenon DEF Threads
  <2> QED
    BY <2>1, <2>2, EndCallback DEF CloseInv, Threads
<1>8. CASE WorkerLoop \/ WorkerWake
  <2>1. /\ \E l \in {"waiting", "expire", "loop"} : Goto(Worker, l)
        /\ pc[Worker] \notin CallbackPcs /\ UNCHANGED <<active, closed, timed_acks>>
    BY <1>8 DEF WorkerLoop, WorkerWake, CallbackPcs
  <2> QED
    BY <2>1, CloseJump, Zenon DEF Threads, CallbackPcs
<1>9. CASE Shutdown
  <2>1. CASE CancelTimedAcks
    <3>1. /\ pc' = [Notified EXCEPT ![Closer] = "close"] /\ pc[Closer] = "idle"
          /\ closed' /\ timed_acks' = {} /\ UNCHANGED active
      BY <2>1, Zenon DEF CancelTimedAcks
    <3>2. /\ \A u \in Threads : pc'[u] \in CallbackPcs <=> pc[u] \in CallbackPcs
          /\ pc'[Closer] = "close"
      BY <3>1, Zenon DEF Notified, PcOK, Threads, CallbackPcs
    <3> QED
      BY <3>1, <3>2, SameCallbacks, Zenon DEF CloseInv
  <2>2. CASE CloseDisconnect \/ DisconnectLocked(Closer) \/ WaitForTimedAcks \/ ResumeTimedAcks
    <3>1. /\ \E l \in {"idle", "disconnect", "wait", "synced"} :
               Goto(Closer, l) /\ (l = "synced" => active = 0) /\ (l # "idle" => UNCHANGED closed)
          /\ pc[Closer] \notin CallbackPcs \cup {"idle"} /\ UNCHANGED <<active, timed_acks>>
      BY <2>2, Zenon DEF CloseDisconnect, DisconnectLocked, WaitForTimedAcks, ResumeTimedAcks,
                  CallbackPcs
    <3>2. \A u \in Threads : pc'[u] \in CallbackPcs <=> pc[u] \in CallbackPcs
      BY <3>1, Zenon DEF Goto, PcOK, Threads, CallbackPcs
    <3>3. /\ pc'[Closer] # "idle" => closed' /\ timed_acks' = {}
          /\ pc'[Closer] = "synced" => active = 0
      BY <3>1 DEF Goto, PcOK, Threads, CloseInv
    <3> QED
      BY <3>1, <3>2, <3>3, SameCallbacks, Zenon DEF CloseInv
  <2> QED
    BY <1>9, <2>1, <2>2, Zenon DEF Shutdown
<1>10. ASSUME NEW t \in IoThreads, NEW id \in Ids, DispatchAck(t, id) PROVE CloseInv'
  BY <1>10, SameCallbacks, Zenon DEF DispatchAck, CloseInv
<1>11. CASE Tick \/ UNCHANGED vars
  BY <1>11, SameCallbacks, Zenon DEF Tick, vars, CloseInv
<1> QED
  BY <1>1, <1>2, <1>3, <1>4, <1>5, <1>6, <1>7, <1>8, <1>9, <1>10, <1>11, Zenon
  DEF Next, App, Io, Deadlines
-----------------------------------------------------------------------------
(* What is buffered is pending.                                               *)
LEMMA UntimedIsNotTimed ==
    ASSUME AckInv, NEW id \in Ids, Untimed(id) PROVE id \notin timed_acks
BY DEF AckInv, Untimed

(* A step that buffers nothing and resolves nothing keeps PendingInv.         *)
LEMMA PendingKept ==
    ASSUME TypeOK, PendingInv, buffer' \subseteq buffer,
           \A id \in Ids : Untimed(id) => Untimed(id)',
           \A e \in buffer' : e.pkt.id \in timed_acks => e.pkt.id \in timed_acks',
           \A a \in Apps : pc'[a] = "ready" => pc[a] = "ready" /\ pkt'[a] = pkt[a]
    PROVE  PendingInv'
<1>1. \A e \in buffer : e.pkt.id \in Ids \cup {NoId}
  BY Zenon DEF TypeOK, Entry, Packet
<1> QED
  BY <1>1, Zenon DEF PendingInv, BufferedIsPending

(* A step that resolves timed id: its packet leaves the buffer with it.        *)
LEMMA PendingResolve ==
    ASSUME TypeOK, AckInv, PendingInv, NEW id \in Ids, id \in timed_acks,
           timed_acks' = timed_acks \ {id}, Erase({id}), UNCHANGED pending_acks,
           \A o \in Ids : o # id => outcome'[o] = outcome[o] /\ calls'[o] = calls[o],
           \A a \in Apps : pc'[a] = pc[a] /\ pkt'[a] = pkt[a]
    PROVE  PendingInv'
<1>1. \A o \in Ids : Untimed(o) => Untimed(o)'
  BY UntimedIsNotTimed, Zenon DEF Untimed
<1> QED
  BY <1>1, PendingKept, Zenon DEF Erase

(* Every step keeps PendingInv: what is buffered is still pending.            *)
LEMMA PendingStep == IInv /\ [Next]_vars => PendingInv'
<1> SUFFICES ASSUME IInv, [Next]_vars PROVE PendingInv'
  OBVIOUS
<1>0. TypeOK /\ PcOK /\ AckInv /\ PendingInv
  BY Zenon DEF IInv, TypeOK
<1> USE <1>0, ThreadAssumption DEF socketVars, schedulerVars, threadVars, historyVars
<1>1. CASE /\ UNCHANGED <<pending_acks, timed_acks, outcome, calls>>
           /\ buffer' \subseteq buffer
           /\ \A a \in Apps : pc'[a] = "ready" => pc[a] = "ready" /\ pkt'[a] = pkt[a]
  BY <1>1, PendingKept, Zenon DEF Untimed
<1>2. ASSUME NEW a \in Apps, Emit(a) PROVE PendingInv'
  <2>1. /\ UNCHANGED <<pending_acks, timed_acks, outcome, calls>> /\ pc'[a] # "ready"
        /\ \A b \in Apps : b # a => pc'[b] = pc[b] /\ pkt'[b] = pkt[b]
    BY <1>2, Zenon DEF Emit, SendOrBuffer, Goto, TypeOK, PcOK, Threads
  <2>2. \A e \in buffer' : e \in buffer \/ e.pkt.id = NoId
    BY <1>2 DEF Emit, SendOrBuffer, PushBack, Emission
  <2> QED
    BY <2>1, <2>2, Zenon DEF PendingInv, BufferedIsPending, Untimed
<1>3. ASSUME NEW a \in Apps, EmitAck(a) PROVE PendingInv'
  <2>1. /\ pending_acks' = pending_acks \cup {next_ack_id} /\ next_ack_id \in Ids
        /\ UNCHANGED <<buffer, timed_acks, outcome, calls>>
        /\ pkt'[a].id = next_ack_id
        /\ \A b \in Apps : b # a => pc'[b] = pc[b] /\ pkt'[b] = pkt[b]
    BY <1>3, NextId, Zenon DEF EmitAck, Goto, Emission, TypeOK, PcOK, Threads
  <2> QED
    BY <2>1 DEF PendingInv, BufferedIsPending, Untimed
<1>4. ASSUME NEW a \in Apps, EmitAckSend(a) PROVE PendingInv'
  <2>1. /\ UNCHANGED <<pending_acks, timed_acks, outcome, calls>> /\ pc'[a] # "ready"
        /\ \A b \in Apps : b # a => pc'[b] = pc[b] /\ pkt'[b] = pkt[b]
    BY <1>4 DEF EmitAckSend, SendOrBuffer, Goto, TypeOK, PcOK, Threads
  <2>2. \A e \in buffer' : e \in buffer \/ e.pkt = pkt[a]
    BY <1>4 DEF EmitAckSend, SendOrBuffer, PushBack
  <2>3. Untimed(pkt[a].id)
    BY <1>4, Zenon DEF EmitAckSend, PendingInv
  <2> QED
    BY <2>1, <2>2, <2>3, SMTT(20) DEF PendingInv, BufferedIsPending, Untimed
<1>5. ASSUME NEW a \in Apps, TimedEmitLocked(a) PROVE PendingInv'
  <2>1. /\ timed_acks' = timed_acks \cup {next_ack_id}
        /\ UNCHANGED <<pending_acks, outcome, calls>>
        /\ \A e \in buffer' : e \in buffer \/ e.pkt.id = next_ack_id
    BY <1>5 DEF TimedEmitLocked, PushBack, Emission
  <2>2. /\ pc'[a] # "ready"
        /\ \A b \in Apps : b # a => pc'[b] = pc[b] /\ pkt'[b] = pkt[b]
    BY <1>5 DEF TimedEmitLocked, Notified, TypeOK, PcOK, Threads
  <2> QED
    BY <2>1, <2>2 DEF PendingInv, BufferedIsPending, Untimed
<1>6. ASSUME NEW a \in Apps,
             \/ \E d \in Timeouts : TimedEmit(a, d)
             \/ TimedEmitRejected(a) \/ SendPacket(a) \/ Disconnect(a)
      PROVE  PendingInv'
  <2>1. /\ UNCHANGED <<pending_acks, timed_acks, outcome, calls, buffer>>
        /\ pc'[a] # "ready"
        /\ \A b \in Apps : b # a => pc'[b] = pc[b] /\ pkt'[b] = pkt[b]
    BY <1>6, Zenon DEF TimedEmit, TimedEmitRejected, SendPacket, Disconnect, Goto, TypeOK, PcOK,
                Threads
  <2> QED
    BY <1>1, <2>1, Zenon
<1>7. ASSUME NEW t \in IoThreads,
             \/ MarkConnected(t) \/ MarkDisconnected(t) \/ Unwind(t)
             \/ FlushNext(t) \/ FlushSend(t)
      PROVE  PendingInv'
  <2>1. /\ UNCHANGED <<pending_acks, timed_acks, outcome, calls>>
        /\ buffer' \subseteq buffer
        /\ \A b \in Apps : pc'[b] = pc[b] /\ pkt'[b] = pkt[b]
    BY <1>7 DEF MarkConnected, MarkDisconnected, Unwind, Disconnected, FlushNext, FlushSend,
                Goto, TypeOK, PcOK, Threads
  <2> QED
    BY <1>1, <2>1, Zenon
<1>8. ASSUME NEW t \in IoThreads, FlushExpire(t) PROVE PendingInv'
  <2>1. /\ \A b \in Apps : pc'[b] = pc[b] /\ pkt'[b] = pkt[b]
        /\ UNCHANGED pending_acks
    BY <1>8 DEF FlushExpire, Goto, TypeOK, PcOK, Threads
  <2>2. pkt[t].id \in Ids
    BY <1>8, Zenon DEF FlushExpire, IInv, DeadlineInv
  <2>3. CASE ExpireAck(pkt[t].id)
    BY <2>1, <2>2, <2>3, PendingResolve, Zenon DEF ExpireAck, TypeOK
  <2>4. CASE AlreadyClaimed(pkt[t].id)
    BY <1>1, <2>1, <2>4, Zenon DEF AlreadyClaimed
  <2> QED
    BY <1>8, <2>3, <2>4, Zenon DEF FlushExpire
<1>9. CASE WorkerExpire
  <2>1. /\ \A b \in Apps : pc'[b] = pc[b] /\ pkt'[b] = pkt[b]
        /\ UNCHANGED pending_acks
    BY <1>9, Zenon DEF WorkerExpire, Goto, PcOK, Threads
  <2>2. claimed \in Ids
    BY <1>9, Zenon DEF WorkerExpire, IInv, DeadlineInv
  <2>3. CASE ExpireAck(claimed)
    BY <2>1, <2>2, <2>3, PendingResolve, Zenon DEF ExpireAck, TypeOK
  <2>4. CASE AlreadyClaimed(claimed)
    BY <1>1, <2>1, <2>4, Zenon DEF AlreadyClaimed
  <2> QED
    BY <1>9, <2>3, <2>4, Zenon DEF WorkerExpire
<1>10. ASSUME NEW t \in IoThreads, NEW id \in Ids, DispatchTimedAck(t, id)
       PROVE  PendingInv'
  <2>1. \A b \in Apps : pc'[b] = pc[b] /\ pkt'[b] = pkt[b]
    <3>1. CASE id \in scheduled
      BY <1>10, <3>1, Zenon DEF DispatchTimedAck, Notified, PcOK, Threads
    <3>2. CASE id \notin scheduled
      BY <1>10, <3>2, Zenon DEF DispatchTimedAck, PcOK, Threads
    <3> QED
      BY <3>1, <3>2, Zenon
  <2> QED
    BY <1>10, <2>1, PendingResolve, Zenon DEF DispatchTimedAck, TypeOK
<1>11. ASSUME NEW t \in IoThreads, NEW id \in Ids, DispatchAck(t, id) PROVE PendingInv'
  <2>1. \A o \in Ids : Untimed(o) => Untimed(o)'
    BY <1>11 DEF DispatchAck, Untimed, AckInv, TypeOK
  <2> QED
    BY <1>11, <2>1, PendingKept, Zenon DEF DispatchAck
<1>12. CASE CancelTimedAcks
  <2>1. /\ buffer' \subseteq buffer /\ \A e \in buffer' : e.pkt.id \notin timed_acks
        /\ \A b \in Apps : pc'[b] = pc[b] /\ pkt'[b] = pkt[b]
    BY <1>12, Zenon DEF CancelTimedAcks, Erase, Notified, PcOK, Threads
  <2>2. \A o \in Ids : Untimed(o) => Untimed(o)'
    BY <1>12, UntimedIsNotTimed, Zenon DEF CancelTimedAcks, Untimed, TypeOK
  <2> QED
    BY <2>1, <2>2, PendingKept, Zenon
<1>13. ASSUME NEW t \in Threads, FinishTimedAck(t) \/ DisconnectLocked(t) PROVE PendingInv'
  <2>1. /\ UNCHANGED <<pending_acks, timed_acks, outcome, calls, buffer, pkt>>
        /\ \A b \in Apps : pc'[b] = "ready" => pc[b] = "ready"
    BY <1>13, Zenon DEF FinishTimedAck, DisconnectLocked, Goto, PcOK, Threads
  <2> QED
    BY <1>1, <2>1, Zenon
<1>14. CASE \/ WorkerLoop \/ WorkerWake \/ CloseDisconnect \/ WaitForTimedAcks
            \/ ResumeTimedAcks \/ Tick \/ UNCHANGED vars
  <2>1. /\ UNCHANGED <<pending_acks, timed_acks, outcome, calls, buffer, pkt>>
        /\ \A b \in Apps : pc'[b] = pc[b]
    BY <1>14, Zenon DEF WorkerLoop, WorkerWake, CloseDisconnect, WaitForTimedAcks, ResumeTimedAcks,
                 Tick, vars, Goto, PcOK, Threads
  <2> QED
    BY <1>1, <2>1, Zenon
<1> QED
  BY <1>2, <1>3, <1>4, <1>5, <1>6, <1>7, <1>8, <1>9, <1>10, <1>11, <1>12, <1>13, <1>14, SMTT(20)
  DEF Next, App, Io, Deadlines, Shutdown, Threads

(* The initial state satisfies the inductive invariant.                       *)
LEMMA InitIInv == Init => IInv
<1> SUFFICES ASSUME Init PROVE IInv
  BY Zenon
<1> USE ThreadAssumption, BoundAssumption DEF Init
<1>1. TypeOK
  <2>1. PcOK
    BY Zenon DEF PcOK, Threads, AppPcs, IoPcs, WorkerPcs, CloserPcs
  <2>2. wire \in Seq(Packet) /\ pkt \in [Threads -> Packet \cup {NoPacket}]
    OBVIOUS
  <2>3. 0 \in Times /\ 0 \in 0 .. MaxIds /\ 0 \in 0 .. MaxEmits
    BY DEF Times
  <2>4. /\ deadline \in [Ids -> Times] /\ due \in [Apps -> Times]
        /\ emits \in [Apps -> 0 .. MaxEmits] /\ calls \in [Ids -> Nat]
        /\ outcome \in [Ids -> {"unused", "acknowledged", "timeout", "cancelled"}]
    BY <2>3, Zenon
  <2>5. /\ connected \in BOOLEAN /\ flushing \in BOOLEAN /\ closed \in BOOLEAN
        /\ buffer \subseteq Entry /\ tail \in Nat /\ active \in Nat
        /\ pending_acks \subseteq Ids /\ timed_acks \subseteq Ids /\ scheduled \subseteq Ids
        /\ wakeAt \in Times \cup {Never} /\ claimed \in Ids \cup {NoId}
    BY Zenon
  <2>6. next_ack_id \in 0 .. MaxIds /\ now \in Times
    BY <2>3
  <2> QED
    BY <2>1, <2>2, <2>4, <2>5, <2>6, Zenon DEF TypeOK
<1>2. AckInv /\ DeadlineInv /\ FlushInv /\ ThrowFree /\ PendingInv
  BY DEF AckInv, DeadlineInv, NeverOrphaned, NeverOversleeps, FlushInv, ThrowFree,
         NothingStranded, PendingInv, BufferedIsPending, Threads, FlushPcs
<1>3. CloseInv
  <2>1. CallbackThreads = {}
    BY Zenon DEF CallbackThreads, CallbackPcs
  <2> QED
    BY <2>1, FS_EmptySet, Zenon DEF CloseInv, Threads
<1>4. OrderInv
  BY DEF OrderInv, WireOrder, BufferOrder, FlushHand, AppHand, InOrder, Threads
<1> QED
  BY <1>1, <1>2, <1>3, <1>4, Zenon DEF IInv

(* The eight groups of IInv hold in every state of socket.cpp's threads: they *)
(* hold initially and every step keeps them.                                  *)
THEOREM InductiveInvariant == Spec => []IInv
<1>1. IInv /\ [Next]_vars => IInv'
  BY TypeStep, AckStep, DeadlineStep, CloseStep, FlushStep, OrderStep, PendingStep, Zenon DEF IInv
<1> QED
  BY <1>1, InitIInv, PTL DEF Spec

(* -------------------------- The safety theorems -------------------------- *)

(* Every variable keeps its type; active_timed_acks_ never underflows.        *)
THEOREM TypeCorrect == Spec => []TypeOK
BY InductiveInvariant, PTL DEF IInv

(* No timed acknowledgement is ever left without somebody to resolve it, in    *)
(* emit, the worker of ack_scheduler, dispatch_ack, the flush and the shutdown. *)
THEOREM NeverOrphanedAlways == Spec => []NeverOrphaned
BY InductiveInvariant, PTL DEF IInv, DeadlineInv

(* The worker of ack_scheduler never waits beyond the earliest deadline.       *)
THEOREM NeverOversleepsAlways == Spec => []NeverOversleeps
BY InductiveInvariant, PTL DEF IInv, DeadlineInv

(* Whichever thread gets to an acknowledgement first, its callback starts at   *)
(* most once, and never after cancel_timed_acks took it.                      *)
THEOREM CallbackAtMostOnceAlways == Spec => []CallbackAtMostOnce
<1>1. IInv => CallbackAtMostOnce
  BY DEF IInv, AckInv, CallbackAtMostOnce
<1> QED
  BY <1>1, InductiveInvariant, PTL

(* A timed event that was resolved or cancelled is no longer in send_buffer_.  *)
THEOREM BufferedIsPendingAlways == Spec => []BufferedIsPending
BY InductiveInvariant, PTL DEF IInv, PendingInv

(* A connected namespace with a non-empty send_buffer_ is being flushed, or    *)
(* believes it is.                                                             *)
THEOREM NothingStrandedAlways == Spec => []NothingStranded
BY InductiveInvariant, PTL DEF IInv, FlushInv

(* If send_packet never throws, flushing_send_buffer_ is set exactly while one *)
(* thread is in flush_send_buffer.                                             *)
THEOREM OneFlusherAlways ==
    ASSUME ~SendMayThrow PROVE Spec => []OneFlusher
<1>1. IInv => OneFlusher
  BY DEF IInv, FlushInv, ThrowFree, OneFlusher
<1> QED
  BY <1>1, InductiveInvariant, PTL

(* The events of an application thread reach send_packet in emission order and *)
(* at most once, across buffering, flushes, timeouts and reconnections.        *)
THEOREM InOrderAlways == Spec => []InOrder
BY InductiveInvariant, PTL DEF IInv, OrderInv, WireOrder

(* Between the return of sync_close() and the next connect(), no timed          *)
(* callback runs or is pending.                                                *)
THEOREM QuietAfterSyncCloseAlways == Spec => []QuietAfterSyncClose
<1>1. IInv => QuietAfterSyncClose
  <2> SUFFICES ASSUME IInv, pc[Closer] = "synced"
               PROVE  timed_acks = {} /\ \A t \in Threads : pc[t] \notin CallbackPcs
    BY DEF QuietAfterSyncClose
  <2>1. timed_acks = {} /\ Cardinality(CallbackThreads) = 0
    BY DEF IInv, CloseInv
  <2>2. CallbackThreads = {}
    BY <2>1, CallbackThreadsFinite, FS_EmptySet, Zenon
  <2> QED
    BY <2>1, <2>2, Zenon DEF CallbackThreads
<1> QED
  BY <1>1, InductiveInvariant, PTL

-----------------------------------------------------------------------------
(* The abstract status of the ids, as the refinement mapping defines it.     *)
Status == [id \in Ids |-> IF id \in timed_acks THEN "pending" ELSE outcome[id]]

promiseVars == <<now, deadline, timed_acks, outcome, calls, closed>>

(* Resolving id in the detailed specification resolves it in the abstract one. *)
LEMMA ResolveRefines ==
    ASSUME TypeOK, NEW id \in timed_acks, NEW verdict \in {"timeout", "acknowledged"},
           verdict = IF deadline[id] <= now THEN "timeout" ELSE "acknowledged",
           timed_acks' = timed_acks \ {id},
           outcome' = [outcome EXCEPT ![id] = verdict],
           calls' = [calls EXCEPT ![id] = @ + 1],
           UNCHANGED <<now, deadline, closed>>
    PROVE  Promise!Next
<1>1. id \in Ids
  BY Zenon DEF TypeOK
<1>2. Status' = [Status EXCEPT ![id] = verdict] /\ Status[id] = "pending"
  BY <1>1, Zenon DEF Status, TypeOK
<1>3. Promise!Resolve(id, verdict)
  BY <1>2 DEF Promise!Resolve, Status
<1> QED
  BY <1>1, <1>3, Zenon DEF Promise!Next

(* Every step of Socket is a step of TimedAck or leaves it unchanged.         *)
LEMMA PromiseStep == IInv /\ [Next]_vars => [Promise!Next]_(Promise!vars)
<1> SUFFICES ASSUME IInv, [Next]_vars PROVE [Promise!Next]_(Promise!vars)
  OBVIOUS
<1>0. TypeOK /\ AckInv /\ DeadlineInv
  BY DEF IInv
<1> USE <1>0 DEF socketVars, schedulerVars, threadVars, historyVars
<1>1. CASE UNCHANGED promiseVars
  BY <1>1 DEF promiseVars, Promise!vars
<1>2. ASSUME NEW a \in Apps, TimedEmitLocked(a) PROVE Promise!Next
  <2>1. /\ next_ack_id \in Ids /\ due[a] \in Times
        /\ next_ack_id \notin timed_acks
        /\ outcome[next_ack_id] = "unused" /\ calls[next_ack_id] = 0
    <3>1. pc[a] = "timed" /\ next_ack_id < MaxIds
      BY <1>2, Zenon DEF TimedEmitLocked
    <3>2. next_ack_id \in Ids /\ next_ack_id >= next_ack_id
      BY <3>1, NextId, BoundAssumption DEF TypeOK
    <3>3. due[a] \in Times
      BY <3>1, Zenon DEF TypeOK
    <3> QED
      BY <3>2, <3>3, Zenon DEF AckInv
  <2>2. /\ ~closed /\ timed_acks' = timed_acks \cup {next_ack_id}
        /\ deadline' = [deadline EXCEPT ![next_ack_id] = due[a]]
        /\ UNCHANGED <<now, calls, closed, outcome>>
    BY <1>2, Zenon DEF TimedEmitLocked
  <2>3. /\ Status[next_ack_id] = "unused"
        /\ Status' = [Status EXCEPT ![next_ack_id] = "pending"]
    <3>1. Status[next_ack_id] = "unused"
      BY <2>1, Zenon DEF Status
    <3>2. \A id \in Ids : id \in timed_acks' <=> id \in timed_acks \/ id = next_ack_id
      BY <2>2, Zenon
    <3>3. Status' = [Status EXCEPT ![next_ack_id] = "pending"]
      BY <2>1, <2>2, <3>2, Zenon DEF Status
    <3> QED
      BY <3>1, <3>3, Zenon
  <2>4. PICK id \in Ids, d \in Times : id = next_ack_id /\ d = due[a]
    BY <2>1
  <2>5. Promise!Accept(id, d)
    BY <2>1, <2>2, <2>3, <2>4 DEF Promise!Accept, Status
  <2> QED
    BY <2>5, Zenon DEF Promise!Next
<1>3. ASSUME NEW t \in IoThreads, FlushExpire(t) PROVE [Promise!Next]_(Promise!vars)
  <2>1. UNCHANGED <<now, deadline, closed>> /\ deadline[pkt[t].id] <= now
    BY <1>3, Zenon DEF FlushExpire, DeadlineInv
  <2>2. CASE ExpireAck(pkt[t].id)
    BY <2>1, <2>2, ResolveRefines, Zenon DEF ExpireAck
  <2>3. CASE AlreadyClaimed(pkt[t].id)
    BY <1>1, <2>1, <2>3 DEF AlreadyClaimed, promiseVars
  <2> QED
    BY <1>3, <2>2, <2>3, Zenon DEF FlushExpire
<1>4. CASE WorkerExpire
  <2>1. UNCHANGED <<now, deadline, closed>> /\ deadline[claimed] <= now
    BY <1>4, Zenon DEF WorkerExpire, DeadlineInv
  <2>2. CASE ExpireAck(claimed)
    BY <2>1, <2>2, ResolveRefines, Zenon DEF ExpireAck
  <2>3. CASE AlreadyClaimed(claimed)
    BY <1>1, <2>1, <2>3 DEF AlreadyClaimed, promiseVars
  <2> QED
    BY <1>4, <2>2, <2>3 DEF WorkerExpire
<1>5. ASSUME NEW t \in IoThreads, NEW id \in Ids, DispatchTimedAck(t, id)
      PROVE  Promise!Next
  <2> DEFINE verdict == IF Expired(id) THEN "timeout" ELSE "acknowledged"
  <2>1. Expired(id) <=> deadline[id] <= now
    BY <1>5 DEF DispatchTimedAck, Expired, DeadlineInv, NeverOrphaned
  <2>2. /\ id \in timed_acks /\ timed_acks' = timed_acks \ {id}
        /\ outcome' = [outcome EXCEPT ![id] = verdict]
        /\ calls' = [calls EXCEPT ![id] = @ + 1]
        /\ UNCHANGED <<now, deadline, closed>>
    BY <1>5 DEF DispatchTimedAck
  <2>3. /\ verdict \in {"timeout", "acknowledged"}
        /\ verdict = IF deadline[id] <= now THEN "timeout" ELSE "acknowledged"
    BY <2>1, Zenon
  <2> HIDE DEF verdict
  <2> QED
    BY <2>2, <2>3, ResolveRefines, Zenon
<1>6. ASSUME NEW t \in IoThreads, NEW id \in Ids, DispatchAck(t, id) PROVE Promise!Next
  <2>0. id \notin timed_acks /\ outcome[id] = "unused" /\ calls[id] = 0
    BY <1>6, Zenon DEF DispatchAck, AckInv
  <2>1. /\ id \notin timed_acks /\ outcome[id] = "unused" /\ calls[id] = 0
        /\ calls' = [calls EXCEPT ![id] = 1]
        /\ UNCHANGED <<now, deadline, closed, timed_acks, outcome>>
    BY <1>6, <2>0 DEF DispatchAck
  <2>2. Status[id] = "unused" /\ Status' = Status
    BY <2>1, Zenon DEF Status
  <2>3. Promise!Reply(id)
    BY <2>1, <2>2, Zenon DEF Promise!Reply, Status
  <2> QED
    BY <2>3, Zenon DEF Promise!Next
<1>7. CASE CancelTimedAcks
  <2>1. /\ closed' = TRUE /\ timed_acks' = {}
        /\ outcome' = [id \in Ids |-> IF id \in timed_acks THEN "cancelled" ELSE outcome[id]]
        /\ UNCHANGED <<now, deadline, calls>>
    BY <1>7, Zenon DEF CancelTimedAcks
  <2>2. Status' = [id \in Ids |-> IF Status[id] = "pending" THEN "cancelled" ELSE Status[id]]
    BY <2>1, Zenon DEF Status, TypeOK
  <2>3. Promise!Shutdown
    BY <2>1, <2>2 DEF Promise!Shutdown, Status
  <2> QED
    BY <2>3, Zenon DEF Promise!Next
<1>8. CASE ResumeTimedAcks
  <2>1. closed' = FALSE /\ UNCHANGED <<now, deadline, timed_acks, outcome, calls>>
    BY <1>8 DEF ResumeTimedAcks
  <2>2. Promise!Connect
    BY <2>1 DEF Promise!Connect
  <2> QED
    BY <2>2 DEF Promise!Next
<1>9. CASE Tick
  <2>1. /\ now' \in Times /\ now' > now
        /\ UNCHANGED <<deadline, timed_acks, outcome, calls, closed>>
    BY <1>9, BoundAssumption DEF Tick, TypeOK, Times
  <2>2. Promise!Tick
    BY <2>1, Zenon DEF Promise!Tick
  <2> QED
    BY <2>2, Zenon DEF Promise!Next
<1>10. ASSUME NEW a \in Apps,
              \/ Emit(a) \/ EmitAck(a) \/ EmitAckSend(a)
              \/ (\E d \in Timeouts : TimedEmit(a, d))
              \/ TimedEmitRejected(a) \/ SendPacket(a) \/ Disconnect(a)
       PROVE  UNCHANGED promiseVars
  BY <1>10, Zenon DEF promiseVars, Emit, EmitAck, EmitAckSend, TimedEmit, TimedEmitRejected,
               SendPacket, Disconnect
<1>11. ASSUME NEW t \in IoThreads,
              \/ MarkConnected(t) \/ MarkDisconnected(t) \/ Unwind(t)
              \/ FlushNext(t) \/ FlushSend(t)
       PROVE  UNCHANGED promiseVars
  BY <1>11, Zenon DEF promiseVars, MarkConnected, MarkDisconnected, Unwind, Disconnected,
               FlushNext, FlushSend
<1>12. ASSUME NEW t \in Threads, FinishTimedAck(t) \/ DisconnectLocked(t)
       PROVE  UNCHANGED promiseVars
  BY <1>12, Zenon DEF promiseVars, FinishTimedAck, DisconnectLocked
<1>13. CASE \/ WorkerLoop \/ WorkerWake \/ CloseDisconnect \/ WaitForTimedAcks
            \/ UNCHANGED vars
  BY <1>13, <1>1, Zenon DEF promiseVars, WorkerLoop, WorkerWake, CloseDisconnect,
                     WaitForTimedAcks, vars
<1> QED
  BY <1>1, <1>2, <1>3, <1>4, <1>5, <1>6, <1>7, <1>8, <1>9, <1>10, <1>11, <1>12, <1>13, SMTT(20)
  DEF Next, App, Io, Deadlines, Shutdown, Threads

(* Socket implements TimedAck: whatever the threads of socket.cpp and          *)
(* ack_scheduler.hpp do, a timed emission is acknowledged strictly before its  *)
(* deadline, times out at or after it, or is cancelled by a shutdown, once.    *)
THEOREM Refinement == Spec => KeepsPromise
<1>1. Init => Promise!Init
  BY DEF Init, Promise!Init
<1> QED
  BY <1>1, PromiseStep, InductiveInvariant, PTL DEF Spec, KeepsPromise, Promise!Spec
=============================================================================
