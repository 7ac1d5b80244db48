------------------------ MODULE FramesControlProofs ------------------------
(***************************************************************************)
(* The threads, connections and reply callbacks of Frames, for all messages, *)
(* numbers of connections and formats that meet its assumptions: the       *)
(* invariant that its theorems, in FramesProofs, rest on.                  *)
(***************************************************************************)
EXTENDS FramesLemmas, FiniteSetTheorems

Links  == {"none", "connecting", "open", "lost"}
Labels == {"idle", "opened", "lock", "send", "check", "decode", "dispatch", "listening"}

\* A reply callback is for a message of the server.
ClosureSet == {k \in [event : Connections \X Nat, id : Int, nsp : Sockets, sent : BOOLEAN] :
                  \E m \in Messages : k.nsp = m.nsp /\ k.id = m.id}

(* The types of what is not a history, and of the messages said.                *)
TypeInv ==
    /\ parser \in Parsers /\ channel \in Channels
    /\ (parser = "msgpack" => channel = "websocket")
    /\ current \in 0 .. MaxConnections
    /\ link \in [Connections -> Links]
    /\ connected \subseteq Sockets
    /\ lock \in Threads \cup {Nobody}
    /\ pc \in [Threads -> Labels]
    /\ job \in [Threads -> Seq(Outgoing)]
    /\ engine \in [Threads -> 0 .. MaxConnections]
    /\ part \in [Threads -> Nat]

(* The types of what is on its way in, and of what it has led to.               *)
StreamInv ==
    /\ inbox \in [Connections -> Seq(FramesOf(parser))]
    /\ hand \in [Connections -> Seq(FramesOf(parser))]
    /\ kept \in Mixed(parser)
    /\ said \in [Connections -> Seq(Messages)]
    /\ DOMAIN calls = Connections
    /\ \A c \in Connections : /\ IsSequence(calls[c])
                              /\ \A k \in 1 .. Len(calls[c]) : IsCall(calls[c][k])

(* A thread that sends has send_mutex_, a packet and an engine.                 *)
LockInv ==
    \A t \in Threads :
       /\ lock = t <=> pc[t] = "send"
       /\ pc[t] \in {"lock", "send"} => job[t] # <<>>
       /\ pc[t] = "send" => /\ engine[t] \in 1 .. current
                            /\ part[t] < Len(Encode(parser, job[t][1]))
       /\ pc[t] # "send" => part[t] = 0

(* What the thread of a connection may have in hand, and what a connection that *)
(* does not exist yet or any more has.                                          *)
LinkInv ==
    \A c \in Connections :
       /\ c > current => /\ link[c] = "none" /\ pc[c] = "idle"
                         /\ inbox[c] = <<>> /\ said[c] = <<>> /\ calls[c] = <<>>
       /\ link[c] = "lost" => inbox[c] = <<>>
       /\ pc[c] = "idle" => hand[c] = <<>>
       /\ pc[c] = "decode" => hand[c] # <<>>
       /\ pc[c] = "dispatch" => Len(calls[c]) > 0 /\ calls[c][Len(calls[c])] # <<>>

(* A connection that is over: its thread will never decode a frame again.       *)
Retired(c) == link[c] = "lost" /\ pc[c] = "idle"

(* Reply callbacks are for different events, all of the past.                   *)
ClosureInv ==
    /\ closures \in Seq(ClosureSet)
    /\ \A i, j \in 1 .. Len(closures) : i # j => closures[i].event # closures[j].event
    /\ \A i \in 1 .. Len(closures) :
          LET c == closures[i].event[1]
              n == closures[i].event[2]
          IN  \/ Retired(c)
              \/ n <= Len(calls[c]) /\ (pc[c] = "dispatch" => n < Len(calls[c]))

(* Every reply is of a callback that has been used.                             *)
ReplyInv ==
    /\ replies \in Seq(Connections \X Nat)
    /\ \A r \in 1 .. Len(replies) :
          \E i \in 1 .. Len(closures) : closures[i].sent /\ closures[i].event = replies[r]

ControlInv == TypeInv /\ StreamInv /\ LockInv /\ LinkInv /\ ClosureInv
-----------------------------------------------------------------------------
(* Every step keeps the types.                                                  *)

(* The threads are different.                                                   *)
LEMMA ThreadFacts ==
    /\ Connections \subseteq Threads /\ Connections \subseteq Nat
    /\ Emitter \in Threads \ Connections /\ Replier \in Threads \ Connections
    /\ Nobody \notin Threads
  BY BoundAssumption DEF Connections, Threads, Emitter, Replier, Nobody

(* The acknowledgement of a reply callback is a packet that the client sends.   *)
LEMMA ClosurePacket ==
    ASSUME NEW k \in ClosureSet
    PROVE  /\ AckPacket(k.nsp, k.id) \in Outgoing
           /\ k.event \in Connections \X Nat /\ k.sent \in BOOLEAN
           /\ [k EXCEPT !.sent = TRUE] \in ClosureSet
           /\ [k EXCEPT !.sent = TRUE].event = k.event /\ [k EXCEPT !.sent = TRUE].sent
<1>1. PICK m \in Messages : k.nsp = m.nsp /\ k.id = m.id
  BY DEF ClosureSet
<1>2. AckPacket(m.nsp, m.id) \in Outgoing
  BY DEF Outgoing
<1>3. k \in [event : Connections \X Nat, id : Int, nsp : Sockets, sent : BOOLEAN]
  BY DEF ClosureSet
<1>4. /\ [k EXCEPT !.sent = TRUE] \in [event : Connections \X Nat, id : Int, nsp : Sockets,
                                     sent : BOOLEAN]
      /\ [k EXCEPT !.sent = TRUE].event = k.event /\ [k EXCEPT !.sent = TRUE].sent
      /\ [k EXCEPT !.sent = TRUE].nsp = k.nsp /\ [k EXCEPT !.sent = TRUE].id = k.id
  BY <1>3, Zenon
<1> QED
  BY <1>1, <1>2, <1>3, <1>4 DEF ClosureSet

(* What a thread is given to send.                                              *)
LEMMA SendsType ==
    ASSUME TypeInv, NEW t \in Threads, NEW ps \in Seq(Outgoing), Sends(t, ps)
    PROVE  job' \in [Threads -> Seq(Outgoing)] /\ pc' \in [Threads -> Labels]
  BY DEF TypeInv, Sends, Goto, Labels

(* What on_engineio_open gives it.                                              *)
LEMMA ConnectPackets ==
    ASSUME NEW order \in Bijection(1 .. Cardinality(Sockets), Sockets)
    PROVE  [i \in DOMAIN order |-> ConnectPacket(order[i])] \in Seq(Outgoing)
<1>1. Cardinality(Sockets) \in Nat
  BY BoundAssumption, FS_CardinalityType
<1>2. order \in [1 .. Cardinality(Sockets) -> Sockets]
  BY DEF Bijection, Injection, IsInjective
<1>3. \A i \in 1 .. Cardinality(Sockets) : ConnectPacket(order[i]) \in Outgoing
  BY <1>2 DEF Outgoing
<1>4. [i \in DOMAIN order |-> ConnectPacket(order[i])] \in [1 .. Cardinality(Sockets) -> Outgoing]
  BY <1>2, <1>3
<1> QED
  BY <1>1, <1>4, SeqDef

(* What the thread of a connection finds when it decodes a frame.               *)
LEMMA DecodedCall ==
    ASSUME TypeInv, StreamInv, LinkInv, NEW c \in Connections, pc[c] = "decode",
           NEW r, r = Decode(parser, kept, Head(hand[c])),
           NEW call, call = IF r.packet = <<>> THEN <<>> ELSE Route(r.packet[1])
    PROVE  Keeps(r) \in Mixed(parser) /\ IsCall(call)
<1>1. hand[c] \in Seq(FramesOf(parser)) /\ hand[c] # <<>>
  BY DEF StreamInv, LinkInv
<1>2. Head(hand[c]) \in FramesOf(parser)
  BY <1>1, HeadTailProperties
<1>3. parser \in Parsers /\ kept \in Mixed(parser)
  BY DEF TypeInv, StreamInv
<1>4. /\ Keeps(r) \in Mixed(parser)
      /\ \/ r.packet = <<>>
         \/ /\ r.packet # <<>>
            /\ \E m \in Messages : r.packet[1].nsp = m.nsp /\ r.packet[1].id = m.id
  BY <1>2, <1>3, DecodedMixed, Zenon
<1>5. CASE r.packet = <<>>
  BY <1>4, <1>5 DEF IsCall
<1>6. CASE r.packet # <<>>
  BY <1>4, <1>6, RouteCall, Zenon
<1> QED
  BY <1>5, <1>6

(* What decoding a frame does.                                                  *)
LEMMA Decoding ==
    ASSUME TypeInv, StreamInv, LinkInv, NEW c \in Connections, DecodeFrame(c)
    PROVE  LET r    == Decode(parser, kept, Head(hand[c]))
               call == IF r.packet = <<>> THEN <<>> ELSE Route(r.packet[1])
           IN  /\ pc[c] = "decode" /\ hand[c] \in Seq(FramesOf(parser)) /\ hand[c] # <<>>
               /\ Keeps(r) \in Mixed(parser) /\ IsCall(call)
               /\ kept' = Keeps(r)
               /\ hand' = [hand EXCEPT ![c] = Tail(hand[c])]
               /\ crossed' = (crossed \/ current # c)
               /\ calls' = IF r.packet = <<>> THEN calls
                                              ELSE [calls EXCEPT ![c] = Append(calls[c], call)]
               /\ \/ UNCHANGED connected
                  \/ /\ call # <<>>
                     /\ connected' \in {connected \cup {call[1].nsp}, connected \ {call[1].nsp}}
               /\ \/ Goto(c, "check")
                  \/ call # <<>> /\ Goto(c, "dispatch")
               /\ UNCHANGED <<parser, channel, current, link, inbox, said, lock, engine, part,
                              server, begun, torn, closures, replies, job>>
<1> DEFINE r    == Decode(parser, kept, Head(hand[c]))
           call == IF r.packet = <<>> THEN <<>> ELSE Route(r.packet[1])
           op   == IF call = <<>> THEN "none" ELSE call[1].op
<1>1. pc[c] = "decode"
  BY Zenon DEF DecodeFrame
<1>2. Keeps(r) \in Mixed(parser) /\ IsCall(call)
  BY <1>1, DecodedCall, Zenon
<1>3. hand[c] \in Seq(FramesOf(parser)) /\ hand[c] # <<>>
  BY <1>1 DEF StreamInv, LinkInv
<1>4. /\ kept' = Keeps(r)
      /\ hand' = [hand EXCEPT ![c] = Tail(hand[c])]
      /\ crossed' = (crossed \/ current # c)
      /\ calls' = IF r.packet = <<>> THEN calls
                                     ELSE [calls EXCEPT ![c] = Append(calls[c], call)]
      /\ connected' = IF op = "connect" THEN connected \cup {call[1].nsp}
                      ELSE IF op = "disconnect" THEN connected \ {call[1].nsp} ELSE connected
      /\ Goto(c, IF op \in {"event", "error"} THEN "dispatch" ELSE "check")
      /\ UNCHANGED <<parser, channel, current, link, inbox, said, lock, engine, part,
                     server, begun, torn, closures, replies, job>>
  BY Zenon DEF DecodeFrame, config, outbound, app
<1> HIDE DEF r, call
<1>5. call = <<>> => op = "none"
  OBVIOUS
<1> HIDE DEF op
<1>6. \/ UNCHANGED connected
      \/ /\ call # <<>>
         /\ connected' \in {connected \cup {call[1].nsp}, connected \ {call[1].nsp}}
  BY <1>4, <1>5
<1>7. \/ Goto(c, "check")
      \/ call # <<>> /\ Goto(c, "dispatch")
  <2>1. CASE op \in {"event", "error"}
    BY <1>4, <1>5, <2>1
  <2>2. CASE op \notin {"event", "error"}
    BY <1>4, <2>2
  <2> QED
    BY <2>1, <2>2
<1> QED
  BY <1>1, <1>2, <1>3, <1>4, <1>6, <1>7, Zenon DEF r, call

(* Steps that send, or are given something to send.                             *)
LEMMA TypeStepSend ==
    ASSUME ControlInv, NEW t \in Threads,
           SendLock(t) \/ SendFrame(t) \/ Acknowledge(t) \/ (t \in Connections /\ Announce(t))
              \/ (t = Emitter /\ Emit)
    PROVE  TypeInv'
<1> USE DEF ControlInv, config, inbound, outbound, app
<1>0. TypeInv /\ LockInv /\ ClosureInv
  BY Zenon
<1>1. CASE SendLock(t)
  BY <1>0, <1>1, Zenon DEF TypeInv, SendLock, Goto, Labels
<1>2. CASE SendFrame(t)
  <2>1. /\ part' \in [Threads -> Nat] /\ lock' \in Threads \cup {Nobody}
        /\ engine' \in [Threads -> 0 .. MaxConnections]
    BY <1>0, <1>2, BoundAssumption DEF SendFrame, TypeInv
  <2>2. Tail(job[t]) \in Seq(Outgoing)
    BY <1>0, <1>2, HeadTailProperties, Zenon DEF SendFrame, TypeInv, LockInv
  <2>3. job' \in [Threads -> Seq(Outgoing)]
    BY <1>0, <1>2, <2>2, Zenon DEF SendFrame, TypeInv
  <2>4. pc' \in [Threads -> Labels]
    BY <1>0, <1>2, Zenon DEF SendFrame, TypeInv, Goto, After, Labels
  <2> QED
    BY <1>0, <1>2, <2>1, <2>3, <2>4, Zenon DEF SendFrame, TypeInv
<1>3. CASE Acknowledge(t)
  <2>1. PICK i \in DOMAIN closures :
          IF closures[i].sent
            THEN /\ Goto(t, After(t))
                 /\ UNCHANGED <<closures, replies, job>>
            ELSE Sends(t, <<AckPacket(closures[i].nsp, closures[i].id)>>)
    BY <1>3, Zenon DEF Acknowledge
  <2>2. closures[i] \in ClosureSet
    BY <1>0, LenProperties, ElementOfSeq DEF ClosureInv
  <2>3. AckPacket(closures[i].nsp, closures[i].id) \in Outgoing
    BY <2>2, ClosurePacket, Zenon
  <2>5. <<AckPacket(closures[i].nsp, closures[i].id)>> \in Seq(Outgoing)
    BY <2>3
  <2>4. job' \in [Threads -> Seq(Outgoing)] /\ pc' \in [Threads -> Labels]
    <3>1. CASE closures[i].sent
      BY <1>0, <2>1, <3>1, Zenon DEF TypeInv, Goto, After, Labels
    <3>2. CASE ~closures[i].sent
      BY <1>0, <2>1, <2>5, <3>2, SendsType, Zenon
    <3> QED
      BY <3>1, <3>2
  <2> QED
    BY <1>0, <1>3, <2>4 DEF Acknowledge, TypeInv
<1>4. CASE t \in Connections /\ Announce(t)
  <2>1. job' \in [Threads -> Seq(Outgoing)] /\ pc' \in [Threads -> Labels]
    BY <1>0, <1>4, SendsType, ConnectPackets, EmptySeq DEF Announce
  <2> QED
    BY <1>0, <1>4, <2>1, Zenon DEF Announce, TypeInv
<1>5. CASE t = Emitter /\ Emit
  <2>1. PICK p \in Emissions : Sends(t, <<p>>)
    BY <1>5 DEF Emit
  <2>2. <<p>> \in Seq(Outgoing)
    BY DEF Outgoing
  <2>3. job' \in [Threads -> Seq(Outgoing)] /\ pc' \in [Threads -> Labels]
    BY <1>0, <2>1, <2>2, SendsType, Zenon
  <2> QED
    BY <1>0, <1>5, <2>3, Zenon DEF Emit, TypeInv
<1> QED
  BY <1>1, <1>2, <1>3, <1>4, <1>5

(* Steps of a connection and of its thread.                                     *)
LEMMA TypeStepConnection ==
    ASSUME ControlInv, NEW c \in Connections,
           Opened(c) \/ Lost(c) \/ ServerSays(c) \/ Receive(c) \/ Check(c) \/ DecodeFrame(c)
              \/ Dispatch(c)
    PROVE  TypeInv'
<1> USE ThreadFacts DEF ControlInv, config, inbound, outbound, app
<1>0. TypeInv
  OBVIOUS
<1>1. CASE Opened(c)
  BY <1>0, <1>1, Zenon DEF TypeInv, Opened, Goto, Labels, Links
<1>2. CASE Lost(c)
  BY <1>0, <1>2, Zenon DEF TypeInv, Lost, Ends, Links
<1>3. CASE ServerSays(c)
  BY <1>0, <1>3, Zenon DEF TypeInv, ServerSays
<1>4. CASE Receive(c)
  BY <1>0, <1>4, Zenon DEF TypeInv, Receive, Goto, Labels
<1>5. CASE Check(c)
  BY <1>0, <1>5 DEF TypeInv, Check, Goto, Labels
<1>6. CASE DecodeFrame(c)
  <2> DEFINE r    == Decode(parser, kept, Head(hand[c]))
             call == IF r.packet = <<>> THEN <<>> ELSE Route(r.packet[1])
  <2>1. /\ IsCall(call)
        /\ \/ UNCHANGED connected
           \/ /\ call # <<>>
              /\ connected' \in {connected \cup {call[1].nsp}, connected \ {call[1].nsp}}
        /\ Goto(c, "check") \/ Goto(c, "dispatch")
        /\ UNCHANGED <<parser, channel, current, link, lock, engine, part, job>>
    BY <1>6, Decoding, Zenon
  <2> HIDE DEF call
  <2>2. connected' \subseteq Sockets
    BY <1>0, <2>1, Zenon DEF TypeInv, IsCall
  <2>3. pc' \in [Threads -> Labels]
    BY <1>0, <2>1, Zenon DEF TypeInv, Goto, Labels
  <2> QED
    BY <1>0, <2>1, <2>2, <2>3, Zenon DEF TypeInv
<1>7. CASE Dispatch(c)
  BY <1>0, <1>7, Zenon DEF TypeInv, Dispatch, Goto, Labels
<1> QED
  BY <1>1, <1>2, <1>3, <1>4, <1>5, <1>6, <1>7, SMTT(20)

(* Every step.                                                                  *)
LEMMA TypeStep == ControlInv /\ Next => TypeInv'
<1> SUFFICES ASSUME ControlInv, Next PROVE TypeInv'
  OBVIOUS
<1>1. CASE NewEngine
  <2>1. TypeInv
    BY DEF ControlInv
  <2>2. current \in Connections \/ current = 0
    BY <2>1, BoundAssumption DEF TypeInv, Connections
  <2>3. UNCHANGED <<config, lock, engine, part, pc, job, connected>>
    BY <1>1 DEF NewEngine, Ends, config, outbound
  <2>4. current' \in 0 .. MaxConnections /\ link' \in [Connections -> Links]
    BY <1>1, <2>1, BoundAssumption DEF NewEngine, TypeInv, Links
  <2> QED
    BY <2>1, <2>3, <2>4 DEF TypeInv, config
<1> QED
  BY <1>1, TypeStepSend, TypeStepConnection, ThreadFacts DEF Next
-----------------------------------------------------------------------------
(* Every step keeps what a thread that sends has.                               *)

(* A step that touches none of it.                                              *)
LEMMA LockKept ==
    ASSUME TypeInv, LockInv, UNCHANGED <<lock, job, engine, part, parser>>,
           current' \in Nat, current <= current',
           \A u \in Threads : \/ pc'[u] = pc[u]
                              \/ pc[u] \notin {"lock", "send"} /\ pc'[u] \notin {"lock", "send"}
    PROVE  LockInv'
<1> SUFFICES ASSUME NEW u \in Threads
             PROVE  /\ lock' = u <=> pc'[u] = "send"
                    /\ pc'[u] \in {"lock", "send"} => job'[u] # <<>>
                    /\ pc'[u] = "send" => /\ engine'[u] \in 1 .. current'
                                          /\ part'[u] < Len(Encode(parser', job'[u][1]))
                    /\ pc'[u] # "send" => part'[u] = 0
  BY DEF LockInv
<1>1. /\ lock = u <=> pc[u] = "send"
      /\ pc[u] \in {"lock", "send"} => job[u] # <<>>
      /\ pc[u] = "send" => /\ engine[u] \in 1 .. current
                           /\ part[u] < Len(Encode(parser, job[u][1]))
      /\ pc[u] # "send" => part[u] = 0
  BY Zenon DEF LockInv
<1>2. engine[u] \in 1 .. current => engine[u] \in 1 .. current'
  BY DEF TypeInv
<1> QED
  BY <1>1, <1>2, Zenon

(* A thread that does not send is given packets, or goes on.                    *)
LEMMA LockSends ==
    ASSUME TypeInv, LockInv, UNCHANGED <<lock, engine, part, parser, current>>,
           NEW t \in Threads, pc[t] # "send", NEW l \in Labels \ {"send"}, NEW ps,
           l = "lock" => ps # <<>>,
           job' = [job EXCEPT ![t] = ps], Goto(t, l)
    PROVE  LockInv'
<1> SUFFICES ASSUME NEW u \in Threads
             PROVE  /\ lock' = u <=> pc'[u] = "send"
                    /\ pc'[u] \in {"lock", "send"} => job'[u] # <<>>
                    /\ pc'[u] = "send" => /\ engine'[u] \in 1 .. current'
                                          /\ part'[u] < Len(Encode(parser', job'[u][1]))
                    /\ pc'[u] # "send" => part'[u] = 0
  BY DEF LockInv
<1>1. /\ lock = u <=> pc[u] = "send"
      /\ pc[u] \in {"lock", "send"} => job[u] # <<>>
      /\ pc[u] = "send" => /\ engine[u] \in 1 .. current
                           /\ part[u] < Len(Encode(parser, job[u][1]))
      /\ pc[u] # "send" => part[u] = 0
  BY Zenon DEF LockInv
<1>2. CASE u = t
  <2>1. pc'[u] = l /\ job'[u] = ps
    BY <1>2 DEF TypeInv, Goto
  <2> QED
    BY <1>1, <1>2, <2>1, Zenon
<1>3. CASE u # t
  <2>1. pc'[u] = pc[u] /\ job'[u] = job[u]
    BY <1>3, Zenon DEF TypeInv, Goto
  <2> QED
    BY <1>1, <2>1, Zenon
<1> QED
  BY <1>2, <1>3, Zenon

(* send_packet takes the lock, hands a frame over, and gives the lock back.     *)
LEMMA LockSendLock ==
    ASSUME ControlInv, NEW t \in Threads, SendLock(t)
    PROVE  LockInv'
<1>0. TypeInv /\ LockInv
  BY DEF ControlInv
<1>1. /\ pc[t] = "lock" /\ lock = Nobody /\ current # 0 /\ lock' = t
      /\ engine' = [engine EXCEPT ![t] = current]
      /\ pc' = [pc EXCEPT ![t] = "send"]
      /\ UNCHANGED <<parser, current, part, job>>
  BY DEF SendLock, Goto, config
<1>2. job[t] # <<>> /\ part[t] = 0 /\ job[t] \in Seq(Outgoing)
  BY <1>0, <1>1 DEF LockInv, TypeInv
<1>3. job[t][1] \in Outgoing
  BY <1>2, LenProperties, ElementOfSeq, HeadTailProperties
<1>4. part[t] < Len(Encode(parser, job[t][1]))
  BY <1>0, <1>2, <1>3, Encoded, Zenon DEF TypeInv
<1>5. \A u \in Threads : pc[u] # "send"
  BY <1>0, <1>1, ThreadFacts DEF LockInv
<1>6. current \in 1 .. current
  BY <1>0, <1>1 DEF TypeInv
<1> SUFFICES ASSUME NEW u \in Threads
             PROVE  /\ lock' = u <=> pc'[u] = "send"
                    /\ pc'[u] \in {"lock", "send"} => job'[u] # <<>>
                    /\ pc'[u] = "send" => /\ engine'[u] \in 1 .. current'
                                          /\ part'[u] < Len(Encode(parser', job'[u][1]))
                    /\ pc'[u] # "send" => part'[u] = 0
  BY DEF LockInv
<1>7. CASE u = t
  <2>1. pc'[u] = "send" /\ engine'[u] = current
    BY <1>0, <1>1, <1>7 DEF TypeInv
  <2> QED
    BY <1>1, <1>2, <1>4, <1>6, <1>7, <2>1, Zenon
<1>8. CASE u # t
  <2>1. pc'[u] = pc[u] /\ engine'[u] = engine[u]
    BY <1>0, <1>1, <1>8 DEF TypeInv
  <2> QED
    BY <1>0, <1>1, <1>5, <1>8, <2>1, Zenon DEF LockInv
<1> QED
  BY <1>7, <1>8

(* What sending a frame does to the thread.                                     *)
LEMMA SendFrameParts ==
    ASSUME ControlInv, NEW t \in Threads, SendFrame(t)
    PROVE  LET all  == Encode(parser, job[t][1])
               done == part[t] + 1 = Len(all)
           IN  /\ pc[t] = "send" /\ lock = t /\ job[t] # <<>> /\ job[t] \in Seq(Outgoing)
               /\ job[t][1] \in Outgoing /\ engine[t] \in Connections
               /\ IsSequence(all) /\ Len(all) \in Nat
               /\ part[t] \in Nat /\ part[t] + 1 \in 1 .. Len(all)
               /\ part' = [part EXCEPT ![t] = IF done THEN 0 ELSE part[t] + 1]
               /\ lock' = IF done THEN Nobody ELSE lock
               /\ engine' = IF done THEN [engine EXCEPT ![t] = 0] ELSE engine
               /\ job' = IF done THEN [job EXCEPT ![t] = Tail(job[t])] ELSE job
               /\ pc' = [pc EXCEPT ![t] = IF done THEN After(t) ELSE "send"]
               /\ UNCHANGED <<parser, channel, current, link, connected, inbox, hand, kept, said,
                              calls, crossed, torn, closures, replies>>
<1>0. TypeInv /\ LockInv
  BY DEF ControlInv
<1>1. pc[t] = "send"
  BY Zenon DEF SendFrame
<1>2. /\ lock = t /\ job[t] # <<>> /\ job[t] \in Seq(Outgoing) /\ engine[t] \in 1 .. current
      /\ part[t] \in Nat /\ part[t] < Len(Encode(parser, job[t][1]))
  BY <1>0, <1>1, Zenon DEF LockInv, TypeInv
<1>3. job[t][1] \in Outgoing
  BY <1>2, LenProperties, ElementOfSeq, HeadTailProperties
<1>4. IsSequence(Encode(parser, job[t][1])) /\ Len(Encode(parser, job[t][1])) \in Nat
  BY <1>0, <1>3, Encoded DEF TypeInv
<1>5. engine[t] \in Connections /\ part[t] + 1 \in 1 .. Len(Encode(parser, job[t][1]))
  BY <1>0, <1>2, <1>4, BoundAssumption, SMTT(20) DEF TypeInv, Connections
<1> QED
  BY <1>1, <1>2, <1>3, <1>4, <1>5, Zenon DEF SendFrame, Goto, config, inbound, app

(* A frame is sent.                                                             *)
LEMMA LockSendFrame ==
    ASSUME ControlInv, NEW t \in Threads, SendFrame(t)
    PROVE  LockInv'
<1> DEFINE all  == Encode(parser, job[t][1])
           done == part[t] + 1 = Len(all)
<1>0. TypeInv /\ LockInv
  BY DEF ControlInv
<1>1. /\ pc[t] = "send" /\ lock = t /\ job[t] # <<>> /\ job[t] \in Seq(Outgoing)
      /\ part[t] \in Nat /\ part[t] + 1 \in 1 .. Len(all) /\ Len(all) \in Nat
      /\ part' = [part EXCEPT ![t] = IF done THEN 0 ELSE part[t] + 1]
      /\ lock' = IF done THEN Nobody ELSE lock
      /\ engine' = IF done THEN [engine EXCEPT ![t] = 0] ELSE engine
      /\ job' = IF done THEN [job EXCEPT ![t] = Tail(job[t])] ELSE job
      /\ pc' = [pc EXCEPT ![t] = IF done THEN After(t) ELSE "send"]
      /\ UNCHANGED <<parser, current>>
  BY SendFrameParts, Zenon
<1>2. \A u \in Threads : u # t => pc[u] # "send"
  BY <1>0, <1>1, Zenon DEF LockInv
<1>3. /\ After(t) # "send"
      /\ After(t) = "lock" => Tail(job[t]) # <<>>
  <2>1. Len(job[t]) > 1 => Tail(job[t]) # <<>>
    BY <1>1, TailOfMany, Zenon
  <2> QED
    BY <2>1 DEF After
<1> HIDE DEF all, done
<1> SUFFICES ASSUME NEW u \in Threads
             PROVE  /\ lock' = u <=> pc'[u] = "send"
                    /\ pc'[u] \in {"lock", "send"} => job'[u] # <<>>
                    /\ pc'[u] = "send" => /\ engine'[u] \in 1 .. current'
                                          /\ part'[u] < Len(Encode(parser', job'[u][1]))
                    /\ pc'[u] # "send" => part'[u] = 0
  BY DEF LockInv
<1>4. CASE u = t /\ done
  <2>1. pc'[u] = After(t) /\ job'[u] = Tail(job[t]) /\ part'[u] = 0 /\ lock' = Nobody
    BY <1>0, <1>1, <1>4 DEF TypeInv
  <2> QED
    BY <1>3, <1>4, <2>1, ThreadFacts, Zenon
<1>5. CASE u = t /\ ~done
  <2>1. pc'[u] = "send" /\ job' = job /\ part'[u] = part[t] + 1 /\ lock' = t /\ engine' = engine
    BY <1>0, <1>1, <1>5 DEF TypeInv
  <2>2. part[t] + 1 < Len(all)
    BY <1>1, <1>5 DEF done
  <2> QED
    BY <1>0, <1>1, <1>5, <2>1, <2>2, Zenon DEF LockInv, all
<1>6. CASE u # t
  <2>1. /\ pc'[u] = pc[u] /\ job'[u] = job[u] /\ part'[u] = part[u]
    BY <1>0, <1>1, <1>6 DEF TypeInv
  <2>2. lock' # u
    BY <1>1, <1>6, ThreadFacts, Zenon
  <2> QED
    BY <1>0, <1>2, <1>6, <2>1, <2>2, Zenon DEF LockInv
<1> QED
  BY <1>4, <1>5, <1>6

(* Steps in which a thread is given something to send, or goes on.              *)
LEMMA LockStepSends ==
    ASSUME ControlInv, NEW t \in Threads,
           Acknowledge(t) \/ (t \in Connections /\ Announce(t)) \/ (t = Emitter /\ Emit)
    PROVE  LockInv'
<1>0. TypeInv /\ LockInv
  BY DEF ControlInv
<1>1. UNCHANGED <<lock, engine, part, parser, current>> /\ pc[t] # "send"
  BY DEF Acknowledge, Announce, Emit, outbound, config
<1>2. ASSUME NEW ps, Sends(t, ps) PROVE LockInv'
  <2> DEFINE l == IF ps = <<>> THEN "check" ELSE "lock"
  <2>1. l \in Labels \ {"send"} /\ (l = "lock" => ps # <<>>)
    BY DEF Labels
  <2>2. job' = [job EXCEPT ![t] = ps] /\ Goto(t, l)
    BY <1>2 DEF Sends
  <2> HIDE DEF l
  <2> QED
    BY <1>0, <1>1, <2>1, <2>2, LockSends, Zenon
<1>3. ASSUME Goto(t, After(t)), UNCHANGED job PROVE LockInv'
  <2>1. After(t) \in Labels \ {"send"} /\ (After(t) = "lock" => job[t] # <<>>)
    BY EmptySeq DEF After, Labels
  <2>2. job' = [job EXCEPT ![t] = job[t]]
    BY <1>0, <1>3 DEF TypeInv
  <2> QED
    BY <1>0, <1>1, <1>3, <2>1, <2>2, LockSends
<1>4. CASE Acknowledge(t)
  BY <1>2, <1>3, <1>4, Zenon DEF Acknowledge
<1>5. CASE t \in Connections /\ Announce(t)
  BY <1>2, <1>5, Zenon DEF Announce
<1>6. CASE t = Emitter /\ Emit
  BY <1>2, <1>6, Zenon DEF Emit
<1> QED
  BY <1>4, <1>5, <1>6

(* Where the thread of a connection goes.                                       *)
LEMMA GotoConnection ==
    ASSUME TypeInv, NEW c \in Connections, NEW l, Goto(c, l)
    PROVE  pc'[c] = l /\ \A u \in Threads : u # c => pc'[u] = pc[u]
  BY ThreadFacts DEF TypeInv, Goto

(* Every step.                                                                  *)
LEMMA LockStep == ControlInv /\ Next => LockInv'
<1> SUFFICES ASSUME ControlInv, Next PROVE LockInv'
  OBVIOUS
<1>0. TypeInv /\ LockInv /\ current \in Nat
  BY DEF ControlInv, TypeInv
<1>1. CASE NewEngine
  <2>1. UNCHANGED <<lock, job, engine, part, parser, pc>>
    BY <1>1 DEF NewEngine, Ends, config, outbound
  <2>2. current' \in Nat /\ current <= current'
    BY <1>0, <1>1 DEF NewEngine
  <2> QED
    BY <1>0, <2>1, <2>2, LockKept, Zenon
<1>2. ASSUME NEW c \in Connections,
             \/ Opened(c) \/ Lost(c) \/ ServerSays(c) \/ Receive(c) \/ Check(c)
             \/ DecodeFrame(c) \/ Dispatch(c)
      PROVE  LockInv'
  <2>1. UNCHANGED <<lock, job, engine, part, parser, current>>
    BY <1>2, Zenon DEF Opened, Lost, Ends, ServerSays, Receive, Check, DecodeFrame, Dispatch,
                       config, outbound
  <2>2. \/ UNCHANGED pc
        \/ /\ pc[c] \notin {"lock", "send"}
           /\ \E l \in Labels \ {"lock", "send"} : Goto(c, l)
    <3>1. CASE Opened(c)
      BY <3>1 DEF Opened, Labels
    <3>2. CASE Lost(c) \/ ServerSays(c)
      BY <3>2, Zenon DEF Lost, Ends, ServerSays
    <3>3. CASE Receive(c)
      BY <3>3, Zenon DEF Receive, Labels
    <3>4. CASE Check(c)
      BY <3>4 DEF Check, Labels
    <3>5. CASE DecodeFrame(c)
      <4>1. pc[c] = "decode" /\ (Goto(c, "check") \/ Goto(c, "dispatch"))
        BY <3>5, Decoding, Zenon DEF ControlInv
      <4> QED
        BY <4>1 DEF Labels
    <3>6. CASE Dispatch(c)
      BY <3>6 DEF Dispatch, Labels
    <3> QED
      BY <1>2, <3>1, <3>2, <3>3, <3>4, <3>5, <3>6, SMTT(20)
  <2>3. \A u \in Threads : \/ pc'[u] = pc[u]
                           \/ pc[u] \notin {"lock", "send"} /\ pc'[u] \notin {"lock", "send"}
    BY <1>0, <2>2, GotoConnection
  <2>4. current' \in Nat /\ current <= current'
    BY <1>0, <2>1
  <2> QED
    BY <1>0, <2>1, <2>3, <2>4, LockKept
<1> QED
  BY <1>1, <1>2, LockStepSends, LockSendLock, LockSendFrame, ThreadFacts, Zenon DEF Next
-----------------------------------------------------------------------------
(* Every step keeps the types of what is on its way in.                         *)

(* A step that touches none of it.                                              *)
LEMMA StreamKept ==
    ASSUME StreamInv, UNCHANGED <<parser, inbox, hand, kept, said, calls>>
    PROVE  StreamInv'
  BY Zenon DEF StreamInv

(* What a connection is left with when its histories are forgotten.             *)
LEMMA Forgotten ==
    ASSUME StreamInv, NEW c \in Connections, Forget(c) \/ UNCHANGED <<said, calls>>
    PROVE  /\ said' \in [Connections -> Seq(Messages)]
           /\ DOMAIN calls' = Connections
           /\ \A d \in Connections : /\ IsSequence(calls'[d])
                                     /\ \A k \in 1 .. Len(calls'[d]) : IsCall(calls'[d][k])
<1>1. CASE UNCHANGED <<said, calls>>
  BY <1>1, Zenon DEF StreamInv
<1>2. CASE Forget(c)
  <2>1. <<>> \in Seq(Messages) /\ IsSequence(<<>>) /\ Len(<<>>) = 0
    BY EmptySeq, SeqIsSequence, Zenon
  <2>2. said' \in [Connections -> Seq(Messages)] /\ DOMAIN calls' = Connections
    BY <1>2, <2>1, Zenon DEF StreamInv, Forget
  <2>3. \A d \in Connections : calls'[d] = IF d = c THEN <<>> ELSE calls[d]
    BY <1>2, Zenon DEF StreamInv, Forget
  <2>4. \A k \in 1 .. 0 : FALSE
    OBVIOUS
  <2> QED
    BY <2>1, <2>2, <2>3, <2>4, Zenon DEF StreamInv
<1> QED
  BY <1>1, <1>2

(* The end of a connection.                                                     *)
LEMMA StreamEnds ==
    ASSUME StreamInv, NEW c \in Connections, Ends(c)
    PROVE  StreamInv'
<1>1. inbox' \in [Connections -> Seq(FramesOf(parser))]
  BY EmptySeq DEF Ends, StreamInv
<1>2. Forget(c) \/ UNCHANGED <<said, calls>>
  BY Zenon DEF Ends
<1>3. UNCHANGED <<parser, hand, kept>>
  BY DEF Ends, config
<1> QED
  BY <1>1, <1>2, <1>3, Forgotten, Zenon DEF StreamInv

(* The server sends the frames of a message.                                    *)
LEMMA Said ==
    ASSUME TypeInv, StreamInv, LinkInv, NEW c \in Connections, ServerSays(c)
    PROVE  \E m \in Messages :
              LET fs == Encode(parser, MessagePacket(m))
              IN  /\ current = c /\ link[c] = "open" /\ pc[c] = "idle" /\ hand[c] = <<>>
                  /\ fs \in Seq(FramesOf(parser)) /\ inbox[c] \in Seq(FramesOf(parser))
                  /\ said' = [said EXCEPT ![c] = Append(said[c], m)]
                  /\ inbox' = [inbox EXCEPT ![c] = inbox[c] \o fs]
                  /\ UNCHANGED <<parser, current, link, hand, kept, calls, crossed, pc>>
<1>1. PICK m \in Messages :
         /\ said' = [said EXCEPT ![c] = Append(said[c], m)]
         /\ inbox' = [inbox EXCEPT ![c] = inbox[c] \o Encode(parser, MessagePacket(m))]
  BY Zenon DEF ServerSays
<1>2. Encode(parser, MessagePacket(m)) \in Seq(FramesOf(parser))
  BY MessageFrames, Zenon DEF TypeInv
<1>3. /\ current = c /\ link[c] = "open" /\ pc[c] = "idle"
      /\ UNCHANGED <<parser, current, link, hand, kept, calls, crossed, pc>>
  BY Zenon DEF ServerSays, config
<1>4. hand[c] = <<>> /\ inbox[c] \in Seq(FramesOf(parser))
  BY <1>3 DEF LinkInv, StreamInv
<1> QED
  BY <1>1, <1>2, <1>3, <1>4, Zenon

(* The thread of a connection reads what was sent.                              *)
LEMMA Received ==
    ASSUME TypeInv, StreamInv, LinkInv, NEW c \in Connections, Receive(c)
    PROVE  \E n \in 1 .. Len(inbox[c]) :
              /\ current = c /\ pc[c] = "idle" /\ hand[c] = <<>> /\ Goto(c, "decode")
              /\ inbox[c] \in Seq(FramesOf(parser))
              /\ SubSeq(inbox[c], 1, n) \in Seq(FramesOf(parser)) /\ Len(SubSeq(inbox[c], 1, n)) = n
              /\ SubSeq(inbox[c], n + 1, Len(inbox[c])) \in Seq(FramesOf(parser))
              /\ hand' = [hand EXCEPT ![c] = SubSeq(inbox[c], 1, n)]
              /\ inbox' = [inbox EXCEPT ![c] = SubSeq(inbox[c], n + 1, Len(inbox[c]))]
              /\ UNCHANGED <<parser, current, link, kept, said, calls, crossed>>
<1>1. /\ current = c /\ pc[c] = "idle" /\ Goto(c, "decode")
      /\ UNCHANGED <<parser, current, link, kept, said, calls, crossed>>
  BY Zenon DEF Receive, config
<1>2. hand[c] = <<>> /\ inbox[c] \in Seq(FramesOf(parser))
  BY <1>1 DEF LinkInv, StreamInv
<1>3. PICK n \in 1 .. MaxBody \cap DOMAIN inbox[c] :
         /\ channel = "websocket" => n = 1
         /\ hand' = [hand EXCEPT ![c] = Carry(channel, SubSeq(inbox[c], 1, n))]
         /\ inbox' = [inbox EXCEPT ![c] = SubSeq(inbox[c], n + 1, Len(inbox[c]))]
  BY Zenon DEF Receive
<1>4. n \in 1 .. MaxBody /\ n \in 1 .. Len(inbox[c]) /\ Len(inbox[c]) \in Nat /\ n \in Nat
  BY <1>2, <1>3, LenProperties, BoundAssumption
<1>5. /\ SubSeq(inbox[c], 1, n) \in Seq(FramesOf(parser)) /\ Len(SubSeq(inbox[c], 1, n)) = n
      /\ SubSeq(inbox[c], n + 1, Len(inbox[c])) \in Seq(FramesOf(parser))
  BY <1>2, <1>4, SubSeqProperties
<1>6. SubSeq(inbox[c], 1, n) \in [1 .. n -> FramesOf(parser)]
  BY <1>5, LenProperties, Zenon
<1>7. Carry(channel, SubSeq(inbox[c], 1, n)) = SubSeq(inbox[c], 1, n)
  BY <1>3, <1>4, <1>6, Carried DEF TypeInv
<1> QED
  BY <1>1, <1>2, <1>3, <1>4, <1>5, <1>7, Zenon

(* Every step.                                                                  *)
LEMMA StreamStep == ControlInv /\ Next => StreamInv'
<1> SUFFICES ASSUME ControlInv, Next PROVE StreamInv'
  OBVIOUS
<1>0. TypeInv /\ StreamInv /\ LinkInv
  BY DEF ControlInv
<1>1. CASE NewEngine
  <2>1. UNCHANGED <<config, inbound>> \/ (current \in Connections /\ Ends(current))
    BY <1>1 DEF NewEngine
  <2> QED
    BY <1>0, <2>1, StreamKept, StreamEnds, Zenon DEF config, inbound
<1>2. ASSUME NEW t \in Threads,
             \/ SendLock(t) \/ SendFrame(t) \/ Acknowledge(t) \/ Announce(t) \/ Opened(t)
             \/ Dispatch(t) \/ Emit
      PROVE  StreamInv'
  <2>1. UNCHANGED <<parser, inbox, hand, kept, said, calls>>
    BY <1>2, Zenon DEF SendLock, SendFrame, Acknowledge, Announce, Opened, Dispatch, Emit,
                       config, inbound
  <2> QED
    BY <1>0, <2>1, StreamKept
<1>3. ASSUME NEW c \in Connections, Lost(c) PROVE StreamInv'
  BY <1>0, <1>3, StreamEnds DEF Lost
<1>4. ASSUME NEW c \in Connections, ServerSays(c) PROVE StreamInv'
  <2>1. PICK m \in Messages :
           LET fs == Encode(parser, MessagePacket(m))
           IN  /\ fs \in Seq(FramesOf(parser)) /\ inbox[c] \in Seq(FramesOf(parser))
               /\ said' = [said EXCEPT ![c] = Append(said[c], m)]
               /\ inbox' = [inbox EXCEPT ![c] = inbox[c] \o fs]
               /\ UNCHANGED <<parser, hand, kept, calls>>
    BY <1>0, <1>4, Said, Zenon
  <2>2. inbox[c] \o Encode(parser, MessagePacket(m)) \in Seq(FramesOf(parser))
    BY <2>1, ConcatProperties, Zenon
  <2>3. inbox' \in [Connections -> Seq(FramesOf(parser))]
    BY <1>0, <2>1, <2>2, Zenon DEF StreamInv
  <2>4. Append(said[c], m) \in Seq(Messages)
    BY <1>0, AppendProperties, Zenon DEF StreamInv
  <2>5. said' \in [Connections -> Seq(Messages)]
    BY <1>0, <2>1, <2>4 DEF StreamInv
  <2> QED
    BY <1>0, <2>1, <2>3, <2>5, Zenon DEF StreamInv
<1>5. ASSUME NEW c \in Connections, Receive(c) PROVE StreamInv'
  <2>1. PICK n \in 1 .. Len(inbox[c]) :
              /\ SubSeq(inbox[c], 1, n) \in Seq(FramesOf(parser))
              /\ SubSeq(inbox[c], n + 1, Len(inbox[c])) \in Seq(FramesOf(parser))
              /\ hand' = [hand EXCEPT ![c] = SubSeq(inbox[c], 1, n)]
              /\ inbox' = [inbox EXCEPT ![c] = SubSeq(inbox[c], n + 1, Len(inbox[c]))]
              /\ UNCHANGED <<parser, kept, said, calls>>
    BY <1>0, <1>5, Received, Zenon
  <2> DEFINE h == SubSeq(inbox[c], 1, n)
             i == SubSeq(inbox[c], n + 1, Len(inbox[c]))
  <2> HIDE DEF h, i
  <2>2. /\ inbox' \in [Connections -> Seq(FramesOf(parser))]
        /\ hand' \in [Connections -> Seq(FramesOf(parser))]
    BY <1>0, <2>1 DEF StreamInv, h, i
  <2> QED
    BY <1>0, <2>1, <2>2, Zenon DEF StreamInv
<1>6. ASSUME NEW c \in Connections, Check(c) PROVE StreamInv'
  <2>1. /\ hand'[c] \in {<<>>, hand[c]} \/ (hand[c] # <<>> /\ hand'[c] = Tail(hand[c]))
        /\ hand' = [hand EXCEPT ![c] = hand'[c]]
    BY <1>0, <1>6, Zenon DEF Check, StreamInv
  <2>2. hand[c] \in Seq(FramesOf(parser)) /\ <<>> \in Seq(FramesOf(parser))
    BY <1>0, EmptySeq, Zenon DEF StreamInv
  <2>3. hand[c] # <<>> => Tail(hand[c]) \in Seq(FramesOf(parser))
    BY <2>2, HeadTailProperties
  <2> DEFINE h == hand'[c]
  <2>4. h \in Seq(FramesOf(parser))
    BY <2>1, <2>2, <2>3, Zenon
  <2> HIDE DEF h
  <2>5. hand' \in [Connections -> Seq(FramesOf(parser))]
    BY <1>0, <2>1, <2>4 DEF StreamInv, h
  <2>6. (Forget(c) \/ UNCHANGED <<said, calls>>) /\ UNCHANGED <<parser, inbox, kept>>
    BY <1>6, Zenon DEF Check, config
  <2> QED
    BY <1>0, <2>5, <2>6, Forgotten, Zenon DEF StreamInv
<1>7. ASSUME NEW c \in Connections, DecodeFrame(c) PROVE StreamInv'
  <2> DEFINE r    == Decode(parser, kept, Head(hand[c]))
             call == IF r.packet = <<>> THEN <<>> ELSE Route(r.packet[1])
  <2>1. /\ hand[c] \in Seq(FramesOf(parser)) /\ hand[c] # <<>>
        /\ Keeps(r) \in Mixed(parser) /\ IsCall(call) /\ kept' = Keeps(r)
        /\ hand' = [hand EXCEPT ![c] = Tail(hand[c])]
        /\ calls' = IF r.packet = <<>> THEN calls
                                       ELSE [calls EXCEPT ![c] = Append(calls[c], call)]
        /\ UNCHANGED <<parser, inbox, said>>
    BY <1>0, <1>7, Decoding, Zenon
  <2>2. Tail(hand[c]) \in Seq(FramesOf(parser))
    BY <2>1, HeadTailProperties, Zenon
  <2>3. hand' \in [Connections -> Seq(FramesOf(parser))]
    BY <1>0, <2>1, <2>2, Zenon DEF StreamInv
  <2> HIDE DEF r, call
  <2>4. /\ DOMAIN calls' = Connections
        /\ calls'[c] \in {calls[c], Append(calls[c], call)}
        /\ \A d \in Connections : d # c => calls'[d] = calls[d]
    BY <1>0, <2>1, Zenon DEF StreamInv
  <2>5. /\ IsSequence(calls[c]) /\ Len(calls[c]) \in Nat
        /\ \A k \in 1 .. Len(calls[c]) : IsCall(calls[c][k])
    BY <1>0, Zenon DEF StreamInv, IsSequence
  <2>6. /\ IsSequence(Append(calls[c], call)) /\ Len(Append(calls[c], call)) = Len(calls[c]) + 1
        /\ \A k \in 1 .. Len(calls[c]) : Append(calls[c], call)[k] = calls[c][k]
        /\ Append(calls[c], call)[Len(calls[c]) + 1] = call
    BY <2>5, AppendIs, Zenon
  <2>7. \A k \in 1 .. Len(calls[c]) + 1 : k \in 1 .. Len(calls[c]) \/ k = Len(calls[c]) + 1
    BY <2>5
  <2>8. IsSequence(calls'[c]) /\ \A k \in 1 .. Len(calls'[c]) : IsCall(calls'[c][k])
    BY <2>1, <2>4, <2>5, <2>6, <2>7, Zenon
  <2> QED
    BY <1>0, <2>1, <2>3, <2>4, <2>8, Zenon DEF StreamInv
<1> QED
  BY <1>1, <1>2, <1>3, <1>4, <1>5, <1>6, <1>7, ThreadFacts, Zenon DEF Next
-----------------------------------------------------------------------------
(* Every step keeps what a connection and its thread have.                      *)

\* LinkInv of one connection.
LinkOf(c) ==
    /\ c > current => /\ link[c] = "none" /\ pc[c] = "idle"
                      /\ inbox[c] = <<>> /\ said[c] = <<>> /\ calls[c] = <<>>
    /\ link[c] = "lost" => inbox[c] = <<>>
    /\ pc[c] = "idle" => hand[c] = <<>>
    /\ pc[c] = "decode" => hand[c] # <<>>
    /\ pc[c] = "dispatch" => Len(calls[c]) > 0 /\ calls[c][Len(calls[c])] # <<>>

(* The invariant is about each connection.                                      *)
LEMMA LinkInvOf == LinkInv <=> \A c \in Connections : LinkOf(c)
  BY Zenon DEF LinkInv, LinkOf

(* A connection that a step does not concern.                                   *)
LEMMA LinkOfKept ==
    ASSUME NEW d \in Connections, LinkOf(d), UNCHANGED current,
           link'[d] = link[d], pc'[d] = pc[d], inbox'[d] = inbox[d], hand'[d] = hand[d],
           said'[d] = said[d], calls'[d] = calls[d]
    PROVE  LinkOf(d)'
  BY Zenon DEF LinkOf

\* A connection whose streams and histories stay, while its thread goes elsewhere.
Moves(d) ==
    /\ link'[d] = link[d] \/ (link[d] = "connecting" /\ link'[d] = "open")
    /\ \/ pc'[d] = pc[d]
       \/ /\ pc[d] # "idle" \/ link[d] = "connecting"
          /\ pc'[d] \notin {"idle", "decode", "dispatch"}

(* It has what it had.                                                          *)
LEMMA LinkOfMoves ==
    ASSUME NEW d \in Connections, LinkOf(d), UNCHANGED <<current, inbox, hand, said, calls>>,
           Moves(d)
    PROVE  LinkOf(d)'
  BY Zenon DEF LinkOf, Moves

(* A connection that ends.                                                      *)
LEMMA LinkOfEnds ==
    ASSUME NEW c \in Connections, StreamInv, LinkOf(c), Ends(c), link'[c] = "lost", ~(c > current')
    PROVE  LinkOf(c)'
<1>1. inbox'[c] = <<>> /\ hand'[c] = hand[c] /\ pc'[c] = pc[c]
  BY DEF Ends, StreamInv
<1>2. CASE pc[c] = "idle"
  BY <1>1, <1>2, Zenon DEF LinkOf
<1>3. CASE pc[c] # "idle"
  <2>1. UNCHANGED <<said, calls>>
    BY <1>3, Zenon DEF Ends
  <2> QED
    BY <1>1, <1>3, <2>1, Zenon DEF LinkOf
<1> QED
  BY <1>2, <1>3, Zenon

(* The other connections.                                                       *)
LEMMA EndsOthers ==
    ASSUME NEW c \in Connections, StreamInv, Ends(c), NEW d \in Connections, d # c
    PROVE  /\ inbox'[d] = inbox[d] /\ hand'[d] = hand[d] /\ pc'[d] = pc[d]
           /\ said'[d] = said[d] /\ calls'[d] = calls[d]
<1>1. inbox'[d] = inbox[d] /\ hand'[d] = hand[d] /\ pc'[d] = pc[d]
  BY DEF Ends, StreamInv
<1>2. said'[d] = said[d] /\ calls'[d] = calls[d]
  <2>1. CASE Forget(c)
    BY <2>1 DEF Forget, StreamInv
  <2>2. CASE UNCHANGED <<said, calls>>
    BY <2>2, Zenon
  <2> QED
    BY <2>1, <2>2, Zenon DEF Ends
<1> QED
  BY <1>1, <1>2, Zenon

(* Where a thread goes that sends, is told that its connection is open, or runs a *)
(* listener.                                                                    *)
LEMMA GoesSomewhere ==
    ASSUME TypeInv, NEW t \in Threads, NEW l, pc' = [pc EXCEPT ![t] = l], UNCHANGED link,
           t \in Connections => pc[t] # "idle" /\ l \notin {"idle", "decode", "dispatch"},
           NEW d \in Connections
    PROVE  Moves(d)
<1>1. pc'[t] = l /\ (d # t => pc'[d] = pc[d])
  BY ThreadFacts DEF TypeInv
<1> QED
  BY <1>1, Zenon DEF Moves

(* These steps leave all streams and histories as they are.                     *)
LEMMA SendersMove ==
    ASSUME ControlInv, NEW t \in Threads,
           SendLock(t) \/ SendFrame(t) \/ Acknowledge(t) \/ Announce(t) \/ Opened(t) \/ Dispatch(t) \/ Emit
    PROVE  UNCHANGED <<current, inbox, hand, said, calls>> /\ \A d \in Connections : Moves(d)
<1>1. UNCHANGED <<current, inbox, hand, said, calls>>
  BY Zenon DEF SendLock, SendFrame, Acknowledge, Announce, Opened, Dispatch, Emit, inbound
<1> SUFFICES ASSUME NEW d \in Connections PROVE Moves(d)
  BY <1>1
<1>0. TypeInv
  BY DEF ControlInv
<1>2. t \in Connections => After(t) \in {"lock", "check"}
  BY Zenon DEF After
<1>3. CASE SendLock(t)
  <2>1. pc' = [pc EXCEPT ![t] = "send"] /\ pc[t] = "lock" /\ UNCHANGED link
    BY <1>3, Zenon DEF SendLock, Goto
  <2> QED
    BY <1>0, <2>1, GoesSomewhere, Zenon
<1>4. CASE SendFrame(t)
  <2>1. PICK l \in {After(t), "send"} : pc' = [pc EXCEPT ![t] = l]
    BY <1>4, Zenon DEF SendFrame, Goto
  <2>2. pc[t] = "send" /\ UNCHANGED link
    BY <1>4, Zenon DEF SendFrame
  <2>3. t \in Connections => l \notin {"idle", "decode", "dispatch"}
    BY <1>2, <2>1
  <2> QED
    BY <1>0, <1>1, <2>1, <2>2, <2>3, GoesSomewhere, Zenon
<1>5. CASE Acknowledge(t)
  <2>1. PICK l \in {After(t), "lock", "check"} : pc' = [pc EXCEPT ![t] = l]
    BY <1>5, Zenon DEF Acknowledge, Sends, Goto
  <2>2. (t \in Connections => pc[t] = "listening") /\ UNCHANGED link
    BY <1>5, ThreadFacts, Zenon DEF Acknowledge
  <2>3. t \in Connections => l \notin {"idle", "decode", "dispatch"}
    BY <1>2, <2>1
  <2>4. t \in Connections => pc[t] # "idle"
    BY <2>2
  <2> QED
    BY <1>0, <1>1, <2>1, <2>2, <2>3, <2>4, GoesSomewhere, Zenon
<1>6. CASE Announce(t)
  <2>1. PICK l \in {"lock", "check"} : pc' = [pc EXCEPT ![t] = l]
    BY <1>6, Zenon DEF Announce, Sends, Goto
  <2>2. pc[t] = "opened" /\ UNCHANGED link
    BY <1>6, Zenon DEF Announce
  <2> QED
    BY <1>0, <1>1, <2>1, <2>2, GoesSomewhere, Zenon
<1>7. CASE Opened(t)
  <2>1. /\ pc'[t] = "opened" /\ link[t] = "connecting"
        /\ d # t => pc'[d] = pc[d]
        /\ link'[d] = IF d = t THEN "open" ELSE link[d]
    BY <1>0, <1>7, ThreadFacts, Zenon DEF Opened, Goto, TypeInv
  <2> QED
    BY <1>1, <2>1 DEF Moves
<1>8. CASE Dispatch(t)
  <2>1. PICK l \in {"listening", "check"} : pc' = [pc EXCEPT ![t] = l]
    BY <1>8, Zenon DEF Dispatch, Goto
  <2>2. pc[t] = "dispatch" /\ UNCHANGED link
    BY <1>8, Zenon DEF Dispatch
  <2> QED
    BY <1>0, <1>1, <2>1, <2>2, GoesSomewhere, Zenon
<1>9. CASE Emit
  <2>1. PICK l \in {"lock", "check"} : pc' = [pc EXCEPT ![Emitter] = l]
    BY <1>9, Zenon DEF Emit, Sends, Goto
  <2>2. UNCHANGED link /\ Emitter \in Threads /\ Emitter \notin Connections
    BY <1>9, ThreadFacts, Zenon DEF Emit
  <2> QED
    BY <1>0, <1>1, <2>1, <2>2, GoesSomewhere
<1> QED
  BY <1>3, <1>4, <1>5, <1>6, <1>7, <1>8, <1>9, Zenon

\* What can become of the calls of a connection: they are forgotten when it is over, and
\* before that only added to.
Ages(d) == \/ Retired(d)'
           \/ /\ ~Retired(d)
              /\ \/ calls'[d] = calls[d] /\ (pc'[d] = "dispatch" => pc[d] = "dispatch")
                 \/ Len(calls'[d]) = Len(calls[d]) + 1

(* Every step does both.                                                        *)
LEMMA LinkStep == ControlInv /\ Next => \A d \in Connections : LinkOf(d)' /\ Ages(d)
<1> SUFFICES ASSUME ControlInv, Next, NEW d \in Connections PROVE LinkOf(d)' /\ Ages(d)
  BY Zenon
<1>a. TypeInv /\ StreamInv /\ LinkInv /\ LinkOf(d)
  BY LinkInvOf, Zenon DEF ControlInv
<1>b. Connections \subseteq Threads /\ d \in Nat /\ current \in Nat
  BY <1>a, ThreadFacts, BoundAssumption DEF TypeInv
<1>0. /\ TypeInv /\ StreamInv /\ LinkInv /\ LinkOf(d)
      /\ Connections \subseteq Threads /\ d \in Nat /\ current \in Nat
  BY <1>a, <1>b
<1>1. CASE NewEngine
  <2> DEFINE old == {c \in {current} \cap Connections : link[c] # "lost" /\ ~InUse(c)}
  <2>1. /\ current' = current + 1
        /\ link'[d] = IF d = current + 1 THEN "connecting"
                      ELSE IF d \in old THEN "lost" ELSE link[d]
        /\ IF old = {} THEN UNCHANGED <<inbox, hand, said, calls, pc>> ELSE Ends(current)
        /\ d \in old => d = current
        /\ old # {} => current \in Connections /\ current \in old
    BY <1>1, Zenon DEF NewEngine, inbound
  <2>2. /\ pc' = pc /\ (d > current' => d > current) /\ (d = current + 1 => d > current /\ ~(d > current'))
        /\ (d = current => d # current + 1 /\ ~(d > current'))
    <3>1. pc' = pc
      BY <2>1, Zenon DEF Ends
    <3> QED
      BY <1>0, <2>1, <3>1
  <2> HIDE DEF old
  <2>3. CASE old # {} /\ d = current
    <3>1. link'[d] = "lost" /\ Ends(d) /\ ~(d > current')
      BY <2>1, <2>2, <2>3, Zenon
    <3>2. LinkOf(d)'
      BY <1>0, <3>1, LinkOfEnds
    <3>3. pc[d] # "idle" => calls' = calls
      BY <3>1, Zenon DEF Ends
    <3>4. pc[d] # "idle" => ~Retired(d)
      BY Zenon DEF Retired
    <3>5. pc[d] = "idle" => Retired(d)'
      BY <2>2, <3>1, Zenon DEF Retired
    <3> QED
      BY <2>2, <3>2, <3>3, <3>4, <3>5, Zenon DEF Ages
  <2>4. CASE old = {} \/ d # current
    <3>1. inbox'[d] = inbox[d] /\ hand'[d] = hand[d] /\ said'[d] = said[d] /\ calls'[d] = calls[d]
      BY <1>0, <2>1, <2>4, EndsOthers, Zenon
    <3>2. link'[d] = IF d = current + 1 THEN "connecting" ELSE link[d]
      BY <2>1, <2>4, Zenon
    <3>3. d = current + 1 => link[d] = "none" /\ pc[d] = "idle" /\ hand[d] = <<>> /\ inbox[d] = <<>>
      BY <1>0, <2>2, Zenon DEF LinkOf
    <3>4. CASE d = current + 1
      <4>1. LinkOf(d)'
        BY <2>2, <3>1, <3>2, <3>3, <3>4, SMTT(20) DEF LinkOf
      <4>2. Ages(d)
        BY <2>2, <3>1, <3>3, <3>4, SMTT(20) DEF Ages, Retired
      <4> QED
        BY <4>1, <4>2, Zenon
    <3>5. CASE d # current + 1
      BY <1>0, <2>2, <3>1, <3>2, <3>5, Zenon DEF LinkOf, Ages, Retired
    <3> QED
      BY <3>4, <3>5, Zenon
  <2> QED
    BY <2>3, <2>4, Zenon
<1>2. ASSUME NEW t \in Threads,
             \/ SendLock(t) \/ SendFrame(t) \/ Acknowledge(t) \/ Announce(t) \/ Opened(t)
             \/ Dispatch(t) \/ Emit
      PROVE  LinkOf(d)' /\ Ages(d)
  <2>1. UNCHANGED <<current, inbox, hand, said, calls>> /\ Moves(d)
    BY <1>2, SendersMove, Zenon
  <2>2. LinkOf(d)'
    BY <1>0, <2>1, LinkOfMoves, SMTT(20)
  <2>3. Ages(d)
    <3>1. CASE link[d] = "lost" /\ pc[d] = "idle"
      BY <2>1, <3>1 DEF Moves, Ages, Retired
    <3>2. CASE ~(link[d] = "lost" /\ pc[d] = "idle")
      BY <2>1, <3>2, Zenon DEF Moves, Ages, Retired
    <3> QED
      BY <3>1, <3>2, Zenon
  <2> QED
    BY <2>2, <2>3
<1>3. ASSUME NEW c \in Connections, Lost(c) PROVE LinkOf(d)' /\ Ages(d)
  <2>1. /\ Ends(c) /\ UNCHANGED <<current, pc>> /\ link[c] \in {"connecting", "open"}
        /\ link'[c] = "lost" /\ (d # c => link'[d] = link[d])
    BY <1>0, <1>3 DEF Lost, Ends, TypeInv
  <2>2. CASE d = c
    <3>1. link[d] # "none" /\ link[d] # "lost"
      BY <2>1, <2>2
    <3>2. ~(d > current')
      BY <1>0, <2>1, <3>1, Zenon DEF LinkOf
    <3>3. LinkOf(d)'
      BY <1>0, <2>1, <2>2, <3>2, LinkOfEnds, SMTT(20)
    <3>4. pc[d] # "idle" => calls' = calls
      BY <2>1, <2>2, Zenon DEF Ends
    <3> QED
      BY <2>1, <2>2, <3>1, <3>3, <3>4, Zenon DEF Ages, Retired
  <2>3. CASE d # c
    <3>1. /\ inbox'[d] = inbox[d] /\ hand'[d] = hand[d] /\ pc'[d] = pc[d]
          /\ said'[d] = said[d] /\ calls'[d] = calls[d]
      BY <1>0, <2>1, <2>3, EndsOthers, Zenon
    <3>2. LinkOf(d)'
      BY <1>0, <2>1, <2>3, <3>1, LinkOfKept, Zenon
    <3> QED
      BY <2>1, <2>3, <3>1, <3>2, Zenon DEF Ages, Retired
  <2> QED
    BY <2>2, <2>3, Zenon
<1>4. ASSUME NEW c \in Connections, ServerSays(c) PROVE LinkOf(d)' /\ Ages(d)
  <2>1. /\ current = c /\ link[c] = "open" /\ UNCHANGED <<current, link, hand, calls, pc>>
        /\ d # c => said'[d] = said[d] /\ inbox'[d] = inbox[d]
    BY <1>0, <1>4, Zenon DEF ServerSays, StreamInv
  <2>2. Ages(d)
    BY <2>1, Zenon DEF Ages, Retired
  <2>3. ~(c > current)
    BY <2>1 DEF Connections
  <2>4. LinkOf(d)'
    <3>1. CASE d = c
      <4>1. link[d] # "lost"
        BY <2>1, <3>1, Zenon
      <4> QED
        BY <1>0, <2>1, <2>3, <3>1, <4>1, Zenon DEF LinkOf
    <3>2. CASE d # c
      BY <1>0, <2>1, <3>2, Zenon DEF LinkOf
    <3> QED
      BY <3>1, <3>2, Zenon
  <2> QED
    BY <2>2, <2>4
<1>5. ASSUME NEW c \in Connections, Receive(c) PROVE LinkOf(d)' /\ Ages(d)
  <2>1. PICK n \in 1 .. Len(inbox[c]) :
              /\ current = c /\ pc[c] = "idle" /\ hand[c] = <<>> /\ Goto(c, "decode")
              /\ SubSeq(inbox[c], 1, n) \in Seq(FramesOf(parser)) /\ Len(SubSeq(inbox[c], 1, n)) = n
              /\ hand' = [hand EXCEPT ![c] = SubSeq(inbox[c], 1, n)]
              /\ inbox' = [inbox EXCEPT ![c] = SubSeq(inbox[c], n + 1, Len(inbox[c]))]
              /\ UNCHANGED <<current, link, said, calls>>
    BY <1>0, <1>5, Received, Zenon
  <2> DEFINE h == SubSeq(inbox[c], 1, n)
             i == SubSeq(inbox[c], n + 1, Len(inbox[c]))
  <2> HIDE DEF h, i
  <2>2. pc'[c] = "decode" /\ \A u \in Threads : u # c => pc'[u] = pc[u]
    BY <1>0, <2>1, GotoConnection
  <2>3. inbox[c] # <<>>
    BY <1>5, Zenon DEF Receive
  <2>4. CASE d = c
    <3>1. hand'[d] = h /\ inbox'[d] = i
      BY <1>0, <2>1, <2>4 DEF StreamInv, h, i
    <3>2. h # <<>>
      BY <2>1, EmptySeq DEF h
    <3>3. link[d] # "lost" /\ ~(d > current')
      BY <1>0, <2>1, <2>3, <2>4, Zenon DEF LinkOf
    <3>4. pc'[d] # "idle" /\ pc'[d] # "dispatch"
      BY <2>2, <2>4
    <3> QED
      BY <2>1, <2>4, <3>1, <3>2, <3>3, <3>4, Zenon DEF LinkOf, Ages, Retired
  <2>5. CASE d # c
    <3>1. hand'[d] = hand[d] /\ inbox'[d] = inbox[d]
      BY <1>0, <2>1, <2>5 DEF StreamInv
    <3>2. pc'[d] = pc[d]
      BY <1>0, <2>2, <2>5, Zenon
    <3>3. LinkOf(d)'
      BY <1>0, <2>1, <3>1, <3>2, LinkOfKept, SMTT(20)
    <3> QED
      BY <2>1, <3>2, <3>3, Zenon DEF Ages, Retired
  <2> QED
    BY <2>4, <2>5, Zenon
<1>6. ASSUME NEW c \in Connections, Check(c) PROVE LinkOf(d)' /\ Ages(d)
  <2> DEFINE stop == hand[c] = <<>> \/ (channel = "polling" /\ link[c] = "lost")
             l    == IF stop THEN "idle" ELSE IF current = c THEN "decode" ELSE "check"
  <2>1. /\ pc[c] = "check" /\ Goto(c, l) /\ UNCHANGED <<current, link, inbox>>
        /\ hand'[c] = IF stop THEN <<>> ELSE IF current = c THEN hand[c] ELSE Tail(hand[c])
        /\ d # c => hand'[d] = hand[d]
    BY <1>0, <1>6 DEF Check, StreamInv
  <2>2. IF stop /\ link[c] = "lost" THEN Forget(c) ELSE UNCHANGED <<said, calls>>
    BY <1>6, Zenon DEF Check
  <2>3. ~stop => hand[c] # <<>>
    BY Zenon
  <2>4. /\ l \in {"idle", "decode", "check"} /\ l # "dispatch" /\ (stop <=> l = "idle")
        /\ l = "decode" => ~stop /\ current = c
    BY Zenon
  <2> HIDE DEF stop, l
  <2>5. pc'[c] = l /\ \A u \in Threads : u # c => pc'[u] = pc[u]
    BY <1>0, <2>1, GotoConnection
  <2>6. CASE d = c
    <3>1. pc[d] # "idle"
      BY <2>1, <2>6, Zenon
    <3>2. ~(d > current)
      BY <1>0, <3>1, Zenon DEF LinkOf
    <3>3. LinkOf(d)'
      BY <1>0, <2>1, <2>3, <2>4, <2>5, <2>6, <3>2, Zenon DEF LinkOf
    <3>4. (stop /\ link[c] = "lost") \/ calls' = calls
      BY <2>2, Zenon
    <3> QED
      BY <2>1, <2>4, <2>5, <2>6, <3>1, <3>3, <3>4, Zenon DEF Ages, Retired
  <2>7. CASE d # c
    <3>1. said'[d] = said[d] /\ calls'[d] = calls[d]
      <4>1. CASE Forget(c)
        BY <1>0, <2>7, <4>1 DEF Forget, StreamInv
      <4>2. CASE UNCHANGED <<said, calls>>
        BY <4>2, Zenon
      <4> QED
        BY <2>2, <4>1, <4>2, Zenon
    <3>2. pc'[d] = pc[d]
      BY <1>0, <2>5, <2>7, Zenon
    <3>3. LinkOf(d)'
      BY <1>0, <2>1, <2>7, <3>1, <3>2, LinkOfKept, SMTT(20)
    <3> QED
      BY <2>1, <3>1, <3>2, <3>3, Zenon DEF Ages, Retired
  <2> QED
    BY <2>6, <2>7, Zenon
<1>7. ASSUME NEW c \in Connections, DecodeFrame(c) PROVE LinkOf(d)' /\ Ages(d)
  <2> DEFINE r    == Decode(parser, kept, Head(hand[c]))
             call == IF r.packet = <<>> THEN <<>> ELSE Route(r.packet[1])
  <2>1. /\ pc[c] = "decode"
        /\ hand' = [hand EXCEPT ![c] = Tail(hand[c])]
        /\ calls' = IF r.packet = <<>> THEN calls
                                       ELSE [calls EXCEPT ![c] = Append(calls[c], call)]
        /\ \/ Goto(c, "check")
           \/ call # <<>> /\ Goto(c, "dispatch")
        /\ UNCHANGED <<current, link, inbox, said>>
    BY <1>0, <1>7, Decoding, Zenon
  <2>2. call # <<>> => r.packet # <<>>
    BY Zenon
  <2> HIDE DEF r, call
  <2>3. /\ DOMAIN calls = Connections /\ IsSequence(calls[c]) /\ Len(calls[c]) \in Nat
        /\ Len(Append(calls[c], call)) = Len(calls[c]) + 1
        /\ Append(calls[c], call)[Len(calls[c]) + 1] = call
    <3>1. DOMAIN calls = Connections /\ IsSequence(calls[c])
      BY <1>0, Zenon DEF StreamInv
    <3> QED
      BY <3>1, AppendIs, Zenon DEF IsSequence
  <2> DEFINE a == Append(calls[c], call)
  <2> HIDE DEF a
  <2>4. /\ r.packet # <<>> => calls'[c] = a
        /\ d # c => hand'[d] = hand[d] /\ calls'[d] = calls[d]
    BY <1>0, <2>1, <2>3, Zenon DEF StreamInv, a
  <2>5. PICK l \in {"check", "dispatch"} : Goto(c, l) /\ (l = "dispatch" => call # <<>>)
    BY <2>1, Zenon
  <2>6. pc'[c] = l /\ \A u \in Threads : u # c => pc'[u] = pc[u]
    BY <1>0, <2>5, GotoConnection
  <2>7. CASE d = c
    <3>1. pc[d] # "idle"
      BY <2>1, <2>7
    <3>2. ~(d > current)
      BY <1>0, <3>1, Zenon DEF LinkOf
    <3>3. pc'[d] \notin {"idle", "decode"}
      BY <2>5, <2>6, <2>7, Zenon
    <3>4. pc'[d] = "dispatch" => Len(a) > 0 /\ a[Len(a)] # <<>> /\ calls'[d] = a
      BY <2>2, <2>3, <2>4, <2>5, <2>6, <2>7, SMTT(20) DEF a
    <3>5. LinkOf(d)'
      BY <1>0, <2>1, <3>2, <3>3, <3>4, Zenon DEF LinkOf
    <3>6. calls'[d] = calls[d] \/ Len(calls'[d]) = Len(calls[d]) + 1
      BY <2>1, <2>3, <2>4, <2>7 DEF a
    <3>7. Ages(d)
      <4>1. ~Retired(d) /\ pc'[d] \in {"check", "dispatch"}
        BY <2>6, <2>7, <3>1, Zenon DEF Retired
      <4>2. pc'[d] = "dispatch" => Len(calls'[d]) = Len(calls[d]) + 1
        BY <2>3, <2>7, <3>4 DEF a
      <4> QED
        BY <3>6, <4>1, <4>2, Zenon DEF Ages
    <3> QED
      BY <3>5, <3>7, Zenon
  <2>8. CASE d # c
    <3>1. pc'[d] = pc[d]
      BY <1>0, <2>6, <2>8, SMTT(20)
    <3>2. LinkOf(d)'
      BY <1>0, <2>1, <2>4, <2>8, <3>1, LinkOfKept, SMTT(20)
    <3> QED
      BY <2>1, <2>4, <2>8, <3>1, <3>2, Zenon DEF Ages, Retired
  <2> QED
    BY <2>7, <2>8, Zenon
<1> QED
  BY <1>1, <1>2, <1>3, <1>4, <1>5, <1>6, <1>7, ThreadFacts, Zenon DEF Next
-----------------------------------------------------------------------------
(* Reply callbacks.                                                             *)

\* An event whose listeners are called or have been.
Past(e) == \/ Retired(e[1])
           \/ e[2] <= Len(calls[e[1]]) /\ (pc[e[1]] = "dispatch" => e[2] < Len(calls[e[1]]))

(* What is past stays past.                                                     *)
LEMMA PastAges ==
    ASSUME StreamInv, StreamInv', NEW e \in Connections \X Nat, Past(e), Ages(e[1])
    PROVE  Past(e)'
<1> DEFINE c == e[1]
           n == Len(calls[c])
           m == Len(calls'[c])
<1>1. e[1] \in Connections /\ e[2] \in Nat
  BY Zenon
<1>2. n \in Nat /\ m \in Nat
  BY <1>1, Zenon DEF StreamInv, IsSequence
<1>3. CASE Retired(c)'
  BY <1>3 DEF Past
<1>4. CASE ~Retired(c)'
  <2>1. /\ e[2] <= n /\ (pc[c] = "dispatch" => e[2] < n)
        /\ (m = n /\ (pc'[c] = "dispatch" => pc[c] = "dispatch")) \/ m = n + 1
    BY <1>4, Zenon DEF Past, Ages
  <2>2. e[2] <= m /\ (pc'[c] = "dispatch" => e[2] < m)
    BY <1>1, <1>2, <2>1
  <2> QED
    BY <2>2, Zenon DEF Past
<1> QED
  BY <1>3, <1>4, Zenon

(* The invariant with it.                                                       *)
LEMMA ClosureInvOf ==
    ClosureInv <=> /\ closures \in Seq(ClosureSet)
                   /\ \A i, j \in 1 .. Len(closures) : i # j => closures[i].event # closures[j].event
                   /\ \A i \in 1 .. Len(closures) : Past(closures[i].event)
  BY Zenon DEF ClosureInv, Past

(* The callbacks stay, used or not.                                             *)
LEMMA ClosuresStay ==
    ASSUME StreamInv, StreamInv', ClosureInv, \A d \in Connections : Ages(d),
           closures' \in Seq(ClosureSet), Len(closures') = Len(closures),
           \A i \in 1 .. Len(closures) : closures'[i].event = closures[i].event
    PROVE  ClosureInv'
<1>1. /\ closures \in Seq(ClosureSet) /\ \A i \in 1 .. Len(closures) : Past(closures[i].event)
      /\ \A i, j \in 1 .. Len(closures) : i # j => closures[i].event # closures[j].event
  BY ClosureInvOf, Zenon
<1>3. ASSUME NEW i \in 1 .. Len(closures) PROVE Past(closures[i].event)'
  <2>1. closures[i] \in ClosureSet
    BY <1>1, ElementOfSeq
  <2>2. PICK e \in Connections \X Nat : e = closures[i].event
    BY <2>1, ClosurePacket, Zenon
  <2>3. Past(e) /\ closures'[i].event = e
    BY <1>1, <2>2, Zenon
  <2>4. Ages(e[1])
    BY <2>2, Zenon
  <2>5. Past(e)'
    BY <2>2, <2>3, <2>4, PastAges
  <2> QED
    BY <2>3, <2>5, Zenon DEF Past
<1>4. \A i, j \in 1 .. Len(closures) : i # j => closures'[i].event # closures'[j].event
  BY <1>1, Zenon
<1>5. /\ closures' \in Seq(ClosureSet)
      /\ \A i, j \in 1 .. Len(closures') : i # j => closures'[i].event # closures'[j].event
      /\ \A i \in 1 .. Len(closures') : Past(closures[i].event)'
  BY <1>3, <1>4, Zenon
<1> QED
  BY <1>5, Zenon DEF ClosureInv, Past

(* The callback of an event that is dispatched is a new one.                    *)
LEMMA NewClosure ==
    ASSUME TypeInv, StreamInv, LinkInv, ClosureInv, NEW c \in Connections, pc[c] = "dispatch",
           Calling(c).id >= 0
    PROVE  /\ Closure(c) \in ClosureSet /\ Closure(c).event = <<c, Len(calls[c])>>
           /\ \A i \in 1 .. Len(closures) : closures[i].event # Closure(c).event
<1> DEFINE n == Len(calls[c])
           s == calls[c][n]
<1>1. n \in Nat /\ n > 0 /\ s # <<>> /\ IsCall(s)
  BY DEF StreamInv, LinkInv, IsSequence
<1>2. PICK m \in Messages : s[1].nsp \in Sockets /\ s[1].nsp = m.nsp /\ s[1].id \in {m.id, -1}
  BY <1>1, Zenon DEF IsCall
<1>3. Calling(c) = s[1]
  BY DEF Calling
<1> HIDE DEF s
<1>a. m.id \in Int /\ s[1].id >= 0
  BY <1>3, MessageAssumption, Zenon
<1>4. s[1].id = m.id /\ m.id \in Int
  BY <1>2, <1>a
<1>5. Closure(c) = [event |-> <<c, n>>, id |-> s[1].id, nsp |-> s[1].nsp, sent |-> FALSE]
  BY <1>3, Zenon DEF Closure
<1> HIDE DEF n
<1>6. Closure(c) \in ClosureSet /\ Closure(c).event = <<c, n>>
  BY <1>1, <1>2, <1>4, <1>5, SMTT(20) DEF ClosureSet
<1>7. ASSUME NEW i \in 1 .. Len(closures), closures[i].event = <<c, n>> PROVE FALSE
  <2>1. Past(closures[i].event)
    BY ClosureInvOf, Zenon
  <2>2. closures[i].event[1] = c /\ closures[i].event[2] = n
    BY <1>7
  <2>3. ~Retired(c)
    BY DEF Retired
  <2>4. n < Len(calls[c])
    BY <2>1, <2>2, <2>3, Zenon DEF Past
  <2> QED
    BY <1>1, <2>4 DEF n
<1> QED
  BY <1>6, <1>7, Zenon DEF n

(* A call of a callback: the first marks it and is a reply.                     *)
LEMMA Replied ==
    ASSUME ClosureInv, NEW t \in Threads, Acknowledge(t)
    PROVE  \/ UNCHANGED <<closures, replies>>
           \/ \E i \in 1 .. Len(closures) :
                 /\ ~closures[i].sent /\ closures[i].event \in Connections \X Nat
                 /\ closures' \in Seq(ClosureSet) /\ Len(closures') = Len(closures)
                 /\ closures'[i].sent /\ closures'[i].event = closures[i].event
                 /\ \A j \in 1 .. Len(closures) : j # i => closures'[j] = closures[j]
                 /\ replies' = Append(replies, closures[i].event)
<1> SUFFICES ASSUME ~UNCHANGED <<closures, replies>>
             PROVE  \E i \in 1 .. Len(closures) :
                       /\ ~closures[i].sent /\ closures[i].event \in Connections \X Nat
                       /\ closures' \in Seq(ClosureSet) /\ Len(closures') = Len(closures)
                       /\ closures'[i].sent /\ closures'[i].event = closures[i].event
                       /\ \A j \in 1 .. Len(closures) : j # i => closures'[j] = closures[j]
                       /\ replies' = Append(replies, closures[i].event)
  BY Zenon
<1>1. closures \in Seq(ClosureSet) /\ DOMAIN closures = 1 .. Len(closures)
  BY LenProperties DEF ClosureInv
<1>2. PICK i \in 1 .. Len(closures) :
          /\ ~closures[i].sent
          /\ closures' = [closures EXCEPT ![i].sent = TRUE]
          /\ replies' = Append(replies, closures[i].event)
  BY <1>1, Zenon DEF Acknowledge
<1>3. closures[i] \in ClosureSet
  BY <1>1, ElementOfSeq
<1> DEFINE k == [closures[i] EXCEPT !.sent = TRUE]
<1>4. /\ closures[i].event \in Connections \X Nat
      /\ k \in ClosureSet /\ k.event = closures[i].event /\ k.sent
  BY <1>3, ClosurePacket, Zenon
<1>5. closures' = [closures EXCEPT ![i] = k]
  BY <1>2, Zenon
<1> HIDE DEF k
<1>6. closures' \in Seq(ClosureSet) /\ Len(closures') = Len(closures)
  BY <1>1, <1>4, <1>5, ExceptSeq
<1>7. closures'[i] = k /\ \A j \in 1 .. Len(closures) : j # i => closures'[j] = closures[j]
  BY <1>1, <1>5, Zenon
<1> QED
  BY <1>2, <1>4, <1>6, <1>7, Zenon

(* An event handed to the listeners gets at most one callback.                  *)
LEMMA Dispatched ==
    ASSUME TypeInv, NEW c \in Connections, Dispatch(c)
    PROVE  /\ pc[c] = "dispatch" /\ pc'[c] # "dispatch"
           /\ UNCHANGED <<link, calls, replies>>
           /\ UNCHANGED closures \/ (Calling(c).id >= 0 /\ closures' = Append(closures, Closure(c)))
<1>1. PICK l \in {"listening", "check"} : Goto(c, l)
  BY Zenon DEF Dispatch
<1>2. pc'[c] = l
  BY <1>1, GotoConnection
<1>3. /\ pc[c] = "dispatch" /\ UNCHANGED <<link, calls, replies>>
      /\ UNCHANGED closures \/ (Calling(c).id >= 0 /\ closures' = Append(closures, Closure(c)))
  BY Zenon DEF Dispatch, inbound
<1> QED
  BY <1>1, <1>2, <1>3

(* The callbacks, after every step.                                             *)
LEMMA ClosureStep == ControlInv /\ Next => ClosureInv'
<1> SUFFICES ASSUME ControlInv, Next PROVE ClosureInv'
  OBVIOUS
<1>1. TypeInv /\ StreamInv /\ LinkInv /\ ClosureInv /\ StreamInv' /\ \A d \in Connections : Ages(d)
  BY StreamStep, LinkStep, Zenon DEF ControlInv
<1>2. closures \in Seq(ClosureSet)
  BY <1>1 DEF ClosureInv
<1>3. CASE UNCHANGED closures
  BY <1>1, <1>2, <1>3, ClosuresStay, Zenon
<1>4. ASSUME NEW t \in Threads, Acknowledge(t) PROVE ClosureInv'
  <2>1. CASE UNCHANGED <<closures, replies>>
    BY <1>3, <2>1, Zenon
  <2>2. CASE ~UNCHANGED <<closures, replies>>
    <3>1. PICK i \in 1 .. Len(closures) :
                 /\ closures' \in Seq(ClosureSet) /\ Len(closures') = Len(closures)
                 /\ closures'[i].event = closures[i].event
                 /\ \A j \in 1 .. Len(closures) : j # i => closures'[j] = closures[j]
      BY <1>1, <1>4, <2>2, Replied, Zenon
    <3>2. \A j \in 1 .. Len(closures) : closures'[j].event = closures[j].event
      BY <3>1, Zenon
    <3> QED
      BY <1>1, <3>1, <3>2, ClosuresStay, Zenon
  <2> QED
    BY <2>1, <2>2, Zenon
<1>5. ASSUME NEW c \in Connections, Dispatch(c), ~UNCHANGED closures PROVE ClosureInv'
  <2>1. /\ pc[c] = "dispatch" /\ pc'[c] # "dispatch" /\ UNCHANGED <<link, calls>>
        /\ Calling(c).id >= 0 /\ closures' = Append(closures, Closure(c))
    BY <1>1, <1>5, Dispatched, Zenon
  <2>2. PICK k \in ClosureSet, n \in Nat : k = Closure(c) /\ n = Len(calls[c]) /\ k.event = <<c, n>>
    <3>1. Len(calls[c]) \in Nat
      BY <1>1, Zenon DEF StreamInv, IsSequence
    <3> QED
      BY <1>1, <2>1, <3>1, NewClosure, Zenon
  <2>3. \A i \in 1 .. Len(closures) : closures[i].event # k.event
    BY <1>1, <2>1, <2>2, NewClosure, Zenon
  <2>4. /\ closures' \in Seq(ClosureSet) /\ Len(closures') = Len(closures) + 1
        /\ \A i \in 1 .. Len(closures) : closures'[i] = closures[i]
        /\ closures'[Len(closures) + 1] = k
    BY <1>2, <2>1, <2>2, AppendProperties, SMTT(20)
  <2>5. \A i \in 1 .. Len(closures') : i \in 1 .. Len(closures) \/ i = Len(closures) + 1
    <3>1. Len(closures) \in Nat
      BY <1>2, LenProperties
    <3>2. Len(closures') = Len(closures) + 1
      BY <2>4, Zenon
    <3> QED
      BY <3>1, <3>2, SMTT(20)
  <2>6. /\ \A i \in 1 .. Len(closures) : Past(closures[i].event)
        /\ \A i, j \in 1 .. Len(closures) : i # j => closures[i].event # closures[j].event
    BY <1>1, ClosureInvOf, Zenon
  <2>7. \A i, j \in 1 .. Len(closures') : i # j => closures'[i].event # closures'[j].event
    BY <2>3, <2>4, <2>5, <2>6, Zenon
  <2>8. ASSUME NEW i \in 1 .. Len(closures') PROVE Past(closures[i].event)'
    <3>1. CASE i \in 1 .. Len(closures)
      <4>1. closures[i] \in ClosureSet
        BY <1>2, <3>1, ElementOfSeq
      <4>2. PICK e \in Connections \X Nat : e = closures[i].event
        BY <4>1, ClosurePacket, Zenon
      <4>3. Past(e) /\ closures'[i].event = e
        BY <2>4, <2>6, <3>1, <4>2, Zenon
      <4>4. Ages(e[1])
        BY <1>1, <4>2, Zenon
      <4>5. Past(e)'
        BY <1>1, <4>2, <4>3, <4>4, PastAges, SMTT(20)
      <4> QED
        BY <4>3, <4>5, Zenon DEF Past
    <3>2. CASE i = Len(closures) + 1
      <4>1. closures'[i].event[1] = c /\ closures'[i].event[2] = n /\ n = Len(calls'[c]) /\ n <= n
        BY <2>1, <2>2, <2>4, <3>2, SMTT(20)
      <4> QED
        BY <2>1, <4>1, Zenon DEF Past
    <3> QED
      BY <2>5, <3>1, <3>2, Zenon
  <2> QED
    BY <2>4, <2>7, <2>8, Zenon DEF ClosureInv, Past
<1>6. \/ UNCHANGED closures
      \/ \E t \in Threads : Acknowledge(t)
      \/ \E c \in Connections : Dispatch(c)
  BY Zenon DEF Next, NewEngine, Ends, Emit, Opened, Announce, Lost, ServerSays, Receive, Check,
               DecodeFrame, SendLock, SendFrame, app
<1> QED
  BY <1>3, <1>4, <1>5, <1>6, Zenon

(* A reply is of a callback that was not used before, hence of no earlier event. *)
LEMMA ReplyStep == ControlInv /\ ReplyInv /\ AckOnce /\ Next => ReplyInv' /\ AckOnce'
<1> SUFFICES ASSUME ControlInv, ReplyInv, AckOnce, Next PROVE ReplyInv' /\ AckOnce'
  BY Zenon
<1>1. TypeInv /\ ClosureInv /\ closures \in Seq(ClosureSet)
  BY Zenon DEF ControlInv, ClosureInv
<1>2. /\ replies \in Seq(Connections \X Nat) /\ DOMAIN replies = 1 .. Len(replies)
      /\ \A r \in 1 .. Len(replies) :
            \E i \in 1 .. Len(closures) : closures[i].sent /\ closures[i].event = replies[r]
  BY LenProperties DEF ReplyInv
<1>3. CASE UNCHANGED <<closures, replies>>
  BY <1>3, Zenon DEF ReplyInv, AckOnce
<1>4. ASSUME NEW t \in Threads, Acknowledge(t), ~UNCHANGED <<closures, replies>>
      PROVE  ReplyInv' /\ AckOnce'
  <2>1. PICK i \in 1 .. Len(closures) :
                 /\ ~closures[i].sent /\ closures[i].event \in Connections \X Nat
                 /\ Len(closures') = Len(closures)
                 /\ closures'[i].sent /\ closures'[i].event = closures[i].event
                 /\ \A j \in 1 .. Len(closures) : j # i => closures'[j] = closures[j]
                 /\ replies' = Append(replies, closures[i].event)
    BY <1>1, <1>4, Replied, Zenon
  <2> DEFINE e == closures[i].event
  <2> HIDE DEF e
  <2>2. /\ replies' \in Seq(Connections \X Nat) /\ Len(replies') = Len(replies) + 1
        /\ \A r \in 1 .. Len(replies) : replies'[r] = replies[r]
        /\ replies'[Len(replies) + 1] = e
    <3>1. replies' = Append(replies, e) /\ e \in Connections \X Nat
      BY <2>1, Zenon DEF e
    <3> QED
      BY <1>2, <3>1, AppendProperties
  <2>3. /\ \A r \in 1 .. Len(replies') : r \in 1 .. Len(replies) \/ r = Len(replies) + 1
        /\ DOMAIN replies' = 1 .. Len(replies')
    BY <1>2, <2>2, LenProperties
  <2>4. ASSUME NEW r \in 1 .. Len(replies) PROVE replies[r] # e
    <3>1. PICK j \in 1 .. Len(closures) : closures[j].sent /\ closures[j].event = replies[r]
      BY <1>2, Zenon
    <3>2. j # i
      BY <2>1, <3>1, Zenon
    <3> QED
      BY <1>1, <3>1, <3>2, Zenon DEF ClosureInv, e
  <2>5. AckOnce'
    <3>0. \A r, q \in 1 .. Len(replies) : r # q => replies[r] # replies[q]
      BY <1>2, Zenon DEF AckOnce
    <3>1. ASSUME NEW r \in 1 .. Len(replies'), NEW q \in 1 .. Len(replies'), r # q
          PROVE  replies'[r] # replies'[q]
      BY <2>2, <2>3, <2>4, <3>0, <3>1, Zenon
    <3> QED
      BY <2>3, <3>1, Zenon DEF AckOnce
  <2>6. ASSUME NEW r \in 1 .. Len(replies)
        PROVE  \E j \in 1 .. Len(closures) : closures'[j].sent /\ closures'[j].event = replies[r]
    <3>1. PICK j \in 1 .. Len(closures) : closures[j].sent /\ closures[j].event = replies[r]
      BY <1>2, Zenon
    <3>2. j # i
      BY <2>1, <3>1, Zenon
    <3>3. closures'[j] = closures[j]
      BY <2>1, <3>2, Zenon
    <3> QED
      BY <3>1, <3>3, Zenon
  <2>7. \A r \in 1 .. Len(replies') :
            \E j \in 1 .. Len(closures') : closures'[j].sent /\ closures'[j].event = replies'[r]
    <3>1. i \in 1 .. Len(closures') /\ closures'[i].sent /\ closures'[i].event = e
      BY <2>1, Zenon DEF e
    <3>2. Len(closures') = Len(closures)
      BY <2>1, Zenon
    <3> QED
      BY <2>2, <2>3, <2>6, <3>1, <3>2, Zenon
  <2> QED
    BY <2>2, <2>5, <2>7, Zenon DEF ReplyInv
<1>5. ASSUME NEW c \in Connections, Dispatch(c), ~UNCHANGED <<closures, replies>>
      PROVE  ReplyInv' /\ AckOnce'
  <2>1. /\ UNCHANGED replies /\ closures' = Append(closures, Closure(c))
        /\ pc[c] = "dispatch" /\ Calling(c).id >= 0
    BY <1>1, <1>5, Dispatched, Zenon
  <2>2. PICK k \in ClosureSet : k = Closure(c)
    BY <1>1, <2>1, NewClosure, Zenon DEF ControlInv
  <2>3. Len(closures') = Len(closures) + 1 /\ \A i \in 1 .. Len(closures) : closures'[i] = closures[i]
    BY <1>1, <2>1, <2>2, AppendProperties, SMTT(20)
  <2>4. \A i \in 1 .. Len(closures) : i \in 1 .. Len(closures')
    BY <1>1, <2>3, LenProperties, SMTT(20)
  <2> QED
    BY <1>2, <2>1, <2>3, <2>4, ZenonT(30) DEF ReplyInv, AckOnce
<1>6. \/ UNCHANGED <<closures, replies>>
      \/ \E t \in Threads : Acknowledge(t)
      \/ \E c \in Connections : Dispatch(c)
  BY ZenonT(30) DEF Next, NewEngine, Ends, Emit, Opened, Announce, Lost, ServerSays, Receive, Check,
               DecodeFrame, SendLock, SendFrame, app
<1> QED
  BY <1>3, <1>4, <1>5, <1>6, Zenon
-----------------------------------------------------------------------------
(* The control invariant.                                                       *)

(* It holds at the start.                                                       *)
LEMMA ControlInit == Init => ControlInv /\ ReplyInv /\ AckOnce
<1> SUFFICES ASSUME Init PROVE ControlInv /\ ReplyInv /\ AckOnce
  OBVIOUS
<1>0. current = 0 /\ closures = <<>> /\ replies = <<>> /\ kept = Idle /\ lock = Nobody
  BY Zenon DEF Init
<1>1. TypeInv
  BY BoundAssumption, ThreadFacts DEF Init, TypeInv, Links, Labels
<1>2. StreamInv
  <2>1. /\ inbox \in [Connections -> Seq(FramesOf(parser))]
        /\ hand \in [Connections -> Seq(FramesOf(parser))]
        /\ said \in [Connections -> Seq(Messages)]
    BY DEF Init
  <2>2. DOMAIN calls = Connections /\ \A c \in Connections : calls[c] = <<>>
    BY DEF Init
  <2>3. kept \in Mixed(parser)
    BY <1>0, Zenon DEF Mixed
  <2>4. IsSequence(<<>>) /\ Len(<<>>) = 0
    BY SeqIsSequence, EmptySeq, Zenon
  <2>5. \A k : k \notin 1 .. 0
    OBVIOUS
  <2> QED
    BY <2>1, <2>2, <2>3, <2>4, <2>5, Zenon DEF StreamInv
<1>3. LockInv
  <2>1. \A t \in Threads : pc[t] = "idle" /\ part[t] = 0 /\ lock # t
    BY <1>0, ThreadFacts DEF Init
  <2> QED
    BY <2>1, Zenon DEF LockInv
<1>4. LinkInv
  <2>1. \A c \in Connections : /\ link[c] = "none" /\ pc[c] = "idle" /\ inbox[c] = <<>>
                               /\ said[c] = <<>> /\ calls[c] = <<>> /\ hand[c] = <<>>
    BY ThreadFacts DEF Init
  <2> QED
    BY <2>1, Zenon DEF LinkInv
<1>5. Len(closures) = 0 /\ Len(replies) = 0 /\ DOMAIN replies = {} /\ \A k : k \notin 1 .. 0
  BY <1>0, EmptySeq
<1>6. closures \in Seq(ClosureSet) /\ replies \in Seq(Connections \X Nat)
  BY <1>0, EmptySeq
<1> QED
  BY <1>1, <1>2, <1>3, <1>4, <1>5, <1>6, Zenon DEF ControlInv, ClosureInv, ReplyInv, AckOnce

(* A step that changes nothing.                                                 *)
LEMMA ControlStutter ==
    ControlInv /\ ReplyInv /\ AckOnce /\ UNCHANGED vars => (ControlInv /\ ReplyInv /\ AckOnce)'
<1> SUFFICES ASSUME ControlInv, ReplyInv, AckOnce, UNCHANGED vars PROVE (ControlInv /\ ReplyInv /\ AckOnce)'
  OBVIOUS
<1>1. UNCHANGED <<parser, channel, current, link, inbox, hand, kept, connected, closures, lock, pc,
                  job, engine, part, said, calls, replies>>
  BY Zenon DEF vars, config, inbound, outbound, app
<1>2. TypeInv' /\ StreamInv' /\ LockInv' /\ LinkInv'
  BY <1>1, Zenon DEF ControlInv, TypeInv, StreamInv, LockInv, LinkInv
<1>3. ClosureInv' /\ ReplyInv' /\ AckOnce'
  BY <1>1, Zenon DEF ControlInv, ClosureInv, Retired, ReplyInv, AckOnce
<1> QED
  BY <1>2, <1>3, Zenon DEF ControlInv

(* It is inductive.                                                             *)
LEMMA ControlStep == ControlInv /\ Next => ControlInv'
<1> SUFFICES ASSUME ControlInv, Next PROVE ControlInv'
  OBVIOUS
<1>1. LinkInv'
  <2>1. \A d \in Connections : LinkOf(d)'
    BY LinkStep, Zenon
  <2> QED
    BY <2>1, Zenon DEF LinkOf, LinkInv
<1> QED
  BY <1>1, TypeStep, StreamStep, LockStep, ClosureStep, Zenon DEF ControlInv

(* It holds throughout, and so no event is acknowledged twice.                  *)
LEMMA ControlAlways == Spec => [](ControlInv /\ ReplyInv /\ AckOnce)
<1>1. ControlInv /\ ReplyInv /\ AckOnce /\ [Next]_vars => (ControlInv /\ ReplyInv /\ AckOnce)'
  BY ControlStep, ReplyStep, ControlStutter, Zenon
<1> QED
  BY ControlInit, <1>1, PTL DEF Spec
=============================================================================
