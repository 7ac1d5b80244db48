---------------------------- MODULE FramesLemmas ----------------------------
(***************************************************************************)
(* Facts about the operators of Frames that its proofs share: what its     *)
(* assumptions say of the formats, what a packet leads to, and where the   *)
(* frames of a connection belong in what the server said on it.            *)
(***************************************************************************)
EXTENDS Frames, SequenceTheorems, TLAPS

FramesOf(x) == {Frame(x, a) : a \in Places(x)}

\* No call, or one of a socket, with the id of a message or none.
IsCall(s) == \/ s = <<>>
             \/ /\ s = <<s[1]>> /\ s[1].nsp \in Sockets
                /\ \E m \in Messages : s[1].nsp = m.nsp /\ s[1].id \in {m.id, -1}
-----------------------------------------------------------------------------
(* Sequences of whatever values.                                                *)

(* A sequence is a sequence of its elements.                                    *)
LEMMA IsSequenceSeq ==
    ASSUME NEW s, IsSequence(s), NEW S, \A i \in 1 .. Len(s) : s[i] \in S
    PROVE  s \in Seq(S)
  BY SeqDef DEF IsSequence

(* The converse.                                                                *)
LEMMA SeqIsSequence == ASSUME NEW S, NEW s \in Seq(S) PROVE IsSequence(s)
  BY LenProperties DEF IsSequence

(* Append adds an element at the end.                                           *)
LEMMA AppendIs ==
    ASSUME NEW s, IsSequence(s), NEW e
    PROVE  /\ IsSequence(Append(s, e)) /\ Len(Append(s, e)) = Len(s) + 1
           /\ \A i \in 1 .. Len(s) : Append(s, e)[i] = s[i]
           /\ Append(s, e)[Len(s) + 1] = e
<1> DEFINE S == {s[i] : i \in 1 .. Len(s)} \cup {e}
<1>1. s \in Seq(S) /\ e \in S
  BY IsSequenceSeq
<1> HIDE DEF S
<1>2. /\ Append(s, e) \in Seq(S) /\ Len(Append(s, e)) = Len(s) + 1
      /\ \A i \in 1 .. Len(s) : Append(s, e)[i] = s[i]
      /\ Append(s, e)[Len(s) + 1] = e
  BY <1>1, AppendProperties
<1>3. IsSequence(Append(s, e))
  BY <1>2, SeqIsSequence
<1> QED
  BY <1>2, <1>3

(* So does concatenation with one element.                                      *)
LEMMA ConcatOne ==
    ASSUME NEW s, IsSequence(s), NEW e
    PROVE  s \o <<e>> = Append(s, e)
<1> DEFINE S == {s[i] : i \in 1 .. Len(s)} \cup {e}
<1>1. s \in Seq(S) /\ e \in S
  BY IsSequenceSeq
<1> HIDE DEF S
<1> QED
  BY <1>1, AppendIsConcat

(* The tail of more than one element is not empty.                              *)
LEMMA TailOfMany == ASSUME NEW S, NEW s \in Seq(S), Len(s) > 1 PROVE Tail(s) # <<>>
<1>1. s # <<>> /\ Len(s) \in Nat
  BY LenProperties, EmptySeq
<1>2. Len(Tail(s)) = Len(s) - 1
  BY <1>1, HeadTailProperties
<1>3. Len(Tail(s)) # 0
  BY <1>1, <1>2
<1> QED
  BY <1>3, EmptySeq, Zenon
-----------------------------------------------------------------------------
(* What the assumptions say of the formats.                                     *)

(* A packet has at least one frame.                                             *)
LEMMA Encoded ==
    ASSUME NEW x \in Parsers, NEW p \in Incoming \cup Outgoing
    PROVE  IsSequence(Encode(x, p)) /\ Len(Encode(x, p)) > 0 /\ Len(Encode(x, p)) \in Nat
  BY ParserAssumption DEF IsSequence

(* The frames of a message are frames of the server.                            *)
LEMMA MessageFrames ==
    ASSUME NEW x \in Parsers, NEW m \in Messages
    PROVE  /\ MessagePacket(m) \in Incoming
           /\ \A i \in 1 .. Len(Encode(x, MessagePacket(m))) :
                 Encode(x, MessagePacket(m))[i] \in FramesOf(x)
           /\ Encode(x, MessagePacket(m)) \in Seq(FramesOf(x))
<1> DEFINE p == MessagePacket(m)
<1>1. p \in Incoming
  BY DEF Incoming
<1>2. ASSUME NEW i \in 1 .. Len(Encode(x, p)) PROVE Encode(x, p)[i] \in FramesOf(x)
  <2>1. <<p, i>> \in Places(x)
    BY <1>1 DEF Places
  <2>2. Frame(x, <<p, i>>) = Encode(x, p)[i]
    BY DEF Frame
  <2> QED
    BY <2>1, <2>2 DEF FramesOf
<1> HIDE DEF p
<1>3. Encode(x, p) \in Seq(FramesOf(x))
  BY <1>1, <1>2, Encoded, IsSequenceSeq
<1> QED
  BY <1>1, <1>2, <1>3 DEF p

(* A channel carries what is read at once as it is.                             *)
LEMMA Carried ==
    ASSUME parser \in Parsers, channel \in Channels, parser = "msgpack" => channel = "websocket",
           NEW n \in 1 .. MaxBody, channel = "websocket" => n = 1,
           NEW fs \in [1 .. n -> FramesOf(parser)]
    PROVE  Carry(channel, fs) = fs
<1> DEFINE places == [i \in 1 .. n |-> CHOOSE a \in Places(parser) : Frame(parser, a) = fs[i]]
<1>1. ASSUME NEW i \in 1 .. n
      PROVE  places[i] \in Places(parser) /\ Frame(parser, places[i]) = fs[i]
  <2>1. \E a \in Places(parser) : Frame(parser, a) = fs[i]
    BY DEF FramesOf
  <2> QED
    BY <2>1
<1>2. places \in [1 .. n -> Places(parser)]
  BY <1>1
<1> HIDE DEF places
<1>3. fs = [i \in 1 .. n |-> Frame(parser, places[i])]
  BY <1>1
<1> QED
  BY <1>2, <1>3, ChannelAssumption

(* Whatever frames of the server a parser gets, it returns nothing or a packet  *)
(* for a namespace and with an id of a message.                                 *)
LEMMA DecodedMixed ==
    ASSUME NEW x \in Parsers, NEW k \in Mixed(x), NEW f \in FramesOf(x)
    PROVE  /\ Keeps(Decode(x, k, f)) \in Mixed(x)
           /\ LET r == Decode(x, k, f)
              IN  \/ r.packet = <<>>
                  \/ /\ r.packet = <<r.packet[1]>> /\ r.packet # <<>>
                     /\ \E m \in Messages : r.packet[1].nsp = m.nsp /\ r.packet[1].id = m.id
<1>1. PICK a \in Places(x) : f = Frame(x, a)
  BY DEF FramesOf
<1>2. /\ Keeps(Decode(x, k, Frame(x, a))) \in Mixed(x)
      /\ LET r == Decode(x, k, Frame(x, a))
         IN  \/ r.packet = <<>>
             \/ /\ r.packet = <<r.packet[1]>>
                /\ \E m \in Messages : r.packet[1].nsp = m.nsp /\ r.packet[1].id = m.id
  BY MixtureAssumption
<1> QED
  BY <1>1, <1>2

(* A packet for a namespace and with an id of a message leads to a call or none. *)
LEMMA RouteCall ==
    ASSUME NEW p, \E m \in Messages : p.nsp = m.nsp /\ p.id = m.id
    PROVE  IsCall(Route(p))
<1>1. CASE Route(p) = <<>>
  BY <1>1 DEF IsCall
<1>2. CASE /\ p.nsp \in Sockets
           /\ \E op, name, data : \E id \in {p.id, -1} : Route(p) = Call(op, p, name, data, id)
  BY <1>2 DEF IsCall, Call
<1> QED
  BY <1>1, <1>2, Zenon DEF Route, RouteAck

(* The types of packets are different.                                          *)
LEMMA TypesDiffer ==
    /\ DISCONNECT # CONNECT
    /\ CONNECT_ERROR \notin {CONNECT, DISCONNECT}
    /\ \A type \in {ACK, BINARY_ACK} : type \notin {CONNECT, DISCONNECT, CONNECT_ERROR}
    /\ \A type \in {EVENT, BINARY_EVENT} :
          type \notin {CONNECT, DISCONNECT, CONNECT_ERROR, ACK, BINARY_ACK}
  BY DEF CONNECT, DISCONNECT, EVENT, ACK, CONNECT_ERROR, BINARY_EVENT, BINARY_ACK

(* The packet of a message leads to the call that is meant.                     *)
LEMMA RouteMessage ==
    ASSUME NEW m \in Messages, NEW q, Plain(q) = MessagePacket(m)
    PROVE  Route(q) = Meant(m)
<1> DEFINE p == MessagePacket(m)
<1>0. /\ p.type = PlainType(q.type) /\ p.nsp = q.nsp /\ p.id = q.id /\ p.data = q.data
  BY DEF Plain, Packet
<1>1. /\ m.op \in {"connect", "disconnect", "error", "ack", "event"}
      /\ m.id \in Int
      /\ m.op \in {"connect", "disconnect", "error"} => m.id = -1
      /\ m.op = "ack" => m.id >= 0
      /\ m.op # "event" => m.name = (IF m.op = "error" THEN "connect_error" ELSE "")
      /\ m.op = "event" => m.data = <<"array", m.data[2]>> /\ IsSequence(m.data[2])
  BY MessageAssumption
<1>2. p.nsp = m.nsp
  BY <1>1 DEF MessagePacket, Packet
<1>3. CASE m.nsp \notin Sockets
  BY <1>0, <1>2, <1>3 DEF Route, Meant
<1>4. SUFFICES ASSUME m.nsp \in Sockets PROVE Route(q) = Call(m.op, q, m.name, m.data, m.id)
  <2>1. m = [op |-> m.op, nsp |-> m.nsp, name |-> m.name, data |-> m.data, id |-> m.id]
    BY MessageAssumption
  <2>2. CASE m.nsp \in Sockets
    BY <1>0, <1>2, <1>4, <2>1, <2>2, Zenon DEF Call, Meant
  <2> QED
    BY <1>3, <2>2
<1>5. CASE m.op = "connect"
  <2>1. p = Packet(CONNECT, m.nsp, -1, m.data)
    BY <1>5 DEF MessagePacket
  <2>2. q.type = CONNECT /\ q.nsp \in Sockets /\ q.data = m.data
    BY <1>0, <1>4, <2>1 DEF Packet, PlainType, CONNECT, BINARY_EVENT, BINARY_ACK, EVENT, ACK
  <2>3. Route(q) = Call("connect", q, "", q.data, -1)
    BY <2>2, Zenon DEF Route
  <2>4. m.name = "" /\ m.id = -1
    BY <1>1, <1>5
  <2> QED
    BY <1>5, <2>2, <2>3, <2>4, Zenon
<1>6. CASE m.op = "disconnect"
  <2>1. p = Packet(DISCONNECT, m.nsp, -1, m.data)
    BY <1>6 DEF MessagePacket
  <2>2. q.type = DISCONNECT /\ q.nsp \in Sockets /\ q.data = m.data
    BY <1>0, <1>4, <2>1 DEF Packet, PlainType, DISCONNECT, BINARY_EVENT, BINARY_ACK, EVENT, ACK
  <2>3. Route(q) = Call("disconnect", q, "", q.data, -1)
    <3>1. q.type # CONNECT
      BY <2>2, TypesDiffer, Zenon
    <3> QED
      BY <2>2, <3>1, Zenon DEF Route
  <2>4. m.name = "" /\ m.id = -1
    BY <1>1, <1>6
  <2> QED
    BY <1>6, <2>2, <2>3, <2>4, Zenon
<1>7. CASE m.op = "error"
  <2>1. p = Packet(CONNECT_ERROR, m.nsp, -1, m.data)
    BY <1>7 DEF MessagePacket
  <2>2. q.type = CONNECT_ERROR /\ q.nsp \in Sockets /\ q.data = m.data
    BY <1>0, <1>4, <2>1 DEF Packet, PlainType, CONNECT_ERROR, BINARY_EVENT, BINARY_ACK, EVENT, ACK
  <2>3. Route(q) = Call("error", q, "connect_error", q.data, -1)
    <3>1. q.type # CONNECT /\ q.type # DISCONNECT
      BY <2>2, TypesDiffer, Zenon
    <3> QED
      BY <2>2, <3>1, Zenon DEF Route
  <2>4. m.name = "connect_error" /\ m.id = -1
    BY <1>1, <1>7
  <2> QED
    BY <1>7, <2>2, <2>3, <2>4, Zenon
<1>8. CASE m.op = "ack"
  <2>1. p = Packet(ACK, m.nsp, m.id, m.data)
    BY <1>8 DEF MessagePacket
  <2>2. q.type \in {ACK, BINARY_ACK} /\ q.nsp \in Sockets /\ q.data = m.data /\ q.id = m.id
    BY <1>0, <1>4, <2>1 DEF Packet, PlainType, BINARY_EVENT, BINARY_ACK, EVENT, ACK
  <2>3. m.name = "" /\ m.id \in Int /\ m.id >= 0
    BY <1>1, <1>8
  <2>4. Route(q) = Call("ack", q, "", q.data, q.id)
    <3>1. q.type # CONNECT /\ q.type # DISCONNECT /\ q.type # CONNECT_ERROR
      BY <2>2, TypesDiffer, Zenon
    <3>2. Route(q) = RouteAck(q)
      BY <2>2, <3>1, Zenon DEF Route
    <3> QED
      BY <2>2, <2>3, <3>2, Zenon DEF RouteAck
  <2> QED
    BY <1>8, <2>2, <2>3, <2>4, Zenon
<1>9. CASE m.op = "event"
  <2> DEFINE first == <<"string", m.name>>
             rest  == m.data[2]
             data  == <<first>> \o rest
  <2>1. p = Packet(EVENT, m.nsp, m.id, <<"array", data>>)
    BY <1>9 DEF MessagePacket
  <2>2. /\ q.type \in {EVENT, BINARY_EVENT} /\ q.nsp \in Sockets /\ q.id = m.id
        /\ q.data = <<"array", data>>
    <3> HIDE DEF data
    <3> QED
      BY <1>0, <1>4, <2>1 DEF Packet, PlainType, BINARY_EVENT, BINARY_ACK, EVENT, ACK
  <2>3. m.data = <<"array", rest>> /\ IsSequence(rest)
    BY <1>1, <1>9
  <2>4. data # <<>> /\ data[1] = first /\ Tail(data) = rest
    <3> DEFINE S == {rest[i] : i \in 1 .. Len(rest)} \cup {first}
    <3>1. rest \in Seq(S) /\ first \in S
      BY <2>3, IsSequenceSeq
    <3> HIDE DEF S, first, rest
    <3>2. <<first>> \in Seq(S) /\ Len(<<first>>) = 1 /\ <<first>>[1] = first
      BY <3>1
    <3>3. /\ data \in Seq(S) /\ Len(data) = 1 + Len(rest)
          /\ \A i \in 1 .. 1 + Len(rest) : data[i] = IF i <= 1 THEN <<first>>[i] ELSE rest[i - 1]
      BY <3>1, <3>2, ConcatProperties
    <3> HIDE DEF data
    <3>4. data # <<>> /\ data[1] = first
      BY <3>1, <3>2, <3>3, LenProperties
    <3>5. /\ Tail(data) \in Seq(S) /\ Len(Tail(data)) = Len(rest)
          /\ \A i \in 1 .. Len(rest) : Tail(data)[i] = rest[i]
      BY <3>1, <3>3, <3>4, HeadTailProperties, LenProperties
    <3>6. Tail(data) = rest
      BY <3>1, <3>5, SeqEqual
    <3> QED
      BY <3>4, <3>6
  <2> HIDE DEF rest, data
  <2>5. q.data[1] = "array" /\ q.data[2] = data
    BY <2>2
  <2>6. data[1][1] = "string" /\ data[1][2] = m.name
    BY <2>4
  <2> HIDE DEF first
  <2>7. Route(q) = Call("event", q, m.name, <<"array", rest>>, q.id)
    <3>1. /\ q.type # CONNECT /\ q.type # DISCONNECT /\ q.type # CONNECT_ERROR
          /\ q.type \notin {ACK, BINARY_ACK}
      BY <2>2, TypesDiffer, Zenon
    <3> QED
      BY <2>2, <2>4, <2>5, <2>6, <3>1, Zenon DEF Route
  <2> QED
    BY <1>9, <2>2, <2>3, <2>7, Zenon
<1> QED
  BY <1>1, <1>5, <1>6, <1>7, <1>8, <1>9
-----------------------------------------------------------------------------
(* Where frames belong in a sequence of messages.                               *)

\* The number of frames of the k-th message.
CountAt(x, s, k) == IF k = 0 THEN 0 ELSE Len(Encode(x, MessagePacket(s[k])))

\* From where the parser stands, at 0, the frames q are the next ones of the messages s,
\* none left out: the j-th is part prt[j] of message msg[j].
Line(x, s, q, msg, prt) ==
    /\ msg \in [0 .. Len(q) -> 0 .. Len(s)] /\ prt \in [0 .. Len(q) -> Nat]
    /\ \A j \in 0 .. Len(q) : prt[j] <= CountAt(x, s, msg[j])
    /\ \A j \in 1 .. Len(q) :
          /\ q[j] = Encode(x, MessagePacket(s[msg[j]]))[prt[j]]
          /\ \/ /\ prt[j - 1] < CountAt(x, s, msg[j - 1])
                /\ msg[j] = msg[j - 1] /\ prt[j] = prt[j - 1] + 1
             \/ /\ prt[j - 1] = CountAt(x, s, msg[j - 1])
                /\ msg[j] = msg[j - 1] + 1 /\ prt[j] = 1

\* They go to the end of what was said.
LineEnd(x, s, q, msg, prt) == msg[Len(q)] = Len(s) /\ prt[Len(q)] = CountAt(x, s, Len(s))

\* So it is from part i of message m on.
Under(x, s, q, m, i) ==
    \E msg, prt : Line(x, s, q, msg, prt) /\ msg[0] = m /\ prt[0] = i
UnderAll(x, s, q, m, i) ==
    \E msg, prt : /\ Line(x, s, q, msg, prt) /\ LineEnd(x, s, q, msg, prt)
                  /\ msg[0] = m /\ prt[0] = i

\* After n messages the parser keeps k: the beginning of the next one, or anything.
LineStart(x, s, n, k, m, i) ==
    IF i < CountAt(x, s, m)
      THEN i > 0 /\ m = n + 1 /\ k = Kept(x, MessagePacket(s[m]), i)
      ELSE m = n

(* A message has a number of frames.                                            *)
LEMMA CountNat ==
    ASSUME NEW x \in Parsers, NEW s \in Seq(Messages), NEW k \in 0 .. Len(s)
    PROVE  CountAt(x, s, k) \in Nat /\ (k # 0 => CountAt(x, s, k) > 0)
<1>1. CASE k = 0
  BY <1>1 DEF CountAt
<1>2. CASE k # 0
  <2>1. s[k] \in Messages
    BY <1>2, ElementOfSeq, LenProperties
  <2>2. Len(Encode(x, MessagePacket(s[k]))) \in Nat /\ Len(Encode(x, MessagePacket(s[k]))) > 0
    BY <2>1, MessageFrames, Encoded DEF IsSequence, Incoming
  <2> QED
    BY <1>2, <2>2 DEF CountAt
<1> QED
  BY <1>1, <1>2

(* Nothing is on its way.                                                       *)
LEMMA LineEmpty ==
    ASSUME NEW x PROVE UnderAll(x, <<>>, <<>>, 0, 0)
<1> DEFINE z == [j \in 0 .. 0 |-> 0]
<1>1. Len(<<>>) = 0
  BY EmptySeq
<1>2. z \in [0 .. 0 -> 0 .. 0] /\ z \in [0 .. 0 -> Nat] /\ z[0] = 0 /\ \A j \in 0 .. 0 : j = 0
  OBVIOUS
<1>3. CountAt(x, <<>>, 0) = 0
  BY Zenon DEF CountAt
<1> HIDE DEF z
<1>4. Line(x, <<>>, <<>>, z, z)
  BY <1>1, <1>2, <1>3 DEF Line
<1>5. LineEnd(x, <<>>, <<>>, z, z)
  BY <1>1, <1>2, <1>3 DEF LineEnd
<1> QED
  BY <1>2, <1>4, <1>5, Zenon DEF UnderAll

(* Where that is.                                                               *)
LEMMA LineRange ==
    ASSUME NEW x, NEW s, NEW q, Len(q) \in Nat, NEW m, NEW i, Under(x, s, q, m, i)
    PROVE  m \in 0 .. Len(s) /\ i \in Nat /\ i <= CountAt(x, s, m)
<1>1. PICK msg, prt : Line(x, s, q, msg, prt) /\ msg[0] = m /\ prt[0] = i
  BY Zenon DEF Under
<1>2. 0 \in 0 .. Len(q)
  OBVIOUS
<1> QED
  BY <1>1, <1>2, Zenon DEF Line

(* When nothing is under way it is the end.                                     *)
LEMMA LineAtEnd ==
    ASSUME NEW x, NEW s, NEW m, NEW i, UnderAll(x, s, <<>>, m, i)
    PROVE  m = Len(s) /\ i = CountAt(x, s, Len(s))
<1>1. Len(<<>>) = 0
  BY EmptySeq
<1> QED
  BY <1>1, Zenon DEF UnderAll, LineEnd

(* All the frames to the end are frames from there on.                          *)
LEMMA LineAll ==
    ASSUME NEW x, NEW s, NEW q, NEW m, NEW i, UnderAll(x, s, q, m, i)
    PROVE  Under(x, s, q, m, i)
  BY Zenon DEF UnderAll, Under

(* The first frame has been decoded.                                            *)
Shifted(f, n) == [j \in 0 .. n - 1 |-> f[j + 1]]
TailLine(x, s, q, msg, prt) ==
    LET msg2 == Shifted(msg, Len(q))
        prt2 == Shifted(prt, Len(q))
    IN  /\ Line(x, s, Tail(q), msg2, prt2) /\ msg2[0] = msg[1] /\ prt2[0] = prt[1]
        /\ LineEnd(x, s, q, msg, prt) => LineEnd(x, s, Tail(q), msg2, prt2)

(* The places of the frames without the first one, from the places of all.      *)
LEMMA LineTailOf ==
    ASSUME NEW x \in Parsers, NEW s \in Seq(Messages), NEW q \in Seq(FramesOf(x)), q # <<>>,
           NEW msg, NEW prt, Line(x, s, q, msg, prt)
    PROVE  TailLine(x, s, q, msg, prt)
<1> DEFINE n  == Len(q)
           m2 == Shifted(msg, n)
           p2 == Shifted(prt, n)
<1>1. /\ n \in Nat /\ n > 0 /\ Len(Tail(q)) = n - 1
      /\ \A j \in 1 .. n - 1 : Tail(q)[j] = q[j + 1]
  BY HeadTailProperties, LenProperties, EmptySeq
<1>2. Len(s) \in Nat
  BY LenProperties
<1>3. msg \in [0 .. n -> 0 .. Len(s)] /\ prt \in [0 .. n -> Nat]
  BY DEF Line
<1>4. \A j \in 0 .. n - 1 : j + 1 \in 0 .. n
  BY <1>1
<1>a. \A j \in 0 .. n - 1 : msg[j + 1] \in 0 .. Len(s) /\ prt[j + 1] \in Nat
  BY <1>3, <1>4, Zenon
<1>b. \A j \in 0 .. Len(s) : j \in Nat
  BY <1>2
<1>5. /\ m2 \in [0 .. n - 1 -> 0 .. Len(s)] /\ p2 \in [0 .. n - 1 -> Nat]
      /\ m2 \in [0 .. n - 1 -> Nat]
  BY <1>a, <1>b, Zenon DEF Shifted
<1>6. \A j \in 0 .. n - 1 : m2[j] = msg[j + 1] /\ p2[j] = prt[j + 1]
  BY Zenon DEF Shifted
<1> HIDE DEF n, m2, p2
<1>7. \A j \in 0 .. n - 1 : p2[j] <= CountAt(x, s, m2[j])
  BY <1>4, <1>6, Zenon DEF Line, n
<1>8. ASSUME NEW j \in 1 .. n - 1
      PROVE  /\ Tail(q)[j] = Encode(x, MessagePacket(s[m2[j]]))[p2[j]]
             /\ \/ /\ p2[j - 1] < CountAt(x, s, m2[j - 1])
                   /\ m2[j] = m2[j - 1] /\ p2[j] = p2[j - 1] + 1
                \/ /\ p2[j - 1] = CountAt(x, s, m2[j - 1])
                   /\ m2[j] = m2[j - 1] + 1 /\ p2[j] = 1
  <2>1. PICK i \in 1 .. n : i = j + 1
    BY <1>1
  <2>2. i - 1 = j /\ j \in 0 .. n - 1 /\ j - 1 \in 0 .. n - 1 /\ j - 1 + 1 = j
    BY <1>1, <2>1
  <2>3. /\ q[i] = Encode(x, MessagePacket(s[msg[i]]))[prt[i]]
        /\ \/ /\ prt[i - 1] < CountAt(x, s, msg[i - 1])
              /\ msg[i] = msg[i - 1] /\ prt[i] = prt[i - 1] + 1
           \/ /\ prt[i - 1] = CountAt(x, s, msg[i - 1])
              /\ msg[i] = msg[i - 1] + 1 /\ prt[i] = 1
    BY Zenon DEF Line, n
  <2>4. /\ m2[j] = msg[i] /\ p2[j] = prt[i] /\ m2[j - 1] = msg[i - 1] /\ p2[j - 1] = prt[i - 1]
        /\ Tail(q)[j] = q[i]
    <3>1. m2[j] = msg[j + 1] /\ p2[j] = prt[j + 1] /\ Tail(q)[j] = q[j + 1]
      BY <1>1, <1>6, <2>2
    <3>2. m2[j - 1] = msg[j - 1 + 1] /\ p2[j - 1] = prt[j - 1 + 1]
      BY <1>6, <2>2, Zenon
    <3> QED
      BY <2>1, <2>2, <3>1, <3>2, Zenon
  <2> QED
    BY <2>3, <2>4, Zenon
<1>9. Line(x, s, Tail(q), m2, p2)
  BY <1>1, <1>5, <1>7, <1>8, Zenon DEF Line
<1>10. m2[0] = msg[1] /\ p2[0] = prt[1]
  BY <1>1, <1>6
<1>11. LineEnd(x, s, q, msg, prt) => LineEnd(x, s, Tail(q), m2, p2)
  <2>1. m2[n - 1] = msg[n] /\ p2[n - 1] = prt[n]
    BY <1>1, <1>6
  <2> QED
    BY <1>1, <2>1, Zenon DEF LineEnd, n
<1> QED
  BY <1>9, <1>10, <1>11, Zenon DEF m2, p2, n, TailLine

\* The place after part i of message m.
NextPlace(x, s, m, i, m2, i2) ==
    \/ i < CountAt(x, s, m) /\ m2 = m /\ i2 = i + 1
    \/ ~(i < CountAt(x, s, m)) /\ m2 = m + 1 /\ i2 = 1

(* The first frame is the one at the next place, and the others follow it.      *)
LEMMA LineTail ==
    ASSUME NEW x \in Parsers, NEW s \in Seq(Messages), NEW q \in Seq(FramesOf(x)), q # <<>>,
           NEW m, NEW i, Under(x, s, q, m, i)
    PROVE  \E m2 \in 1 .. Len(s) : \E i2 \in 1 .. CountAt(x, s, m2) :
              /\ NextPlace(x, s, m, i, m2, i2)
              /\ q[1] = Encode(x, MessagePacket(s[m2]))[i2]
              /\ Under(x, s, Tail(q), m2, i2)
              /\ UnderAll(x, s, q, m, i) => UnderAll(x, s, Tail(q), m2, i2)
<1>0. Len(q) \in Nat /\ Len(q) > 0 /\ Len(s) \in Nat
  BY LenProperties, EmptySeq
<1>1. ASSUME NEW msg, NEW prt, Line(x, s, q, msg, prt)
      PROVE  /\ msg[0] \in 0 .. Len(s) /\ prt[0] \in Nat
             /\ msg[1] \in 0 .. Len(s) /\ prt[1] \in Nat
             /\ prt[0] <= CountAt(x, s, msg[0]) /\ prt[1] <= CountAt(x, s, msg[1])
             /\ q[1] = Encode(x, MessagePacket(s[msg[1]]))[prt[1]]
             /\ \/ /\ prt[0] < CountAt(x, s, msg[0])
                   /\ msg[1] = msg[0] /\ prt[1] = prt[0] + 1
                \/ /\ prt[0] = CountAt(x, s, msg[0])
                   /\ msg[1] = msg[0] + 1 /\ prt[1] = 1
  <2>1. 0 \in 0 .. Len(q) /\ 1 \in 0 .. Len(q) /\ 1 \in 1 .. Len(q) /\ 1 - 1 = 0
    BY <1>0
  <2>2. \/ /\ prt[1 - 1] < CountAt(x, s, msg[1 - 1])
           /\ msg[1] = msg[1 - 1] /\ prt[1] = prt[1 - 1] + 1
        \/ /\ prt[1 - 1] = CountAt(x, s, msg[1 - 1])
           /\ msg[1] = msg[1 - 1] + 1 /\ prt[1] = 1
    BY <1>1, <2>1, Zenon DEF Line
  <2>3. /\ msg[0] \in 0 .. Len(s) /\ prt[0] \in Nat
        /\ msg[1] \in 0 .. Len(s) /\ prt[1] \in Nat
        /\ prt[0] <= CountAt(x, s, msg[0]) /\ prt[1] <= CountAt(x, s, msg[1])
        /\ q[1] = Encode(x, MessagePacket(s[msg[1]]))[prt[1]]
    BY <1>1, <2>1, Zenon DEF Line
  <2> QED
    BY <2>1, <2>2, <2>3
<1>2. PICK msg, prt : Line(x, s, q, msg, prt) /\ msg[0] = m /\ prt[0] = i
  BY Zenon DEF Under
<1>3. PICK m2, i2 : m2 = msg[1] /\ i2 = prt[1]
  OBVIOUS
<1>4. /\ m \in 0 .. Len(s) /\ i \in Nat /\ m2 \in 0 .. Len(s) /\ i2 \in Nat
      /\ i2 <= CountAt(x, s, m2) /\ q[1] = Encode(x, MessagePacket(s[m2]))[i2]
      /\ \/ i < CountAt(x, s, m) /\ m2 = m /\ i2 = i + 1
         \/ i = CountAt(x, s, m) /\ m2 = m + 1 /\ i2 = 1
  BY <1>1, <1>2, <1>3, Zenon
<1>5. /\ CountAt(x, s, m) \in Nat /\ CountAt(x, s, m2) \in Nat
      /\ CountAt(x, s, 0) = 0
  <2>1. CountAt(x, s, 0) = 0
    BY Zenon DEF CountAt
  <2> QED
    BY <1>4, <2>1, CountNat, Zenon
<1>6. m2 \in 1 .. Len(s) /\ i2 \in 1 .. CountAt(x, s, m2)
  BY <1>0, <1>4, <1>5
<1>7. NextPlace(x, s, m, i, m2, i2)
  <2>1. i = CountAt(x, s, m) => ~(i < CountAt(x, s, m))
    BY <1>4, <1>5
  <2> QED
    BY <1>4, <2>1, Zenon DEF NextPlace
<1>8. Under(x, s, Tail(q), m2, i2)
  <2> DEFINE msg2 == Shifted(msg, Len(q))
             prt2 == Shifted(prt, Len(q))
  <2>0. TailLine(x, s, q, msg, prt)
    BY <1>2, LineTailOf, Zenon
  <2>1. Line(x, s, Tail(q), msg2, prt2) /\ msg2[0] = msg[1] /\ prt2[0] = prt[1]
    BY <2>0, Zenon DEF TailLine
  <2> HIDE DEF msg2, prt2
  <2> QED
    BY <1>3, <2>1, Zenon DEF Under
<1>9. ASSUME UnderAll(x, s, q, m, i) PROVE UnderAll(x, s, Tail(q), m2, i2)
  <2>1. PICK g, p : /\ Line(x, s, q, g, p) /\ LineEnd(x, s, q, g, p)
                    /\ g[0] = m /\ p[0] = i
    BY <1>9, Zenon DEF UnderAll
  <2>2. \/ i < CountAt(x, s, m) /\ g[1] = m /\ p[1] = i + 1
        \/ i = CountAt(x, s, m) /\ g[1] = m + 1 /\ p[1] = 1
    BY <1>1, <2>1, Zenon
  <2>3. g[1] = m2 /\ p[1] = i2
    BY <1>4, <1>5, <2>2
  <2> DEFINE msg2 == Shifted(g, Len(q))
             prt2 == Shifted(p, Len(q))
  <2>4. /\ Line(x, s, Tail(q), msg2, prt2) /\ msg2[0] = g[1] /\ prt2[0] = p[1]
        /\ LineEnd(x, s, Tail(q), msg2, prt2)
    <3>1. TailLine(x, s, q, g, p)
      BY <2>1, LineTailOf, Zenon
    <3> QED
      BY <2>1, <3>1, Zenon DEF TailLine
  <2> HIDE DEF msg2, prt2
  <2> QED
    BY <2>3, <2>4, Zenon DEF UnderAll
<1> QED
  BY <1>4, <1>6, <1>7, <1>8, <1>9, Zenon

(* Only the first ones are left.                                                *)
LEMMA LinePrefix ==
    ASSUME NEW x \in Parsers, NEW s \in Seq(Messages), NEW h \in Seq(FramesOf(x)), NEW i \in Seq(FramesOf(x)),
           NEW m, NEW k, Under(x, s, h \o i, m, k)
    PROVE  Under(x, s, h, m, k)
<1>0. PICK msg, prt : Line(x, s, h \o i, msg, prt) /\ msg[0] = m /\ prt[0] = k
  BY Zenon DEF Under
<1> DEFINE n  == Len(h)
           l  == Len(h \o i)
           m2 == [j \in 0 .. n |-> msg[j]]
           p2 == [j \in 0 .. n |-> prt[j]]
<1>1. n \in Nat /\ l \in Nat /\ n <= l /\ \A j \in 1 .. n : (h \o i)[j] = h[j]
  BY ConcatProperties, LenProperties
<1>2. msg \in [0 .. l -> 0 .. Len(s)] /\ prt \in [0 .. l -> Nat] /\ Len(s) \in Nat
  BY <1>0, LenProperties DEF Line
<1>3. /\ \A j \in 0 .. n : j \in 0 .. l
      /\ \A j \in 1 .. n : j \in 1 .. l /\ j \in 0 .. n /\ j - 1 \in 0 .. n
  BY <1>1
<1>4. /\ m2 \in [0 .. n -> 0 .. Len(s)] /\ p2 \in [0 .. n -> Nat] /\ m2 \in [0 .. n -> Nat]
  BY <1>2, <1>3
<1>5. \A j \in 0 .. n : m2[j] = msg[j] /\ p2[j] = prt[j]
  OBVIOUS
<1> HIDE DEF n, l, m2, p2
<1>6. \A j \in 0 .. n : p2[j] <= CountAt(x, s, m2[j])
  BY <1>0, <1>3, <1>5, Zenon DEF Line, l
<1>7. ASSUME NEW j \in 1 .. n
      PROVE  /\ h[j] = Encode(x, MessagePacket(s[m2[j]]))[p2[j]]
             /\ \/ /\ p2[j - 1] < CountAt(x, s, m2[j - 1])
                   /\ m2[j] = m2[j - 1] /\ p2[j] = p2[j - 1] + 1
                \/ /\ p2[j - 1] = CountAt(x, s, m2[j - 1])
                   /\ m2[j] = m2[j - 1] + 1 /\ p2[j] = 1
  <2>1. /\ (h \o i)[j] = Encode(x, MessagePacket(s[msg[j]]))[prt[j]]
        /\ \/ /\ prt[j - 1] < CountAt(x, s, msg[j - 1])
              /\ msg[j] = msg[j - 1] /\ prt[j] = prt[j - 1] + 1
           \/ /\ prt[j - 1] = CountAt(x, s, msg[j - 1])
              /\ msg[j] = msg[j - 1] + 1 /\ prt[j] = 1
    BY <1>0, <1>3, Zenon DEF Line, l
  <2>2. /\ m2[j] = msg[j] /\ p2[j] = prt[j] /\ m2[j - 1] = msg[j - 1] /\ p2[j - 1] = prt[j - 1]
        /\ (h \o i)[j] = h[j]
    BY <1>1, <1>3, <1>5, Zenon
  <2> QED
    BY <2>1, <2>2, Zenon
<1>8. Line(x, s, h, m2, p2)
  BY <1>4, <1>6, <1>7, Zenon DEF Line, n
<1>9. 0 \in 0 .. n
  BY <1>1
<1> QED
  BY <1>0, <1>5, <1>8, <1>9, Zenon DEF Under

(* What was said stays when more is said.                                       *)
LEMMA SaidMore ==
    ASSUME NEW x, NEW s \in Seq(Messages), NEW m \in Messages
    PROVE  /\ Append(s, m) \in Seq(Messages) /\ Len(Append(s, m)) = Len(s) + 1 /\ Len(s) \in Nat
           /\ \A k \in 1 .. Len(s) : Append(s, m)[k] = s[k]
           /\ Append(s, m)[Len(s) + 1] = m
           /\ \A k \in 0 .. Len(s) : CountAt(x, Append(s, m), k) = CountAt(x, s, k)
           /\ CountAt(x, Append(s, m), Len(s) + 1) = Len(Encode(x, MessagePacket(m)))
<1>1. /\ Append(s, m) \in Seq(Messages) /\ Len(Append(s, m)) = Len(s) + 1 /\ Len(s) \in Nat
      /\ \A k \in 1 .. Len(s) : Append(s, m)[k] = s[k]
      /\ Append(s, m)[Len(s) + 1] = m
  BY AppendProperties, LenProperties
<1>2. ASSUME NEW k \in 0 .. Len(s) PROVE CountAt(x, Append(s, m), k) = CountAt(x, s, k)
  <2>1. k = 0 \/ k \in 1 .. Len(s)
    BY <1>1
  <2> QED
    BY <1>1, <2>1, Zenon DEF CountAt
<1>3. Len(s) + 1 # 0
  BY <1>1
<1>4. CountAt(x, Append(s, m), Len(s) + 1) = Len(Encode(x, MessagePacket(m)))
  BY <1>1, <1>3, Zenon DEF CountAt
<1> QED
  BY <1>1, <1>2, <1>4, Zenon

(* The frames of one more message come to the end.                              *)
LEMMA LineAppend ==
    ASSUME NEW x \in Parsers, NEW s \in Seq(Messages), NEW m \in Messages,
           NEW q \in Seq(FramesOf(x)), NEW w, NEW i, UnderAll(x, s, q, w, i)
    PROVE  UnderAll(x, Append(s, m), q \o Encode(x, MessagePacket(m)), w, i)
<1>0. PICK msg, prt : /\ Line(x, s, q, msg, prt) /\ LineEnd(x, s, q, msg, prt)
                      /\ msg[0] = w /\ prt[0] = i
  BY Zenon DEF UnderAll
<1>r. PICK r : r = q \o Encode(x, MessagePacket(m))
  BY Zenon
<1> DEFINE n  == Len(q)
           fs == Encode(x, MessagePacket(m))
           l  == Len(fs)
           a  == Len(s)
           t  == Append(s, m)
           m2 == [j \in 0 .. n + l |-> IF j <= n THEN msg[j] ELSE a + 1]
           p2 == [j \in 0 .. n + l |-> IF j <= n THEN prt[j] ELSE j - n]
<1>1. /\ n \in Nat /\ l \in Nat /\ l > 0 /\ Len(r) = n + l
      /\ \A j \in 1 .. n : r[j] = q[j]
      /\ \A j \in n + 1 .. n + l : r[j] = fs[j - n]
  <2>1. fs \in Seq(FramesOf(x)) /\ n \in Nat /\ l \in Nat
    BY MessageFrames, LenProperties
  <2>2. l > 0
    BY MessageFrames, Encoded, Zenon
  <2>3. Len(r) = n + l /\ \A j \in 1 .. n + l : r[j] = IF j <= n THEN q[j] ELSE fs[j - n]
    BY <1>r, <2>1, ConcatProperties
  <2> HIDE DEF n, l, fs
  <2> QED
    BY <2>1, <2>2, <2>3
<1>2. /\ a \in Nat /\ Len(t) = a + 1 /\ \A k \in 1 .. a : t[k] = s[k]
      /\ t[a + 1] = m /\ CountAt(x, t, a + 1) = l
      /\ \A k \in 0 .. a : CountAt(x, t, k) = CountAt(x, s, k)
  BY SaidMore, Zenon
<1>3. msg \in [0 .. n -> 0 .. a] /\ prt \in [0 .. n -> Nat] /\ msg[n] = a /\ prt[n] = CountAt(x, s, a)
  BY <1>0, Zenon DEF Line, LineEnd
<1> HIDE DEF n, l, a, t, fs
<1>4. /\ m2 \in [0 .. n + l -> 0 .. a + 1] /\ p2 \in [0 .. n + l -> Nat]
      /\ m2 \in [0 .. n + l -> Nat]
  BY <1>1, <1>2, <1>3
<1>5. /\ \A j \in 0 .. n : m2[j] = msg[j] /\ p2[j] = prt[j]
      /\ \A j \in n + 1 .. n + l : m2[j] = a + 1 /\ p2[j] = j - n
  BY <1>1
<1> HIDE DEF m2, p2
<1>6. ASSUME NEW j \in 0 .. n + l PROVE p2[j] <= CountAt(x, t, m2[j])
  <2>1. CASE j \in 0 .. n
    <3>1. prt[j] <= CountAt(x, s, msg[j]) /\ msg[j] \in 0 .. a
      BY <1>0, <1>3, <2>1, Zenon DEF Line, n
    <3> QED
      BY <1>2, <1>5, <2>1, <3>1, Zenon
  <2>2. CASE j \in n + 1 .. n + l
    <3>1. j - n <= l
      BY <1>1, <2>2
    <3> QED
      BY <1>2, <1>5, <2>2, <3>1, Zenon
  <2> QED
    BY <1>1, <2>1, <2>2
<1>7. ASSUME NEW j \in 1 .. n + l
      PROVE  /\ r[j] = Encode(x, MessagePacket(t[m2[j]]))[p2[j]]
             /\ \/ /\ p2[j - 1] < CountAt(x, t, m2[j - 1])
                   /\ m2[j] = m2[j - 1] /\ p2[j] = p2[j - 1] + 1
                \/ /\ p2[j - 1] = CountAt(x, t, m2[j - 1])
                   /\ m2[j] = m2[j - 1] + 1 /\ p2[j] = 1
  <2>1. CASE j \in 1 .. n
    <3>1. /\ q[j] = Encode(x, MessagePacket(s[msg[j]]))[prt[j]]
          /\ \/ /\ prt[j - 1] < CountAt(x, s, msg[j - 1])
                /\ msg[j] = msg[j - 1] /\ prt[j] = prt[j - 1] + 1
             \/ /\ prt[j - 1] = CountAt(x, s, msg[j - 1])
                /\ msg[j] = msg[j - 1] + 1 /\ prt[j] = 1
      BY <1>0, <2>1, Zenon DEF Line, n
    <3>2. j \in 0 .. n /\ j - 1 \in 0 .. n
      BY <1>1, <2>1
    <3>3. /\ m2[j] = msg[j] /\ p2[j] = prt[j] /\ m2[j - 1] = msg[j - 1] /\ p2[j - 1] = prt[j - 1]
          /\ r[j] = q[j]
      BY <1>1, <1>5, <2>1, <3>2, Zenon
    <3>4. msg[j] \in 0 .. a /\ msg[j - 1] \in 0 .. a /\ prt[j - 1] \in Nat
      BY <1>3, <3>2, Zenon
    <3>5. msg[j] \in 1 .. a
      <4>1. msg[j - 1] = 0 => CountAt(x, s, msg[j - 1]) = 0
        BY Zenon DEF CountAt
      <4> HIDE DEF t
      <4> QED
        BY <1>2, <3>1, <3>4, <4>1
    <3>6. t[msg[j]] = s[msg[j]] /\ CountAt(x, t, msg[j - 1]) = CountAt(x, s, msg[j - 1])
      BY <1>2, <3>4, <3>5, Zenon
    <3> QED
      BY <3>1, <3>3, <3>6, Zenon
  <2>2. CASE j \in n + 1 .. n + l
    <3>1. r[j] = Encode(x, MessagePacket(t[m2[j]]))[p2[j]]
      BY <1>1, <1>2, <1>5, <2>2, Zenon DEF fs
    <3>2. CASE j = n + 1
      <4>1. j - 1 = n /\ j - n = 1 /\ n \in 0 .. n /\ a \in 0 .. a
        BY <1>1, <1>2, <3>2
      <4>2. m2[n] = a /\ p2[n] = CountAt(x, t, a) /\ m2[j] = a + 1 /\ p2[j] = 1
        BY <1>2, <1>3, <1>5, <2>2, <4>1, Zenon
      <4>3. p2[j - 1] = CountAt(x, t, m2[j - 1]) /\ m2[j] = m2[j - 1] + 1 /\ p2[j] = 1
        BY <4>1, <4>2, Zenon
      <4> QED
        BY <3>1, <4>3, Zenon
    <3>3. CASE j # n + 1
      <4>1. j - 1 \in n + 1 .. n + l /\ j - 1 - n < l /\ j - n = j - 1 - n + 1
        BY <1>1, <2>2, <3>3
      <4>2. m2[j] = a + 1 /\ p2[j] = j - n /\ m2[j - 1] = a + 1 /\ p2[j - 1] = j - 1 - n
        BY <1>5, <2>2, <4>1, Zenon
      <4>3. p2[j - 1] < CountAt(x, t, m2[j - 1]) /\ m2[j] = m2[j - 1] /\ p2[j] = p2[j - 1] + 1
        BY <1>2, <4>1, <4>2, Zenon
      <4> QED
        BY <3>1, <4>3, Zenon
    <3> QED
      BY <3>2, <3>3, Zenon
  <2> QED
    BY <1>1, <2>1, <2>2
<1>8. Line(x, t, r, m2, p2)
  BY <1>1, <1>2, <1>4, <1>6, <1>7, Zenon DEF Line
<1>9. LineEnd(x, t, r, m2, p2)
  <2>1. PICK j \in n + 1 .. n + l : j = Len(r) /\ j - n = l
    BY <1>1
  <2>2. m2[j] = a + 1 /\ p2[j] = j - n
    BY <1>5, Zenon
  <2>3. m2[Len(r)] = Len(t) /\ p2[Len(r)] = CountAt(x, t, Len(t))
    BY <1>2, <2>1, <2>2, Zenon
  <2> QED
    BY <2>3, Zenon DEF LineEnd
<1>10. m2[0] = msg[0] /\ p2[0] = prt[0]
  BY <1>1, <1>5
<1> QED
  BY <1>0, <1>r, <1>8, <1>9, <1>10, Zenon DEF UnderAll, t

(* Nothing said, nothing heard and nothing under way.                           *)
LEMMA NothingSaid ==
    ASSUME NEW x, NEW k
    PROVE  /\ Under(x, <<>>, <<>>, 0, 0) /\ UnderAll(x, <<>>, <<>>, 0, 0)
           /\ LineStart(x, <<>>, Len(<<>>), k, 0, 0)
           /\ Len(<<>>) <= Len(<<>>) /\ \A j \in 1 .. Len(<<>>) : FALSE
<1>1. UnderAll(x, <<>>, <<>>, 0, 0) /\ Under(x, <<>>, <<>>, 0, 0)
  BY LineEmpty, LineAll, Zenon
<1>2. Len(<<>>) = 0 /\ Len(<<>>) <= Len(<<>>) /\ \A j : j \notin 1 .. 0
  BY EmptySeq
<1>3. ~(0 < CountAt(x, <<>>, 0))
  BY DEF CountAt
<1>4. LineStart(x, <<>>, 0, k, 0, 0)
  BY <1>3, Zenon DEF LineStart
<1> QED
  BY <1>1, <1>2, <1>4, Zenon

(* A queue with an empty part.                                                  *)
LEMMA QueueParts ==
    ASSUME NEW F, NEW s \in Seq(F)
    PROVE  <<>> \o s = s /\ s \o <<>> = s
  BY ConcatEmptySeq

(* Where the parser stands does not change when more is said.                   *)
LEMMA StartMore ==
    ASSUME NEW x, NEW s \in Seq(Messages), NEW a \in Messages, NEW n, NEW k,
           NEW m \in 0 .. Len(s), NEW i \in Nat, LineStart(x, s, n, k, m, i)
    PROVE  LineStart(x, Append(s, a), n, k, m, i)
<1> DEFINE t == Append(s, a)
<1>1. /\ \A j \in 1 .. Len(s) : t[j] = s[j]
      /\ CountAt(x, t, m) = CountAt(x, s, m) /\ Len(s) \in Nat
  BY SaidMore, Zenon
<1> HIDE DEF t
<1>2. CASE m = 0
  <2>1. ~(i < 0) /\ CountAt(x, s, m) = 0
    BY <1>2 DEF CountAt
  <2> QED
    BY <1>1, <2>1, Zenon DEF LineStart, t
<1>3. CASE m # 0
  <2>1. m \in 1 .. Len(s)
    BY <1>1, <1>3
  <2> QED
    BY <1>1, <2>1, Zenon DEF LineStart, t
<1> QED
  BY <1>2, <1>3, Zenon

(* The next frame of a connection is the first in hand.                         *)
LEMMA QueueTail ==
    ASSUME NEW F, NEW h \in Seq(F), NEW j \in Seq(F), h # <<>>
    PROVE  h \o j # <<>> /\ (h \o j)[1] = Head(h) /\ Tail(h \o j) = Tail(h) \o j
<1>1. /\ h \o j \in Seq(F) /\ Len(h) \in Nat /\ Len(h) > 0
      /\ Len(h \o j) = Len(h) + Len(j) /\ Len(j) \in Nat
  BY ConcatProperties, LenProperties, EmptySeq
<1>2. h \o j # <<>>
  BY <1>1, EmptySeq
<1>3. (h \o j)[1] = Head(h)
  <2>1. (h \o j)[1] = h[1]
    BY <1>1, ConcatProperties
  <2> QED
    BY <2>1
<1>4. Tail(h \o j) = Tail(h) \o j
  <2>1. /\ Tail(h) \in Seq(F) /\ Len(Tail(h)) = Len(h) - 1
        /\ \A k \in 1 .. Len(h) - 1 : Tail(h)[k] = h[k + 1]
    BY HeadTailProperties, Zenon
  <2>2. /\ Tail(h \o j) \in Seq(F) /\ Len(Tail(h \o j)) = Len(h) + Len(j) - 1
        /\ \A k \in 1 .. Len(h) + Len(j) - 1 : Tail(h \o j)[k] = (h \o j)[k + 1]
    BY <1>1, <1>2, HeadTailProperties
  <2>3. /\ Tail(h) \o j \in Seq(F) /\ Len(Tail(h) \o j) = Len(h) - 1 + Len(j)
        /\ \A k \in 1 .. Len(h) - 1 + Len(j) :
              (Tail(h) \o j)[k] = IF k <= Len(h) - 1 THEN Tail(h)[k] ELSE j[k - (Len(h) - 1)]
    BY <1>1, <2>1, ConcatProperties
  <2>4. ASSUME NEW k \in 1 .. Len(h) + Len(j) - 1 PROVE Tail(h \o j)[k] = (Tail(h) \o j)[k]
    <3>1. k + 1 \in 1 .. Len(h) + Len(j) /\ k - (Len(h) - 1) = k + 1 - Len(h)
      BY <1>1
    <3>2. (h \o j)[k + 1] = IF k + 1 <= Len(h) THEN h[k + 1] ELSE j[k + 1 - Len(h)]
      BY <3>1, ConcatProperties
    <3>3. CASE k <= Len(h) - 1
      BY <1>1, <2>1, <2>2, <2>3, <3>2, <3>3
    <3>4. CASE ~(k <= Len(h) - 1)
      BY <1>1, <2>2, <2>3, <3>1, <3>2, <3>4
    <3> QED
      BY <3>3, <3>4
  <2> QED
    BY <1>1, <2>2, <2>3, <2>4, SeqEqual
<1> QED
  BY <1>2, <1>3, <1>4, Zenon

(* The parser makes of the next frame what it would have made of it alone.      *)
LEMMA NextDecoded ==
    ASSUME NEW x \in Parsers, NEW s \in Seq(Messages), NEW n, NEW k \in Mixed(x),
           NEW m, NEW i \in Nat, LineStart(x, s, n, k, m, i),
           NEW m2 \in 1 .. Len(s), NEW i2 \in 1 .. CountAt(x, s, m2), NextPlace(x, s, m, i, m2, i2)
    PROVE  LET p == MessagePacket(s[m2])
               f == Encode(x, p)[i2]
           IN  m2 = n + 1 /\ Decode(x, k, f) = Decode(x, Kept(x, p, i2 - 1), f)
<1> DEFINE p == MessagePacket(s[m2])
           f == Encode(x, p)[i2]
<1>1. CASE i < CountAt(x, s, m)
  <2>1. m2 = m /\ i2 = i + 1 /\ m = n + 1 /\ k = Kept(x, MessagePacket(s[m]), i)
    BY <1>1, Zenon DEF NextPlace, LineStart
  <2>2. i2 - 1 = i
    BY <2>1
  <2> QED
    BY <2>1, <2>2, Zenon
<1>2. CASE ~(i < CountAt(x, s, m))
  <2>1. m2 = m + 1 /\ i2 = 1 /\ m = n
    BY <1>2, Zenon DEF NextPlace, LineStart
  <2>2. s[m2] \in Messages
    BY ElementOfSeq
  <2>3. p \in Incoming
    BY <2>2, MessageFrames, Zenon
  <2>4. Decode(x, k, Encode(x, p)[1]) = Decode(x, Idle, Encode(x, p)[1])
    BY <2>3, MixtureAssumption, Zenon
  <2>5. i2 - 1 = 0
    BY <2>1
  <2>6. Kept(x, p, 0) = Idle
    BY Zenon DEF Kept
  <2> QED
    BY <2>1, <2>4, <2>5, <2>6, Zenon
<1> QED
  BY <1>1, <1>2, Zenon

(* The parser finds a packet at its last frame, and not before.                 *)
LEMMA ParserFinds ==
    ASSUME NEW x \in Parsers, NEW p \in Incoming \cup Outgoing, NEW i \in 1 .. Len(Encode(x, p)), NEW r,
           r = Decode(x, Kept(x, p, i - 1), Encode(x, p)[i])
    PROVE  /\ i < Len(Encode(x, p)) => Keeps(r) = Kept(x, p, i) /\ r.packet = <<>>
           /\ ~(i < Len(Encode(x, p))) => r.packet = <<r.packet[1]>> /\ Plain(r.packet[1]) = p
<1>1. \A y \in Parsers, z \in Incoming \cup Outgoing : \A j \in 1 .. Len(Encode(y, z)) :
         LET u == Decode(y, Kept(y, z, j - 1), Encode(y, z)[j])
         IN  IF j < Len(Encode(y, z))
               THEN Keeps(u) = Kept(y, z, j) /\ u.packet = <<>> /\ u.pending # <<>>
               ELSE Keeps(u) = Idle /\ u.packet = <<u.packet[1]>> /\ Plain(u.packet[1]) = z
  BY ParserAssumption, Zenon
<1>2. LET u == Decode(x, Kept(x, p, i - 1), Encode(x, p)[i])
      IN  IF i < Len(Encode(x, p))
            THEN Keeps(u) = Kept(x, p, i) /\ u.packet = <<>> /\ u.pending # <<>>
            ELSE Keeps(u) = Idle /\ u.packet = <<u.packet[1]>> /\ Plain(u.packet[1]) = p
  BY <1>1, Zenon
<1> QED
  BY <1>2, Zenon
=============================================================================
