------------------------------- MODULE Frames -------------------------------
(***************************************************************************)
(* Packets between the server and the listeners of one client, across         *)
(* connections: the parser that all engines share, send_packet with            *)
(* send_mutex_ and on_engineio_frame (src/client.cpp), the listeners of a        *)
(* namespace and dispatch_event with its acknowledgement (src/socket.cpp),       *)
(* over any formats that meet the assumptions below.  Codec has those of the    *)
(* client, and MCFrames puts them in.                                        *)
(*                                                                         *)
(* Each connection c has an engine and a thread that delivers its frames.      *)
(* Threads of the application emit events and acknowledge those of the         *)
(* server.  Buffering, deadlines and reconnection are in Socket and Client.     *)
(*                                                                         *)
(* An operator whose name ends in _Bug is a plausible mistake in the code     *)
(* of the definition that follows it; no specification uses one.              *)
(***************************************************************************)
EXTENDS PacketTypes, FiniteSets, Functions

CONSTANTS Sockets,         \* namespaces with a socket
          Event,           \* the name of an event with a named listener
          Messages,        \* what the server says: [op, nsp, name, data, id]
          Emissions,       \* packets the application emits
          Reply,           \* the reply of an acknowledgement
          Encode(_, _),    \* the frames that a parser makes of a packet
          Decode(_, _, _), \* what a parser has after a frame, given what it kept
          Carry(_, _),     \* what arrives on a channel of frames that were sent together
          MaxConnections,  \* bound: engines made
          MaxTraffic,      \* bound: events emitted, and messages of the server except
                           \* its answers to CONNECT
          MaxBody          \* bound: packets in a polling body

Connections == 1 .. MaxConnections
Emitter == MaxConnections + 1
Replier == MaxConnections + 2
Threads == Connections \cup {Emitter, Replier}
Nobody  == 0

Parsers  == {"json", "msgpack"}
Channels == {"websocket", "polling"}
-----------------------------------------------------------------------------
(* The packets of both sides.                                                  *)

\* The packet that says m.
MessagePacket(m) ==
    CASE m.op = "connect"    -> Packet(CONNECT, m.nsp, -1, m.data)
      [] m.op = "disconnect" -> Packet(DISCONNECT, m.nsp, -1, m.data)
      [] m.op = "error"      -> Packet(CONNECT_ERROR, m.nsp, -1, m.data)
      [] m.op = "ack"        -> Packet(ACK, m.nsp, m.id, m.data)
      [] m.op = "event"      -> Packet(EVENT, m.nsp, m.id,
                                       <<"array", <<<<"string", m.name>>>> \o m.data[2]>>)

\* socket::connect
ConnectPacket(nsp) == Packet(CONNECT, nsp, -1, Null)

\* send_ack: the reply as an array.
AckPacket(nsp, id) ==
    Packet(ACK, nsp, id, CASE Reply[1] = "array" -> Reply
                           [] Reply = Null       -> <<"array", <<>>>>
                           [] OTHER              -> <<"array", <<Reply>>>>)

Incoming == {MessagePacket(m) : m \in Messages}
Outgoing == {ConnectPacket(nsp) : nsp \in Sockets} \cup Emissions
             \cup {AckPacket(m.nsp, m.id) : m \in Messages}
-----------------------------------------------------------------------------
(* What is assumed of the messages and of the formats.                           *)

\* What a parser keeps after the first i frames of a packet, the last one excepted.
Kept(x, p, i) ==
    IF i = 0 THEN Idle
    ELSE [Decode(x, Idle, Encode(x, p)[1]) EXCEPT
             !.attachments = [k \in 1 .. i - 1 |-> Encode(x, p)[k + 1].body]]

\* The frames of the server, each by its packet and its place there.
Places(x)   == UNION {{p} \X (1 .. Len(Encode(x, p))) : p \in Incoming}
Frame(x, a) == Encode(x, a[1])[a[2]]

\* What a parser may keep when frames of the server reach it in any order: a header, with
\* fewer attachments than it asks for, of whatever packets.
Attachments(x)  == UNION {{Encode(x, p)[i].body : i \in 2 .. Len(Encode(x, p))} : p \in Incoming}
Mixed(x) == {Idle} \cup
    UNION {{[Kept(x, p, 1) EXCEPT !.attachments = s] :
               s \in UNION {[1 .. n -> Attachments(x)] : n \in 0 .. Len(Encode(x, p)) - 2}}
             : p \in {q \in Incoming : Len(Encode(x, q)) > 1}}

ASSUME BoundAssumption == MaxConnections \in Nat /\ MaxBody \in Nat \ {0} /\ IsFiniteSet(Sockets)

IsSequence(s) == Len(s) \in Nat /\ s = [i \in 1 .. Len(s) |-> s[i]]

\* The fields of a message are those its packet has.
ASSUME MessageAssumption ==
    \A m \in Messages :
       /\ m = [op |-> m.op, nsp |-> m.nsp, name |-> m.name, data |-> m.data, id |-> m.id]
       /\ m.op \in {"connect", "disconnect", "error", "ack", "event"}
       /\ m.id \in Int
       /\ m.op \in {"connect", "disconnect", "error"} => m.id = -1
       /\ m.op = "ack" => m.id >= 0
       /\ m.op # "event" => m.name = (IF m.op = "error" THEN "connect_error" ELSE "")
       /\ m.op = "event" => m.data = <<"array", m.data[2]>> /\ IsSequence(m.data[2])

\* Frame by frame, decode finds the packet that was encoded.
ASSUME ParserAssumption ==
    \A x \in Parsers, p \in Incoming \cup Outgoing :
       LET fs == Encode(x, p) IN
       /\ IsSequence(fs) /\ Len(fs) > 0
       /\ \A i \in 1 .. Len(fs) :
             LET r == Decode(x, Kept(x, p, i - 1), fs[i])
             IN  IF i < Len(fs)
                   THEN Keeps(r) = Kept(x, p, i) /\ r.packet = <<>> /\ r.pending # <<>>
                   ELSE Keeps(r) = Idle /\ r.packet = <<r.packet[1]>> /\ Plain(r.packet[1]) = p

\* The first frame of a packet ends the wait for more of another one.  Mixed frames
\* lead to no packet but those for whom and with the ids that the server named.
ASSUME MixtureAssumption ==
    \A x \in Parsers : \A k \in Mixed(x) :
       /\ k.packet = <<>> /\ Len(k.pending) <= 1
       /\ \A p \in Incoming : Decode(x, k, Encode(x, p)[1]) = Decode(x, Idle, Encode(x, p)[1])
       /\ \A a \in Places(x) :
             LET r == Decode(x, k, Frame(x, a))
             IN  /\ Keeps(r) \in Mixed(x)
                 /\ \/ r.packet = <<>>
                    \/ /\ r.packet = <<r.packet[1]>>
                       /\ \E m \in Messages : r.packet[1].nsp = m.nsp /\ r.packet[1].id = m.id

\* A channel carries the frames as they are.
ASSUME ChannelAssumption ==
    \A x \in Parsers, channel_ \in Channels : (x = "msgpack" => channel_ = "websocket") =>
       \A n \in 1 .. MaxBody : \A places \in [1 .. n -> Places(x)] :
          LET fs == [i \in 1 .. n |-> Frame(x, places[i])]
          IN  (channel_ = "websocket" => n = 1) => Carry(channel_, fs) = fs
-----------------------------------------------------------------------------
VARIABLES parser,     \* parser_: "json" or "msgpack"
          channel,    \* the transport: "websocket" or "polling"
          current,    \* engineio_, 0 before the first
          link,       \* of each connection: "none", "connecting", "open" (open_), "lost"
          inbox,      \* frames the server has sent on it and that are not read yet
          hand,       \* frames its thread has read and not looked at yet
          kept,       \* the pending header and attachments of the parser
          connected,  \* the sockets with connected_
          closures,   \* reply callbacks made: [event, id, nsp, sent]
          lock,       \* the thread that holds send_mutex_
          pc,         \* where each thread stands
          job,        \* the packets a thread has to send
          engine,     \* the engine it sends to, read once
          part,       \* how many frames of the packet the engine has got
          traffic,    \* what counts for MaxTraffic so far
          said,       \* history: messages of the server on a connection
          calls,      \* history: for each packet decoded, the call of a socket, if any
          server,     \* history: what the server makes of the frames written on it
          begun,      \* history: packets whose first frame was written on it
          replies,    \* history: events for which a reply was sent
          crossed,    \* history: an engine was replaced between the test and the decoding
          torn        \* history: an engine opened between two frames of a packet

inbound   == <<inbox, hand, kept, said, calls, crossed>>
outbound  == <<lock, engine, part, server, begun, torn>>
app       == <<closures, replies>>
config    == <<parser, channel>>
vars      == <<config, current, link, connected, inbound, outbound, app, pc, job, traffic>>

Goto(t, l) == pc' = [pc EXCEPT ![t] = l]

\* What a server has found in the frames of a connection: what its parser keeps, the
\* packets, and whether it understood every frame.
Hearing == [kept |-> Idle, packets |-> <<>>, ok |-> TRUE]
Hears(heard, frame) ==
    LET r == Decode(parser, heard.kept, frame)
    IN  [kept |-> Keeps(r),
         packets |-> heard.packets \o r.packet,
         ok |-> heard.ok /\ (r.packet # <<>> \/ r.pending # <<>>)]

Init ==
    /\ parser \in Parsers /\ channel \in Channels
    /\ parser = "msgpack" => channel = "websocket"
    /\ current = 0 /\ link = [c \in Connections |-> "none"]
    /\ inbox = [c \in Connections |-> <<>>] /\ hand = inbox /\ kept = Idle
    /\ connected = {}
    /\ closures = <<>>
    /\ lock = Nobody /\ pc = [t \in Threads |-> "idle"]
    /\ job = [t \in Threads |-> <<>>] /\ engine = [t \in Threads |-> 0]
    /\ part = [t \in Threads |-> 0]
    /\ traffic = 0
    /\ said = inbox /\ calls = inbox /\ begun = inbox
    /\ server = [c \in Connections |-> Hearing]
    /\ replies = <<>> /\ crossed = FALSE /\ torn = FALSE
-----------------------------------------------------------------------------
(* send_packet, on any thread.                                                  *)

\* The thread hands packets to send_packet.
Sends(t, packets) ==
    /\ job' = [job EXCEPT ![t] = packets]
    /\ Goto(t, IF packets = <<>> THEN "check" ELSE "lock")

\* Where a thread goes on after a packet.
After(t) == IF Len(job[t]) > 1 THEN "lock"
            ELSE IF t \in Connections THEN "check" ELSE "idle"

\* send_mutex_ is held for one frame at a time.
SendLock_Bug(t) ==
    /\ pc[t] = "lock"
    /\ engine' = [engine EXCEPT ![t] = current]
    /\ Goto(t, "send")
    /\ UNCHANGED <<config, current, link, connected, inbound, lock, part, server, begun, torn, app, job, traffic>>

\* With send_mutex_: the engine of the moment gets all the frames.
SendLock(t) ==
    /\ pc[t] = "lock" /\ lock = Nobody /\ current # 0
    /\ lock' = t
    /\ engine' = [engine EXCEPT ![t] = current]
    /\ Goto(t, "send")
    /\ UNCHANGED <<config, current, link, connected, inbound, part, server, begun, torn, app, job, traffic>>

\* Each frame goes to the engine that is the current one then.
SendFrame_Bug(t) ==
    LET e     == current
        all   == Encode(parser, job[t][1])
        first == part[t] = 0
        done  == part[t] + 1 = Len(all)
        opened == link[e] = "open"
    IN  /\ pc[t] = "send"
        /\ server' = IF opened THEN [server EXCEPT ![e] = Hears(@, all[part[t] + 1])] ELSE server
        /\ begun' = IF opened /\ first THEN [begun EXCEPT ![e] = Append(@, job[t][1])] ELSE begun
        /\ part' = [part EXCEPT ![t] = IF done THEN 0 ELSE @ + 1]
        /\ lock' = IF done THEN Nobody ELSE lock
        /\ engine' = IF done THEN [engine EXCEPT ![t] = 0] ELSE engine
        /\ job' = IF done THEN [job EXCEPT ![t] = Tail(@)] ELSE job
        /\ Goto(t, IF done THEN After(t) ELSE "send")
        /\ UNCHANGED <<config, current, link, connected, inbound, torn, app, traffic>>

\* engineio_client::send: a frame for an engine that is not open is dropped.
SendFrame(t) ==
    LET e     == engine[t]
        all   == Encode(parser, job[t][1])
        first == part[t] = 0
        done  == part[t] + 1 = Len(all)
        opened == link[e] = "open"
    IN  /\ pc[t] = "send"
        /\ server' = IF opened THEN [server EXCEPT ![e] = Hears(@, all[part[t] + 1])] ELSE server
        /\ begun' = IF opened /\ first THEN [begun EXCEPT ![e] = Append(@, job[t][1])] ELSE begun
        /\ part' = [part EXCEPT ![t] = IF done THEN 0 ELSE @ + 1]
        /\ lock' = IF done THEN Nobody ELSE lock
        /\ engine' = IF done THEN [engine EXCEPT ![t] = 0] ELSE engine
        /\ job' = IF done THEN [job EXCEPT ![t] = Tail(@)] ELSE job
        /\ Goto(t, IF done THEN After(t) ELSE "send")
        /\ UNCHANGED <<config, current, link, connected, inbound, torn, app, traffic>>
-----------------------------------------------------------------------------
(* Connections.                                                                *)

\* The end of a connection: open_ is cleared and what is under way is lost.  Its
\* histories are forgotten, which nothing can add to, except that its thread may be busy.
Forget(c) == said' = [said EXCEPT ![c] = <<>>] /\ calls' = [calls EXCEPT ![c] = <<>>]
Ends(c) == /\ inbox' = [inbox EXCEPT ![c] = <<>>]
           /\ server' = [server EXCEPT ![c] = Hearing] /\ begun' = [begun EXCEPT ![c] = <<>>]
           /\ IF pc[c] = "idle" THEN Forget(c) ELSE UNCHANGED <<said, calls>>
           /\ UNCHANGED <<config, hand, kept, crossed, lock, engine, part, torn, app,
                          pc, job, traffic>>

\* A thread has a shared_ptr to the engine.
InUse(c) == pc[c] # "idle" \/ \E t \in Threads : pc[t] = "send" /\ engine[t] = c

\* ensure_engineio, at any time: after a loss, or because connect() is called again.  The
\* previous engine is destroyed and its connection closed, unless a thread still uses it.
NewEngine ==
    LET old == {c \in {current} \cap Connections : link[c] # "lost" /\ ~InUse(c)}
    IN  /\ current < MaxConnections
        /\ current' = current + 1
        /\ link' = [c \in Connections |-> IF c = current + 1 THEN "connecting"
                                           ELSE IF c \in old THEN "lost" ELSE link[c]]
        /\ IF old = {}
             THEN UNCHANGED <<config, inbound, outbound, app, pc, job, traffic>>
             ELSE Ends(current)
        /\ UNCHANGED connected

\* The OPEN packet of the server sets open_.
Opened(c) ==
    /\ link[c] = "connecting" /\ pc[c] = "idle"
    /\ link' = [link EXCEPT ![c] = "open"]
    /\ torn' = (torn \/ \E t \in Threads : pc[t] = "send" /\ engine[t] = c /\ part[t] > 0)
    /\ Goto(c, "opened")
    /\ UNCHANGED <<config, current, connected, inbound, lock, engine, part, server, begun, app, job, traffic>>

\* on_engineio_open of the current engine announces every namespace.
Announce(c) ==
    /\ pc[c] = "opened"
    /\ \E order \in Bijection(1 .. Cardinality(Sockets), Sockets) :
          Sends(c, IF current = c THEN [i \in DOMAIN order |-> ConnectPacket(order[i])] ELSE <<>>)
    /\ UNCHANGED <<config, current, link, connected, inbound, outbound, app, traffic>>

\* A connection ends: its own thread finds out, or the write thread of a polling
\* transport, or it was replaced and its last user has let go of it.  Only the end of
\* the current one concerns the sockets.
Lost(c) ==
    /\ link[c] \in {"connecting", "open"}
    /\ \/ current = c /\ (pc[c] = "idle" \/ channel = "polling")
       \/ current # c /\ ~InUse(c)
    /\ link' = [link EXCEPT ![c] = "lost"]
    /\ connected' = IF current = c THEN {} ELSE connected
    /\ Ends(c)
    /\ UNCHANGED current
-----------------------------------------------------------------------------
(* The server.                                                                 *)

\* The server answers a CONNECT once; then it speaks in that namespace while it is
\* connected, and in those without a socket.
MaySay(c, m) ==
    LET Mine(s) == s.nsp = m.nsp
        before  == SelectSeq(said[c], Mine)
    IN  IF m.op \in {"connect", "error"}
          THEN before = <<>> /\ ConnectPacket(m.nsp) \in Range(begun[c])
          ELSE /\ said[c] # <<>>
               /\ m.nsp \in Sockets => /\ before # <<>> /\ before[1].op = "connect"
                                       /\ before[Len(before)].op # "disconnect"

\* What the server sends while the thread of the connection is busy is counted as
\* sent when the thread is back.
ServerSays(c) ==
    /\ current = c /\ link[c] = "open" /\ pc[c] = "idle"
    /\ \E m \in Messages :
          /\ MaySay(c, m)
          /\ traffic' = IF m.op \in {"connect", "error"} THEN traffic ELSE traffic + 1
          /\ traffic' <= MaxTraffic
          /\ said' = [said EXCEPT ![c] = Append(@, m)]
          /\ inbox' = [inbox EXCEPT ![c] = @ \o Encode(parser, MessagePacket(m))]
    /\ UNCHANGED <<config, current, link, connected, hand, kept, calls, crossed, outbound,
                   app, pc, job>>
-----------------------------------------------------------------------------
(* The thread of a connection delivers frames.                                   *)

\* Of a polling body, only the first packet is delivered.
Receive_Bug(c) ==
    /\ current = c /\ pc[c] = "idle" /\ inbox[c] # <<>>
    /\ \E n \in 1 .. MaxBody \cap DOMAIN inbox[c] :
          /\ channel = "websocket" => n = 1
          /\ hand' = [hand EXCEPT ![c] = <<Carry(channel, SubSeq(inbox[c], 1, n))[1]>>]
          /\ inbox' = [inbox EXCEPT ![c] = SubSeq(@, n + 1, Len(@))]
    /\ Goto(c, "decode")
    /\ UNCHANGED <<config, current, link, connected, kept, said, calls, crossed, outbound,
                   app, job, traffic>>

\* A WebSocket message, or the packets of a polling body, is read, and
\* handle_engineio_frame finds its engine to be the current one; what a replaced one
\* reads is dropped.
Receive(c) ==
    /\ current = c /\ pc[c] = "idle" /\ inbox[c] # <<>>
    /\ \E n \in 1 .. MaxBody \cap DOMAIN inbox[c] :
          /\ channel = "websocket" => n = 1
          /\ hand' = [hand EXCEPT ![c] = Carry(channel, SubSeq(inbox[c], 1, n))]
          /\ inbox' = [inbox EXCEPT ![c] = SubSeq(@, n + 1, Len(@))]
    /\ Goto(c, "decode")
    /\ UNCHANGED <<config, current, link, connected, kept, said, calls, crossed, outbound,
                   app, job, traffic>>

\* The next packet: deliver() stops when the transport is closing, handle_engineio_frame
\* returns when the engine is not the current one any more.
Check(c) ==
    /\ pc[c] = "check"
    /\ LET stop == hand[c] = <<>> \/ (channel = "polling" /\ link[c] = "lost")
       IN  /\ Goto(c, IF stop THEN "idle" ELSE IF current = c THEN "decode" ELSE "check")
           /\ hand' = [hand EXCEPT ![c] = IF stop THEN <<>> ELSE IF current = c THEN @ ELSE Tail(@)]
           /\ IF stop /\ link[c] = "lost" THEN Forget(c) ELSE UNCHANGED <<said, calls>>
    /\ UNCHANGED <<config, current, link, connected, inbox, kept, crossed, outbound, app,
                   job, traffic>>

\* The call of the socket that a packet leads to, if any.
Call(op, p, name, data, id) ==
    <<[op |-> op, nsp |-> p.nsp, name |-> name, data |-> data, id |-> id]>>

\* The first id, 0, is taken for none.
RouteAck_Bug(p) == IF p.id > 0 THEN Call("ack", p, "", p.data, p.id) ELSE <<>>

RouteAck(p) == IF p.id >= 0 THEN Call("ack", p, "", p.data, p.id) ELSE <<>>

Route(p) ==
    IF p.nsp \notin Sockets THEN <<>>
    ELSE IF p.type = CONNECT THEN Call("connect", p, "", p.data, -1)
    ELSE IF p.type = DISCONNECT THEN Call("disconnect", p, "", p.data, -1)
    ELSE IF p.type = CONNECT_ERROR THEN Call("error", p, "connect_error", p.data, -1)
    ELSE IF p.type \in {ACK, BINARY_ACK} THEN RouteAck(p)
    ELSE IF p.data[1] # "array" \/ p.data[2] = <<>> THEN <<>>
    ELSE Call("event", p, IF p.data[2][1][1] = "string" THEN p.data[2][1][2] ELSE "",
              <<"array", Tail(p.data[2])>>, p.id)

\* on_engineio_frame.  The parser is shared by the engines and has no lock.
DecodeFrame(c) ==
    LET r    == Decode(parser, kept, Head(hand[c]))
        call == IF r.packet = <<>> THEN <<>> ELSE Route(r.packet[1])
        op   == IF call = <<>> THEN "none" ELSE call[1].op
    IN  /\ pc[c] = "decode"
        /\ kept' = Keeps(r)
        /\ hand' = [hand EXCEPT ![c] = Tail(@)]
        /\ crossed' = (crossed \/ current # c)
        /\ calls' = IF r.packet = <<>> THEN calls ELSE [calls EXCEPT ![c] = Append(@, call)]
        /\ connected' = IF op = "connect" THEN connected \cup {call[1].nsp}
                        ELSE IF op = "disconnect" THEN connected \ {call[1].nsp} ELSE connected
        /\ Goto(c, IF op \in {"event", "error"} THEN "dispatch" ELSE "check")
        /\ UNCHANGED <<config, current, link, inbox, said, outbound, app, job, traffic>>
-----------------------------------------------------------------------------
(* dispatch_event, and the acknowledgement of an event of the server.             *)

\* What on(), on_any(), off() and off_all(), called at any time, can leave registered for
\* an event: a listener of one kind, with or without a reply callback, or none.
Kinds == {"none", "plain", "ack"}
Listeners(call) == [named : IF call.name = Event THEN Kinds ELSE {"none"}, any : Kinds]

\* The call that the thread is in.
Calling(c) == calls[c][Len(calls[c])][1]

Closure(c)  == LET call == Calling(c)
               IN  [event |-> <<c, Len(calls[c])>>, id |-> call.id, nsp |-> call.nsp, sent |-> FALSE]

\* Each listener gets a reply callback of its own.
Dispatch_Bug(c) ==
    /\ pc[c] = "dispatch"
    /\ \E l \in Listeners(Calling(c)) :
          LET asked == "ack" \in {l.named, l.any} /\ Calling(c).id >= 0
              made  == IF l.named = l.any THEN <<Closure(c), Closure(c)>> ELSE <<Closure(c)>>
          IN  /\ closures' = IF asked THEN closures \o made ELSE closures
              /\ \/ asked /\ Goto(c, "listening")
                 \/ Goto(c, "check")
    /\ UNCHANGED <<config, current, link, connected, inbound, outbound, replies, job, traffic>>

\* The named listener and the catch-all run, with what the mutex of the socket guarded a
\* moment ago; those that take a reply callback share one, and use it before they return
\* or not.
Dispatch(c) ==
    /\ pc[c] = "dispatch"
    /\ \E l \in Listeners(Calling(c)) :
          LET asked == "ack" \in {l.named, l.any} /\ Calling(c).id >= 0
          IN  /\ closures' = IF asked THEN Append(closures, Closure(c)) ELSE closures
              /\ \/ asked /\ Goto(c, "listening")
                 \/ Goto(c, "check")
    /\ UNCHANGED <<config, current, link, connected, inbound, outbound, replies, job, traffic>>

\* A reply callback is called, in the listener or later, on any thread, any number of
\* times: only the first call replies.
Acknowledge(t) ==
    /\ \/ t = Replier /\ pc[t] = "idle"
       \/ t \in Connections /\ pc[t] = "listening"
    /\ \E i \in DOMAIN closures :
          IF closures[i].sent
            THEN /\ Goto(t, After(t))
                 /\ UNCHANGED <<closures, replies, job>>
            ELSE /\ closures' = [closures EXCEPT ![i].sent = TRUE]
                 /\ replies' = Append(replies, closures[i].event)
                 /\ Sends(t, <<AckPacket(closures[i].nsp, closures[i].id)>>)
    /\ UNCHANGED <<config, current, link, connected, inbound, outbound, traffic>>

\* emit() on a connected namespace; otherwise the event is buffered (Socket).
Emit ==
    /\ pc[Emitter] = "idle" /\ traffic < MaxTraffic
    /\ traffic' = traffic + 1
    /\ \E p \in Emissions : p.nsp \in connected /\ Sends(Emitter, <<p>>)
    /\ UNCHANGED <<config, current, link, connected, inbound, outbound, app>>
-----------------------------------------------------------------------------
Next == \/ NewEngine \/ Emit
        \/ \E c \in Connections : \/ Opened(c) \/ Announce(c) \/ Lost(c) \/ ServerSays(c)
                                  \/ Receive(c) \/ Check(c) \/ DecodeFrame(c)
                                  \/ Dispatch(c)
        \/ \E t \in Threads : SendLock(t) \/ SendFrame(t) \/ Acknowledge(t)

Spec == Init /\ [][Next]_vars
-----------------------------------------------------------------------------
(* Every variable keeps its type.  A thread has send_mutex_ exactly while it sends, to an *)
(* engine that exists, and the parser waits for nothing but attachments of a header.    *)
TypeOK ==
    /\ current \in 0 .. MaxConnections
    /\ link \in [Connections -> {"none", "connecting", "open", "lost"}]
    /\ connected \subseteq Sockets
    /\ \A t \in Threads : /\ job[t] \in Seq(Outgoing)
                          /\ lock = t <=> pc[t] = "send"
                          /\ pc[t] = "send" => engine[t] \in 1 .. current
    /\ kept.packet = <<>> /\ Len(kept.pending) <= 1

\* The call that a message leads to, if it has a socket.
Meant(m) == IF m.nsp \in Sockets THEN <<m>> ELSE <<>>

(* The sockets hear what the server said on a connection, in its order, nothing      *)
(* twice, and no message with parts of another, whatever was cut off with an earlier *)
(* connection.  Excepted is a parser that two engines use because the first was      *)
(* replaced between is_current_engineio and decode.                                *)
DeliveredIntact ==
    crossed \/ \A c \in Connections :
       /\ Len(calls[c]) <= Len(said[c])
       /\ \A k \in DOMAIN calls[c] : calls[c][k] = Meant(said[c][k])

(* Nothing that has arrived on the current connection is left out: when its thread   *)
(* has no frame in hand, the sockets have heard everything that was read.            *)
NothingSwallowed ==
    crossed \/ \A c \in Connections :
       current = c /\ link[c] = "open" /\ pc[c] = "idle" /\ inbox[c] = <<>> =>
          calls[c] = [k \in DOMAIN said[c] |-> Meant(said[c][k])]

(* An event of the server is acknowledged at most once, although the named listener   *)
(* and the catch-all have the reply callback and any thread may call it.              *)
AckOnce == \A i, j \in DOMAIN replies : i # j => replies[i] # replies[j]

(* The server understands every frame of a connection and finds the packets that      *)
(* were sent on it, whole and in order, although threads send at the same time and    *)
(* engines come and go; only the last may be incomplete.  Excepted is an engine that  *)
(* opened between two frames of a packet, the first of which was dropped.           *)
ServerUnderstands ==
    torn \/ \A c \in Connections :
       LET found == server[c].packets
       IN  /\ server[c].ok
           /\ Len(found) \in {Len(begun[c]), Len(begun[c]) - 1}
           /\ \A k \in DOMAIN found : Plain(found[k]) = begun[c][k]
=============================================================================
