------------------------------- MODULE Codec -------------------------------
(***************************************************************************)
(* What a Socket.IO packet looks like on the way: the parsers                *)
(* (src/json_parser.cpp, src/msgpack_parser.cpp) between packets and frames,   *)
(* and the Engine.IO framing (src/engineio_client.cpp, the payload helpers of   *)
(* src/http_polling_transport.cpp) between frames and what is on the wire.     *)
(*                                                                         *)
(* A JSON value is a tuple that begins with its kind: <<"null">>,              *)
(* <<"string", s>>, <<"binary", bytes>>, <<"array", values>>, <<"object",        *)
(* values>> (the keys do not matter), and <<"placeholder", i>> for an object    *)
(* with "_placeholder": true, i its "num" or -1 where that is no index.        *)
(* Text is a sequence of tokens, which are tuples that begin with their kind:   *)
(* <<"digit", d>>, <<"-">>, <<"nsp", name>>, <<",">>, <<"json", value>>, ...     *)
(* A frame is [binary, body]; the body is text, or a sequence of bytes, or      *)
(* what MessagePack makes of a packet.                                       *)
(***************************************************************************)
EXTENDS PacketTypes, Numeric, SequencesExt

CONSTANT IntMax      \* std::numeric_limits<int>::max()

IsContainer(value) == value[1] \in {"array", "object"}
MapSeq(Op(_), s) == [i \in DOMAIN s |-> Op(s[i])]

\* The value with placeholders for its binary parts, and these after the attachments.
RECURSIVE deconstruct_binary(_, _)
deconstruct_binary(value, attachments) ==
    CASE value[1] = "binary" ->
            <<<<"placeholder", Len(attachments)>>, Append(attachments, value[2])>>
      [] IsContainer(value) ->
            LET Child(done, child) ==
                    LET d == deconstruct_binary(child, done[2])
                    IN  <<Append(done[1], d[1]), d[2]>>
                all == FoldLeft(Child, <<<<>>, attachments>>, value[2])
            IN  <<<<value[1], all[1]>>, all[2]>>
      [] OTHER -> <<value, attachments>>

\* collect_placeholder_indices: the indices in a value, from left to right.
RECURSIVE PlaceholderIndices(_)
PlaceholderIndices(value) ==
    CASE value[1] = "placeholder" -> <<value[2]>>
      [] IsContainer(value)       -> FlattenSeq(MapSeq(PlaceholderIndices, value[2]))
      [] OTHER                    -> <<>>

\* Each attachment is referred to once.
has_valid_placeholders(data, count) ==
    LET indices == PlaceholderIndices(data)
    IN  Len(indices) = count /\ ToSet(indices) = 0 .. count - 1

RECURSIVE reconstruct_binary(_, _)
reconstruct_binary(value, attachments) ==
    LET Child(child) == reconstruct_binary(child, attachments)
    IN  CASE value[1] = "placeholder" -> <<"binary", attachments[value[2] + 1]>>
          [] IsContainer(value)       -> <<value[1], MapSeq(Child, value[2])>>
          [] OTHER                    -> value
-----------------------------------------------------------------------------
(* json_parser                                                                 *)

\* std::to_string
RECURSIVE Decimal(_)
Decimal(n) == IF n < 10 THEN <<<<"digit", n>>>>
                        ELSE Append(Decimal(n \div 10), <<"digit", n % 10>>)

parse_nonnegative_int(text) ==
    LET Digit(result, token) ==
            IF token[1] = "digit" THEN AppendDigit(result, token[2], IntMax) ELSE -1
    IN  IF text = <<>> THEN -1 ELSE FoldLeft(Digit, 0, text)

Text(tokens) == [binary |-> FALSE, body |-> tokens]
Bytes(bytes) == [binary |-> TRUE, body |-> bytes]

\* The header, and a frame for each attachment.
json_encode(p) ==
    LET parts == IF p.type \in {EVENT, BINARY_EVENT, ACK, BINARY_ACK}
                   THEN deconstruct_binary(p.data, <<>>)
                   ELSE <<p.data, <<>>>>
        data  == parts[1]
        count == Len(parts[2])
        type  == CASE p.type \in {EVENT, BINARY_EVENT} -> IF count = 0 THEN EVENT ELSE BINARY_EVENT
                   [] p.type \in {ACK, BINARY_ACK}     -> IF count = 0 THEN ACK ELSE BINARY_ACK
                   [] OTHER                            -> p.type
        header == Decimal(type)
                    \o (IF count = 0 THEN <<>> ELSE Append(Decimal(count), <<"-">>))
                    \o (IF p.nsp = "/" THEN <<>> ELSE <<<<"nsp", p.nsp>>, <<",">>>>)
                    \o (IF p.id < 0 THEN <<>> ELSE Decimal(p.id))
                    \o (IF data = Null THEN <<>> ELSE <<<<"json", data>>>>)
    IN  <<Text(header)>> \o MapSeq(Bytes, parts[2])

\* The parts of a header, from left to right; one that is not well-formed is dropped.
\* p is the packet so far, text what follows.
IsBinary(type) == type \in {BINARY_EVENT, BINARY_ACK}
From(text, i)  == SubSeq(text, i, Len(text))

DecodeData(p, count, text) ==
    IF text # <<>> /\ (Len(text) > 1 \/ text[1][1] # "json") THEN Idle
    ELSE LET q == [p EXCEPT !.data = IF text = <<>> THEN Null ELSE text[1][2]]
         IN  IF ~IsBinary(q.type) THEN Returns(q)
             ELSE IF has_valid_placeholders(q.data, count)
                    THEN [Idle EXCEPT !.pending = <<[packet |-> q, count |-> count]>>]
                    ELSE Idle

DecodeId(p, count, text) ==
    LET IsOther(token) == token[1] # "digit"
        other  == SelectInSeq(text, IsOther)
        digits == IF other = 0 THEN text ELSE SubSeq(text, 1, other - 1)
        id     == parse_nonnegative_int(digits)
    IN  IF digits # <<>> /\ id < 0 THEN Idle
        ELSE DecodeData([p EXCEPT !.id = id], count, From(text, Len(digits) + 1))

DecodeNamespace(p, count, text) ==
    LET IsComma(token) == token[1] = ","
        comma == SelectInSeq(text, IsComma)
        named == text # <<>> /\ text[1][1] = "nsp"
    IN  DecodeId([p EXCEPT !.nsp = IF named THEN text[1][2] ELSE "/"], count,
                 CASE ~named -> text [] named /\ comma = 0 -> <<>> [] OTHER -> From(text, comma + 1))

DecodeHeader(text) ==
    LET IsDash(token) == token[1] = "-"
        type  == text[1][2]
        dash  == SelectInSeq(text, IsDash)
        count == IF IsBinary(type) THEN parse_nonnegative_int(SubSeq(text, 2, dash - 1)) ELSE 0
    IN  IF \/ text = <<>> \/ text[1][1] # "digit" \/ type \notin 0 .. 6
           \/ IsBinary(type) /\ (dash = 0 \/ count <= 0)
          THEN Idle
          ELSE DecodeNamespace(Packet(type, "/", -1, Null), count,
                               From(text, IF IsBinary(type) THEN dash + 1 ELSE 2))

\* A text frame ends the wait for attachments; a binary frame is one of these.
json_decode(kept, frame) ==
    LET attachments == Append(kept.attachments, frame.body)
        header      == kept.pending[1]
    IN  IF ~frame.binary THEN DecodeHeader(frame.body)
          ELSE IF kept.pending = <<>> THEN Idle
          ELSE IF Len(attachments) < header.count
                 THEN [kept EXCEPT !.packet = <<>>, !.attachments = attachments]
                 ELSE Returns([header.packet EXCEPT !.data = reconstruct_binary(@, attachments)])
-----------------------------------------------------------------------------
(* msgpack_parser: a packet is one binary frame, a map without the fields that the  *)
(* packet does not use.  The bytes are those of the JSON library.                  *)

msgpack_encode(p) ==
    LET fields == {"type", "nsp"} \cup (IF p.id >= 0 THEN {"id"} ELSE {})
                                  \cup (IF p.data # Null THEN {"data"} ELSE {})
    IN  <<Bytes(<<"map", [f \in fields |-> p[f]]>>)>>

msgpack_decode(frame) ==
    LET object == frame.body[2]
        Value(f, default) == IF f \in DOMAIN object THEN object[f] ELSE default
    IN  IF ~frame.binary THEN Idle
        ELSE Returns(Packet(Value("type", 0), Value("nsp", "/"), Value("id", -1),
                            Value("data", Null)))
-----------------------------------------------------------------------------
(* The parser that a client was made with.                                        *)

parser_encode(parser, p) == IF parser = "json" THEN json_encode(p) ELSE msgpack_encode(p)
parser_decode(parser, kept, frame) ==
    IF parser = "json" THEN json_decode(kept, frame) ELSE msgpack_decode(frame)
-----------------------------------------------------------------------------
(* Engine.IO: a text frame is a MESSAGE packet, "4" and the text.  A WebSocket     *)
(* message carries one packet; a polling body carries packets that are separated  *)
(* by RS, binary ones in base64.                                                *)

Pad == <<"pad">>
Sextet(n) == <<"base64", n>>

\* One group of base64_encode, of three bytes or the one or two that are left.
EncodeGroup(group) ==
    LET at(i)  == IF i <= Len(group) THEN group[i] ELSE 0
        value  == at(1) * 65536 + at(2) * 256 + at(3)
    IN  <<Sextet(value \div 262144), Sextet((value \div 4096) % 64),
          IF Len(group) > 1 THEN Sextet((value \div 64) % 64) ELSE Pad,
          IF Len(group) > 2 THEN Sextet(value % 64) ELSE Pad>>

DecodeGroup(group) ==
    LET at(i)  == IF group[i] = Pad THEN 0 ELSE group[i][2]
        value  == at(1) * 262144 + at(2) * 4096 + at(3) * 64 + at(4)
    IN  <<value \div 65536>>
          \o (IF group[3] # Pad THEN <<(value \div 256) % 256>> ELSE <<>>)
          \o (IF group[4] # Pad THEN <<value % 256>> ELSE <<>>)

\* A sequence in groups of n, the last of which may be shorter.
Groups(s, n) == [g \in 1 .. (Len(s) + n - 1) \div n |->
                    SubSeq(s, n * (g - 1) + 1, AtMost(n * g, Len(s)))]

base64_encode(bytes)  == FlattenSeq(MapSeq(EncodeGroup, Groups(bytes, 3)))
base64_decode(digits) == FlattenSeq(MapSeq(DecodeGroup, Groups(digits, 4)))

\* engineio_client::send marks text as a MESSAGE; handle_transport_message takes the
\* mark off, and passes binary frames on as they are.
Message == <<"4">>
EngineSend(frame)    == IF frame.binary THEN frame ELSE Text(<<Message>> \o frame.body)
EngineReceive(frame) == IF frame.binary THEN frame ELSE Text(Tail(frame.body))

\* polling_encode_binary, and what deliver() makes of a packet.
BinaryMark == <<"b">>
PollingPacket(frame) ==
    IF frame.binary THEN <<BinaryMark>> \o base64_encode(frame.body) ELSE frame.body
PollingFrame(packet) ==
    IF packet[1] = BinaryMark THEN Bytes(base64_decode(Tail(packet))) ELSE Text(packet)

Separator == <<"RS">>
polling_join(packets) ==
    LET Joined(body, packet) == IF body = <<>> THEN packet ELSE body \o <<Separator>> \o packet
    IN  FoldLeft(Joined, <<>>, packets)

\* What lies between the separators; empty packets are skipped.
polling_split_payload(body) ==
    LET IsEnd(i) == i \in {0, Len(body) + 1} \/ body[i] = Separator
        ends == SelectSeq([i \in 1 .. Len(body) + 2 |-> i - 1], IsEnd)
        IsPacket(packet) == packet # <<>>
    IN  SelectSeq([k \in 1 .. Len(ends) - 1 |-> SubSeq(body, ends[k] + 1, ends[k + 1] - 1)], IsPacket)

\* What arrives of the frames that the server sends in one WebSocket message or one
\* polling body.
carry(channel, frames) ==
    LET sent == MapSeq(EngineSend, frames)
        read == IF channel = "polling"
                  THEN MapSeq(PollingFrame, polling_split_payload(
                                  polling_join(MapSeq(PollingPacket, sent))))
                  ELSE sent
    IN  MapSeq(EngineReceive, read)
=============================================================================
