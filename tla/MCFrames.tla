------------------------------ MODULE MCFrames ------------------------------
(***************************************************************************)
(* Instances of Frames: a namespace with a socket and one without, and one    *)
(* message of each kind, with ids up to the largest int, nested and empty      *)
(* attachments and attachments of each length modulo 3.  The assumptions        *)
(* compare the pure operators with what they are for, on bounded inputs.        *)
(***************************************************************************)
EXTENDS Frames, Codec

Says(op, nsp, name, data, id) == [op |-> op, nsp |-> nsp, name |-> name, data |-> data, id |-> id]
Object(values) == <<"object", values>>
Array(values)  == <<"array", values>>
Binary(bytes)  == <<"binary", bytes>>

ConnectSaid == Says("connect", "/chat", "", Object(<<>>), -1)
BinaryEvent == Says("event", "/chat", "news",
                    Array(<<Object(<<Binary(<<255>>), Array(<<Binary(<<>>)>>)>>)>>), IntMax)
BinaryAck   == Says("ack", "/chat", "", Array(<<Binary(<<7, 200>>)>>), 0)
Elsewhere   == Says("event", "/", "news", Array(<<Binary(<<1, 2, 3, 4>>)>>), -1)
ErrorSaid   == Says("error", "/chat", "connect_error", Object(<<>>), -1)
Farewell    == Says("disconnect", "/chat", "", Null, -1)

MCMessages  == {ConnectSaid, BinaryEvent, BinaryAck, Elsewhere, ErrorSaid, Farewell}
MCEmissions == {Packet(EVENT, "/chat", -1, Array(<<<<"string", "news">>, Binary(<<9>>)>>))}
MCReply     == <<"string", "ok">>
-----------------------------------------------------------------------------
\* The delay of an attempt without jitter: the initial delay, doubled with each further
\* attempt, up to the maximum.
Doubling(initial, maximum) ==
    LET d[n \in Nat] == IF n <= 1 THEN AtMost(initial, maximum)
                                  ELSE AtMost(2 * d[n - 1], maximum)
    IN  d

(* reconnect_delay_for_attempt, for arguments inside and outside their ranges: the   *)
(* delay lies between 0 and the maximum, is the doubled delay without jitter or in    *)
(* the middle of the jitter, and grows with the attempt and with the sample.          *)
ASSUME DelayContract ==
    LET scale == 4 IN
    \A initial, maximum \in {-1, 0, 1, 3, 10}, factor, sample \in -1 .. 5, attempt \in -1 .. 6 :
       LET Delay(a, s) == ReconnectDelay(initial, maximum, factor, a, s, scale)
           high        == AtLeast(maximum, 0)
       IN  /\ Delay(attempt, sample) \in 0 .. high
           /\ factor <= 0 \/ sample = 2 =>
                 Delay(attempt, sample) = Doubling(AtLeast(initial, 0), high)[AtLeast(attempt, 0)]
           /\ Delay(attempt, sample) <= Delay(attempt + 1, sample)
           /\ Delay(attempt, sample) <= Delay(attempt, sample + 1)

(* base64_decode inverts base64_encode, for every length modulo 3.                  *)
ASSUME Base64RoundTrip ==
    \A bytes \in BoundedSeq({0, 1, 63, 64, 255}, 5) : base64_decode(base64_encode(bytes)) = bytes

\* Payloads, with user data that looks like the placeholder of an attachment left out: an
\* encoder cannot tell it from one.
Leaves   == {Null, <<"string", "x">>, Binary(<<>>), Binary(<<1, 2>>)}
Payloads == {Array(<<a, b>>) : a, b \in Leaves \cup {Array(<<x, Object(<<y>>)>>) : x, y \in Leaves}}

\* What a parser returns after the last of some frames.
Decoded(parser_, frames) ==
    LET Step(kept_, frame) == parser_decode(parser_, [kept_ EXCEPT !.packet = <<>>], frame)
    IN  FoldLeft(Step, Idle, frames)

(* decode inverts encode in both parsers, for all payloads, namespaces and ids; an      *)
(* event or an acknowledgement comes back as its binary kind when the JSON parser sent  *)
(* attachments.                                                                      *)
ASSUME PacketRoundTrip ==
    \A parser_ \in {"json", "msgpack"}, type \in {EVENT, ACK}, nsp \in {"/", "/chat"},
       id \in {-1, 0, 10}, data \in Payloads :
          LET p == Packet(type, nsp, id, data)
              d == Decoded(parser_, parser_encode(parser_, p))
          IN  Len(d.packet) = 1 /\ Plain(d.packet[1]) = p /\ d.pending = <<>>
=============================================================================
