---------------------------- MODULE PacketTypes ----------------------------
(***************************************************************************)
(* Socket.IO packets (include/sioxx/packet.hpp) and what a parser has after   *)
(* a frame.  std::optional is a sequence of length at most one.              *)
(***************************************************************************)
EXTENDS Integers, Sequences

CONNECT       == 0
DISCONNECT    == 1
EVENT         == 2
ACK           == 3
CONNECT_ERROR == 4
BINARY_EVENT  == 5
BINARY_ACK    == 6

Null == <<"null">>
Packet(type, nsp, id, data) == [type |-> type, nsp |-> nsp, id |-> id, data |-> data]

\* BINARY_EVENT and BINARY_ACK are how an EVENT or an ACK with attachments is sent.
PlainType(type) == IF type = BINARY_EVENT THEN EVENT ELSE IF type = BINARY_ACK THEN ACK ELSE type
Plain(p) == Packet(PlainType(p.type), p.nsp, p.id, p.data)

\* What a parser has after a frame: the packet it returns, if any, and what it
\* keeps: the header of a binary packet and the attachments that have arrived.
Idle == [packet |-> <<>>, pending |-> <<>>, attachments |-> <<>>]
Returns(p) == [Idle EXCEPT !.packet = <<p>>]
Keeps(r)   == [r EXCEPT !.packet = <<>>]
=============================================================================
