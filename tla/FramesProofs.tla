---------------------------- MODULE FramesProofs ----------------------------
(***************************************************************************)
(* Frames, proved for all messages, numbers of connections and formats that *)
(* meet its assumptions: what the sockets hear, what the server hears, and *)
(* that an event is acknowledged once.                                     *)
(***************************************************************************)
EXTENDS FramesControlProofs
-----------------------------------------------------------------------------
(* What the server hears.                                                       *)

\* The connection has got some of the frames of a packet.
Mid(c) == lock \in Threads /\ engine[lock] = c /\ part[lock] > 0 /\ link[c] = "open"

\* The server has found what was sent on a connection, and keeps what it needs to go on.
HeardOf(c) ==
    LET found == server[c].packets
    IN  /\ server[c].ok /\ IsSequence(found)
        /\ \A k \in 1 .. Len(found) : Plain(found[k]) = begun[c][k]
        /\ IF Mid(c) THEN /\ server[c].kept = Kept(parser, job[lock][1], part[lock])
                          /\ Len(begun[c]) = Len(found) + 1
                          /\ begun[c][Len(begun[c])] = job[lock][1]
                     ELSE server[c].kept = Idle /\ Len(begun[c]) = Len(found)

OutInv == /\ DOMAIN server = Connections
          /\ begun \in [Connections -> Seq(Outgoing)]
          /\ torn \/ \A c \in Connections : HeardOf(c)

(* The server goes on with a frame.                                             *)
LEMMA HearsNext ==
    ASSUME parser \in Parsers, NEW p \in Outgoing, NEW i \in 1 .. Len(Encode(parser, p)),
           NEW h, h.ok, IsSequence(h.packets), h.kept = Kept(parser, p, i - 1)
    PROVE  LET g == Hears(h, Encode(parser, p)[i])
           IN  /\ g.ok
               /\ i < Len(Encode(parser, p)) => g.kept = Kept(parser, p, i) /\ g.packets = h.packets
               /\ ~(i < Len(Encode(parser, p))) =>
                     g.kept = Idle /\ \E q : Plain(q) = p /\ g.packets = Append(h.packets, q)
<1> DEFINE all == Encode(parser, p)
           r   == Decode(parser, Kept(parser, p, i - 1), all[i])
           g   == Hears(h, all[i])
<1>1. /\ g.ok = (h.ok /\ (r.packet # <<>> \/ r.pending # <<>>))
      /\ g.kept = Keeps(r) /\ g.packets = h.packets \o r.packet
  BY DEF Hears
<1>2. /\ i < Len(all) => Keeps(r) = Kept(parser, p, i) /\ r.packet = <<>> /\ r.pending # <<>>
      /\ ~(i < Len(all)) => Keeps(r) = Idle /\ r.packet = <<r.packet[1]>> /\ Plain(r.packet[1]) = p
  <2>1. p \in Incoming \cup Outgoing
    BY Zenon
  <2> QED
    BY <2>1, ParserAssumption, Zenon
<1> HIDE DEF all, r, g
<1>3. CASE i < Len(all)
  <2>1. h.packets \in Seq({h.packets[k] : k \in 1 .. Len(h.packets)})
    BY IsSequenceSeq
  <2>2. h.packets \o <<>> = h.packets
    BY <2>1, ConcatEmptySeq
  <2> QED
    BY <1>1, <1>2, <1>3, <2>2, Zenon DEF all, g
<1>4. CASE ~(i < Len(all))
  <2> DEFINE q == r.packet[1]
  <2>1. r.packet = <<q>> /\ Plain(q) = p /\ Keeps(r) = Idle
    BY <1>2, <1>4, Zenon
  <2> HIDE DEF q
  <2>2. r.packet # <<>>
    BY <2>1, EmptySeq
  <2>3. g.packets = Append(h.packets, q)
    BY <1>1, <2>1, ConcatOne, Zenon
  <2> QED
    BY <1>1, <1>4, <2>1, <2>2, <2>3, Zenon DEF all, g
<1> QED
  BY <1>3, <1>4, Zenon

(* A connection on which nothing is sent.                                       *)
LEMMA HeardKept ==
    ASSUME NEW c, HeardOf(c), UNCHANGED parser, server'[c] = server[c], begun'[c] = begun[c],
           Mid(c)' <=> Mid(c),
           Mid(c) => lock' = lock /\ job'[lock] = job[lock] /\ part'[lock] = part[lock]
    PROVE  HeardOf(c)'
<1>1. CASE Mid(c)
  BY <1>1, Zenon DEF HeardOf
<1>2. CASE ~Mid(c)
  BY <1>2, Zenon DEF HeardOf
<1> QED
  BY <1>1, <1>2, Zenon

(* A frame is sent.                                                             *)
LEMMA HeardSendFrame ==
    ASSUME ControlInv, OutInv, NEW t \in Threads, SendFrame(t)
    PROVE  OutInv'
<1> DEFINE e    == engine[t]
           p    == job[t][1]
           all  == Encode(parser, p)
           n    == part[t]
           done == n + 1 = Len(all)
<1>1. /\ lock = t /\ p \in Outgoing /\ e \in Connections
      /\ Len(all) \in Nat /\ n \in Nat /\ n + 1 \in 1 .. Len(all)
      /\ part' = [part EXCEPT ![t] = IF done THEN 0 ELSE n + 1]
      /\ lock' = IF done THEN Nobody ELSE lock
      /\ engine' = IF done THEN [engine EXCEPT ![t] = 0] ELSE engine
      /\ job' = IF done THEN [job EXCEPT ![t] = Tail(job[t])] ELSE job
      /\ UNCHANGED <<parser, link, torn>>
  BY SendFrameParts, Zenon
<1>2. /\ server' = IF link[e] = "open" THEN [server EXCEPT ![e] = Hears(server[e], all[n + 1])] ELSE server
      /\ begun' = IF link[e] = "open" /\ n = 0 THEN [begun EXCEPT ![e] = Append(begun[e], p)] ELSE begun
  BY DEF SendFrame
<1>3. /\ parser \in Parsers /\ part \in [Threads -> Nat] /\ Nobody \notin Threads
      /\ DOMAIN server = Connections /\ begun \in [Connections -> Seq(Outgoing)]
  BY ThreadFacts, Zenon DEF ControlInv, TypeInv, OutInv
<1> HIDE DEF e, p, all, n, done
<1>4. part'[t] = IF done THEN 0 ELSE n + 1
  BY <1>1, <1>3
<1>5. DOMAIN server' = Connections /\ begun' \in [Connections -> Seq(Outgoing)]
  <2>1. Append(begun[e], p) \in Seq(Outgoing)
    BY <1>1, <1>3, AppendProperties
  <2> QED
    BY <1>1, <1>2, <1>3, <2>1
<1> SUFFICES ASSUME ~torn', NEW c \in Connections PROVE HeardOf(c)'
  BY <1>5, Zenon DEF OutInv
<1>6. HeardOf(c) /\ HeardOf(e)
  BY <1>1, Zenon DEF OutInv
<1>7. done => ~Mid(c)'
  BY <1>1, <1>3, Zenon DEF Mid
<1>8. CASE c # e \/ link[e] # "open"
  <2>1. server'[c] = server[c] /\ begun'[c] = begun[c]
    BY <1>2, <1>3, <1>8
  <2>2. ~Mid(c)
    BY <1>1, <1>8, Zenon DEF Mid, e
  <2>3. ~Mid(c)'
    BY <1>1, <1>7, <1>8, Zenon DEF Mid, e
  <2> QED
    BY <1>1, <1>6, <2>1, <2>2, <2>3, HeardKept, Zenon
<1>9. CASE c = e /\ link[e] = "open"
  <2> DEFINE h == server[e]
             g == Hears(h, all[n + 1])
             b == IF n = 0 THEN Append(begun[e], p) ELSE begun[e]
             m == Len(h.packets)
  <2>1. server'[c] = g /\ begun'[c] = b
    BY <1>2, <1>3, <1>9
  <2>2. /\ h.ok /\ IsSequence(h.packets) /\ m \in Nat
        /\ \A k \in 1 .. m : Plain(h.packets[k]) = begun[e][k]
    BY <1>6, Zenon DEF HeardOf, IsSequence
  <2>3. begun[e] \in Seq(Outgoing) /\ Len(begun[e]) \in Nat
    BY <1>1, <1>3, LenProperties
  <2>4. /\ h.kept = Kept(parser, p, n) /\ Len(b) = m + 1 /\ b[m + 1] = p
        /\ \A k \in 1 .. m : Plain(h.packets[k]) = b[k]
    <3>1. CASE n = 0
      <4>1. ~(part[lock] > 0)
        BY <1>1, <3>1 DEF n
      <4>2. ~Mid(e)
        BY <4>1, Zenon DEF Mid
      <4>3. h.kept = Idle /\ Len(begun[e]) = m
        BY <1>6, <4>2, Zenon DEF HeardOf
      <4>4. Kept(parser, p, n) = Idle
        BY <3>1 DEF Kept
      <4>5. b = Append(begun[e], p)
        BY <3>1
      <4>6. /\ Len(Append(begun[e], p)) = m + 1 /\ Append(begun[e], p)[m + 1] = p
            /\ \A k \in 1 .. m : Append(begun[e], p)[k] = begun[e][k]
        <5>1. IsSequence(begun[e])
          BY <2>3, SeqIsSequence, Zenon
        <5>2. /\ Len(Append(begun[e], p)) = Len(begun[e]) + 1
              /\ Append(begun[e], p)[Len(begun[e]) + 1] = p
              /\ \A k \in 1 .. Len(begun[e]) : Append(begun[e], p)[k] = begun[e][k]
          BY <5>1, AppendIs, Zenon
        <5> QED
          BY <4>3, <5>2, Zenon
      <4> QED
        BY <2>2, <4>3, <4>4, <4>5, <4>6, Zenon
    <3>2. CASE n # 0
      <4>1. part[lock] > 0
        BY <1>1, <3>2 DEF n
      <4>2. Mid(e)
        BY <1>1, <1>9, <4>1, Zenon DEF Mid, e
      <4>3. /\ h.kept = Kept(parser, p, n) /\ Len(begun[e]) = m + 1
            /\ begun[e][Len(begun[e])] = p
        BY <1>1, <1>6, <4>2, Zenon DEF HeardOf, p, n
      <4>4. b = begun[e]
        BY <3>2
      <4> QED
        BY <2>2, <4>3, <4>4, Zenon
    <3> QED
      BY <3>1, <3>2, Zenon
  <2> HIDE DEF b, m
  <2>5. n + 1 - 1 = n /\ (n + 1 < Len(all) <=> ~done)
    BY <1>1 DEF done
  <2>6. /\ g.ok
        /\ ~done => g.kept = Kept(parser, p, n + 1) /\ g.packets = h.packets
        /\ done => g.kept = Idle /\ \E q : Plain(q) = p /\ g.packets = Append(h.packets, q)
    <3>1. h.kept = Kept(parser, p, n + 1 - 1) /\ n + 1 \in 1 .. Len(Encode(parser, p))
      BY <1>1, <2>4, <2>5 DEF all
    <3>2. /\ g.ok
          /\ n + 1 < Len(all) => g.kept = Kept(parser, p, n + 1) /\ g.packets = h.packets
          /\ ~(n + 1 < Len(all)) =>
                g.kept = Idle /\ \E q : Plain(q) = p /\ g.packets = Append(h.packets, q)
      <4> HIDE DEF h
      <4>1. PICK i \in 1 .. Len(Encode(parser, p)) : i = n + 1
        BY <3>1
      <4>a. i - 1 = n
        BY <1>1, <4>1
      <4>2. h.kept = Kept(parser, p, i - 1)
        BY <2>4, <4>a, Zenon
      <4>3. parser \in Parsers /\ p \in Outgoing /\ h.ok /\ IsSequence(h.packets)
        BY <1>1, <1>3, <2>2, Zenon
      <4> DEFINE f == Encode(parser, p)[i]
      <4>4. /\ Hears(h, f).ok
            /\ i < Len(Encode(parser, p)) =>
                  Hears(h, f).kept = Kept(parser, p, i) /\ Hears(h, f).packets = h.packets
            /\ ~(i < Len(Encode(parser, p))) =>
                  /\ Hears(h, f).kept = Idle
                  /\ \E q : Plain(q) = p /\ Hears(h, f).packets = Append(h.packets, q)
        BY <4>2, <4>3, HearsNext
      <4> QED
        BY <4>1, <4>4, Zenon DEF all
    <3> QED
      BY <2>5, <3>2, Zenon
  <2> HIDE DEF g, h
  <2>7. CASE ~done
    <3>0. lock' = t /\ engine' = engine /\ job' = job /\ part'[t] = n + 1 /\ n \in Nat
      BY <1>1, <1>4, <2>7, Zenon
    <3>1. /\ lock' = t /\ engine' = engine /\ job' = job /\ part'[t] = n + 1
          /\ part'[t] > 0
      BY <3>0
    <3>2. Mid(c)'
      BY <1>1, <1>9, <3>1, Zenon DEF Mid, e
    <3>3. job'[lock'][1] = p /\ part'[lock'] = n + 1
      BY <3>1, Zenon DEF p
    <3>4. /\ g.kept = Kept(parser, p, n + 1) /\ g.packets = h.packets /\ IsSequence(g.packets)
          /\ Len(b) = Len(g.packets) + 1 /\ b[Len(b)] = p
          /\ \A k \in 1 .. Len(g.packets) : Plain(g.packets[k]) = b[k]
      BY <2>2, <2>4, <2>6, <2>7, Zenon DEF m
    <3> QED
      BY <1>1, <2>1, <2>6, <3>2, <3>3, <3>4, Zenon DEF HeardOf
  <2>8. CASE done
    <3>1. PICK q : Plain(q) = p /\ g.packets = Append(h.packets, q)
      BY <2>6, <2>8
    <3>2. /\ IsSequence(Append(h.packets, q)) /\ Len(Append(h.packets, q)) = m + 1
          /\ \A k \in 1 .. m : Append(h.packets, q)[k] = h.packets[k]
          /\ Append(h.packets, q)[m + 1] = q
      BY <2>2, AppendIs DEF m
    <3>3. \A k \in 1 .. m + 1 : k \in 1 .. m \/ k = m + 1
      BY <2>2
    <3>4. /\ IsSequence(g.packets) /\ Len(b) = Len(g.packets) /\ g.kept = Idle
          /\ \A k \in 1 .. Len(g.packets) : Plain(g.packets[k]) = b[k]
      BY <2>4, <2>6, <2>8, <3>1, <3>2, <3>3, Zenon
    <3> QED
      BY <1>7, <2>1, <2>6, <2>8, <3>4, Zenon DEF HeardOf
  <2> QED
    BY <2>7, <2>8, Zenon
<1> QED
  BY <1>8, <1>9, Zenon

(* A connection ends, and what the server has heard on it no longer matters.    *)
LEMMA HeardEnds ==
    ASSUME TypeInv, OutInv, NEW c \in Connections, Ends(c), UNCHANGED torn,
           link'[c] = "lost", \A d \in Connections \ {c} : Mid(d)' <=> Mid(d)
    PROVE  OutInv'
<1>1. /\ UNCHANGED <<parser, lock, engine, part, job, torn>>
      /\ server' = [server EXCEPT ![c] = Hearing] /\ begun' = [begun EXCEPT ![c] = <<>>]
  BY Zenon DEF Ends, config
<1>2. DOMAIN server = Connections /\ begun \in [Connections -> Seq(Outgoing)]
  BY Zenon DEF OutInv
<1>3. DOMAIN server' = Connections /\ begun' \in [Connections -> Seq(Outgoing)]
  BY <1>1, <1>2
<1> SUFFICES ASSUME ~torn', NEW d \in Connections PROVE HeardOf(d)'
  BY <1>3, Zenon DEF OutInv
<1>4. CASE d = c
  <2>1. server'[d] = Hearing /\ begun'[d] = <<>>
    BY <1>1, <1>2, <1>4
  <2>2. ~Mid(d)'
    BY <1>4 DEF Mid
  <2>3. Hearing.ok /\ Hearing.packets = <<>> /\ Hearing.kept = Idle
    BY DEF Hearing
  <2>4. IsSequence(<<>>) /\ Len(<<>>) = 0 /\ \A k : k \notin 1 .. 0
    <3>1. <<>> \in Seq(Outgoing) /\ Len(<<>>) = 0
      BY EmptySeq
    <3>2. IsSequence(<<>>)
      BY <3>1, SeqIsSequence, Zenon
    <3> QED
      BY <3>1, <3>2
  <2> QED
    BY <2>1, <2>2, <2>3, <2>4, Zenon DEF HeardOf
<1>5. CASE d # c
  <2>1. server'[d] = server[d] /\ begun'[d] = begun[d]
    BY <1>1, <1>2, <1>5
  <2>2. HeardOf(d)
    <3>1. ~torn
      OBVIOUS
    <3> QED
      BY <3>1, Zenon DEF OutInv
  <2>3. Mid(d)' <=> Mid(d)
    BY <1>5, Zenon
  <2> QED
    BY <1>1, <2>1, <2>2, <2>3, HeardKept, Zenon
<1> QED
  BY <1>4, <1>5, Zenon

(* No frame is sent, and no connection ends.                                    *)
LEMMA HeardStays ==
    ASSUME OutInv, UNCHANGED <<parser, server, begun>>, torn => torn',
           torn' \/ \A d \in Connections :
              /\ (Mid(d)' <=> Mid(d))
              /\ Mid(d) => lock' = lock /\ job'[lock] = job[lock] /\ part'[lock] = part[lock]
    PROVE  OutInv'
<1>1. DOMAIN server' = Connections /\ begun' \in [Connections -> Seq(Outgoing)]
  BY Zenon DEF OutInv
<1> SUFFICES ASSUME ~torn', NEW d \in Connections PROVE HeardOf(d)'
  BY <1>1, Zenon DEF OutInv
<1>2. HeardOf(d)
  BY Zenon DEF OutInv
<1> QED
  BY <1>2, HeardKept, Zenon

(* A packet for a thread that does not send, which leaves the one that does alone. *)
LEMMA SendsElsewhere ==
    ASSUME ControlInv, NEW t \in Threads, pc[t] # "send", lock \in Threads,
           NEW ps, job' = [job EXCEPT ![t] = ps]
    PROVE  job'[lock] = job[lock]
<1>1. pc[lock] = "send"
  BY Zenon DEF ControlInv, LockInv
<1> QED
  BY <1>1 DEF ControlInv, TypeInv

(* What the server hears, after every step.                                     *)
LEMMA OutStep == ControlInv /\ OutInv /\ Next => OutInv'
<1> SUFFICES ASSUME ControlInv, OutInv, Next PROVE OutInv'
  OBVIOUS
<1>0. TypeInv /\ LockInv /\ LinkInv /\ Nobody \notin Threads
  BY ThreadFacts, Zenon DEF ControlInv
<1>1. CASE NewEngine
  <2> DEFINE old == {c \in {current} \cap Connections : link[c] # "lost" /\ ~InUse(c)}
  <2>1. /\ \A d \in Connections : link'[d] = IF d = current + 1 THEN "connecting"
                                             ELSE IF d \in old THEN "lost" ELSE link[d]
        /\ IF old = {} THEN UNCHANGED <<config, outbound, job>> ELSE Ends(current)
        /\ \A d \in old : d = current
        /\ old # {} => current \in Connections /\ current \in old
    BY <1>1 DEF NewEngine, inbound, outbound
  <2>2. UNCHANGED <<parser, lock, engine, part, job, torn>>
    BY <2>1, Zenon DEF Ends, config, outbound
  <2>3. ASSUME NEW d \in Connections, d = current + 1 PROVE link[d] # "open" /\ link'[d] # "open" /\ d # current
    <3>1. d > current /\ d # current
      BY <1>0, <2>3, BoundAssumption DEF TypeInv
    <3>2. link[d] = "none" /\ link'[d] = "connecting"
      BY <1>0, <2>1, <2>3, <3>1, Zenon DEF LinkInv
    <3> QED
      BY <3>1, <3>2
  <2> HIDE DEF old
  <2>4. CASE old = {}
    <3>1. \A d \in Connections : link'[d] = "open" <=> link[d] = "open"
      BY <2>1, <2>3, <2>4, Zenon
    <3>2. \A d \in Connections : (Mid(d)' <=> Mid(d))
      BY <2>2, <3>1, Zenon DEF Mid
    <3>3. UNCHANGED <<server, begun>>
      BY <2>1, <2>4, Zenon DEF outbound
    <3> QED
      BY <2>2, <3>2, <3>3, HeardStays, Zenon
  <2>5. CASE old # {}
    <3>1. current \in Connections /\ Ends(current) /\ link'[current] = "lost"
      BY <2>1, <2>3, <2>5, Zenon
    <3>2. \A d \in Connections : d # current => (link'[d] = "open" <=> link[d] = "open")
      BY <2>1, <2>3, Zenon
    <3>3. \A d \in Connections : d # current => (Mid(d)' <=> Mid(d))
      BY <2>2, <3>2, Zenon DEF Mid
    <3> QED
      BY <1>0, <2>2, <3>1, <3>3, HeardEnds, Zenon
  <2> QED
    BY <2>4, <2>5, Zenon
<1>2. ASSUME NEW c \in Connections, Lost(c) PROVE OutInv'
  <2>1. /\ Ends(c) /\ link'[c] = "lost" /\ \A d \in Connections : d # c => link'[d] = link[d]
    BY <1>0, <1>2 DEF Lost, TypeInv
  <2>2. UNCHANGED <<lock, engine, part, torn>>
    BY <2>1, Zenon DEF Ends
  <2>3. \A d \in Connections : d # c => (Mid(d)' <=> Mid(d))
    BY <2>1, <2>2, Zenon DEF Mid
  <2> QED
    BY <1>0, <2>1, <2>2, <2>3, HeardEnds, Zenon
<1>3. ASSUME NEW t \in Threads, SendLock(t) PROVE OutInv'
  <2>1. /\ pc[t] = "lock" /\ lock = Nobody /\ lock' = t
        /\ UNCHANGED <<parser, server, begun, torn, part, link>>
    BY <1>3, Zenon DEF SendLock, config
  <2>2. part[t] = 0
    BY <1>0, <2>1 DEF LockInv
  <2>3. ~(part'[lock'] > 0)
    BY <2>1, <2>2
  <2>4. \A d \in Connections : ~Mid(d) /\ ~Mid(d)'
    BY <1>0, <2>1, <2>3, Zenon DEF Mid
  <2> QED
    BY <2>1, <2>4, HeardStays, Zenon
<1>4. ASSUME NEW t \in Threads, SendFrame(t) PROVE OutInv'
  BY <1>4, HeardSendFrame
<1>5. ASSUME NEW c \in Connections, Opened(c) PROVE OutInv'
  <2>1. /\ link[c] = "connecting" /\ link' = [link EXCEPT ![c] = "open"]
        /\ torn' = (torn \/ \E t \in Threads : pc[t] = "send" /\ engine[t] = c /\ part[t] > 0)
        /\ UNCHANGED <<parser, lock, engine, part, server, begun, job>>
    BY <1>5, Zenon DEF Opened, config
  <2>2. link[c] # "open" /\ \A d \in Connections : d # c => link'[d] = link[d]
    BY <1>0, <2>1 DEF TypeInv
  <2>3. ASSUME ~torn', NEW d \in Connections PROVE (Mid(d)' <=> Mid(d))
    <3>1. CASE d = c
      <4>1. ~Mid(d)
        BY <2>2, <3>1, Zenon DEF Mid
      <4>2. ~Mid(d)'
        BY <1>0, <2>1, <2>3, <3>1, Zenon DEF Mid, LockInv
      <4> QED
        BY <4>1, <4>2, Zenon
    <3>2. CASE d # c
      BY <2>1, <2>2, <3>2, Zenon DEF Mid
    <3> QED
      BY <3>1, <3>2, Zenon
  <2>4. torn => torn'
    BY <2>1, Zenon
  <2> QED
    BY <2>1, <2>3, <2>4, HeardStays, Zenon
<1>6. ASSUME NEW t \in Threads, Acknowledge(t) \/ Announce(t) \/ (t = Emitter /\ Emit) PROVE OutInv'
  <2>1. /\ UNCHANGED <<parser, server, begun, torn, lock, engine, part, link>>
        /\ UNCHANGED job \/ \E ps : job' = [job EXCEPT ![t] = ps]
    BY <1>6, Zenon DEF Acknowledge, Announce, Emit, Sends, config, outbound
  <2>2. pc[t] \in {"idle", "listening", "opened"}
    BY <1>6, Zenon DEF Acknowledge, Announce, Emit
  <2>3. pc[t] # "send"
    BY <2>2
  <2>4. lock \in Threads => job'[lock] = job[lock]
    BY <2>1, <2>3, SendsElsewhere, Zenon
  <2>5. \A d \in Connections : (Mid(d)' <=> Mid(d)) /\ (Mid(d) => lock \in Threads)
    BY <2>1, Zenon DEF Mid
  <2> QED
    BY <2>1, <2>4, <2>5, HeardStays, Zenon
<1>7. ASSUME NEW c \in Connections,
             ServerSays(c) \/ Receive(c) \/ Check(c) \/ DecodeFrame(c) \/ Dispatch(c)
      PROVE  OutInv'
  <2>1. UNCHANGED <<parser, server, begun, torn, lock, engine, part, link, job>>
    BY <1>7, Zenon DEF ServerSays, Receive, Check, DecodeFrame, Dispatch, config, outbound
  <2>2. \A d \in Connections : (Mid(d)' <=> Mid(d))
    BY <2>1, Zenon DEF Mid
  <2> QED
    BY <2>1, <2>2, HeardStays, Zenon
<1> QED
  BY <1>1, <1>2, <1>3, <1>4, <1>5, <1>6, <1>7, ThreadFacts, Zenon DEF Next
-----------------------------------------------------------------------------
(* What the sockets hear: where the frames of a connection that are on their way *)
(* belong in what the server said.                                              *)

\* The frames of a connection that are on their way.
Queue(c) == hand[c] \o inbox[c]

\* The sockets have heard the first messages of a connection.
IntactOf(c) == /\ Len(calls[c]) <= Len(said[c])
               /\ \A k \in 1 .. Len(calls[c]) : calls[c][k] = Meant(said[c][k])

\* The frames under way continue them, to the end unless the connection was cut.
LineOf(c) ==
    \E m, i : /\ Under(parser, said[c], Queue(c), m, i)
              /\ link[c] # "lost" => UnderAll(parser, said[c], Queue(c), m, i)
              /\ LineStart(parser, said[c], Len(calls[c]), kept, m, i)

InInv == crossed \/ \A c \in Connections : IntactOf(c) /\ (c = current => LineOf(c))

(* A connection like that, before and after a step.                             *)
LEMMA LineOfNew ==
    ASSUME NEW c, said[c] = <<>>, calls[c] = <<>>, Queue(c) = <<>>
    PROVE  IntactOf(c) /\ LineOf(c)
<1>1. LineOf(c)
  BY NothingSaid, Zenon DEF LineOf
<1>2. IntactOf(c)
  BY NothingSaid, Zenon DEF IntactOf
<1> QED
  BY <1>1, <1>2

(* The same of what is under way after a step.                                  *)
LEMMA LineOfNext ==
    ASSUME NEW c, said'[c] = <<>>, calls'[c] = <<>>, Queue(c)' = <<>>
    PROVE  LineOf(c)'
  BY NothingSaid, Zenon DEF LineOf

(* The same of what the sockets have heard after a step.                        *)
LEMMA IntactOfNext ==
    ASSUME NEW c, said'[c] = <<>>, calls'[c] = <<>>
    PROVE  IntactOf(c)'
  BY NothingSaid, Zenon DEF IntactOf

(* A connection that a step does not concern.                                   *)
LEMMA LineOfKept ==
    ASSUME NEW c, LineOf(c), UNCHANGED <<parser, kept>>, said'[c] = said[c], calls'[c] = calls[c],
           Queue(c)' = Queue(c), link'[c] # "lost" => link[c] # "lost"
    PROVE  LineOf(c)'
  BY Zenon DEF LineOf

(* The same of what the sockets have heard.                                     *)
LEMMA IntactOfKept ==
    ASSUME NEW c, IntactOf(c), said'[c] = said[c], calls'[c] = calls[c]
    PROVE  IntactOf(c)'
  BY Zenon DEF IntactOf

(* The types of what it is about.                                               *)
LEMMA QueueType ==
    ASSUME ControlInv, NEW c \in Connections
    PROVE  /\ parser \in Parsers /\ said[c] \in Seq(Messages)
           /\ hand[c] \in Seq(FramesOf(parser)) /\ inbox[c] \in Seq(FramesOf(parser))
           /\ Queue(c) \in Seq(FramesOf(parser)) /\ Len(Queue(c)) \in Nat
           /\ IsSequence(calls[c]) /\ Len(calls[c]) \in Nat
<1>1. /\ parser \in Parsers /\ said[c] \in Seq(Messages) /\ IsSequence(calls[c])
      /\ hand[c] \in Seq(FramesOf(parser)) /\ inbox[c] \in Seq(FramesOf(parser))
  BY Zenon DEF ControlInv, TypeInv, StreamInv
<1>2. Queue(c) \in Seq(FramesOf(parser))
  BY <1>1, ConcatProperties DEF Queue
<1>3. Len(Queue(c)) \in Nat
  BY <1>2, LenProperties
<1> QED
  BY <1>1, <1>2, <1>3, Zenon DEF IsSequence

(* The server says something.                                                   *)
LEMMA LineServerSays ==
    ASSUME ControlInv, NEW c \in Connections, IntactOf(c), LineOf(c), ServerSays(c)
    PROVE  IntactOf(c)' /\ LineOf(c)'
<1>0. TypeInv /\ StreamInv /\ LinkInv
  BY DEF ControlInv
<1>1. PICK a \in Messages :
              LET fs == Encode(parser, MessagePacket(a))
              IN  /\ link[c] = "open" /\ hand[c] = <<>>
                  /\ fs \in Seq(FramesOf(parser)) /\ inbox[c] \in Seq(FramesOf(parser))
                  /\ said' = [said EXCEPT ![c] = Append(said[c], a)]
                  /\ inbox' = [inbox EXCEPT ![c] = inbox[c] \o fs]
                  /\ UNCHANGED <<parser, link, hand, kept, calls>>
  BY <1>0, Said, Zenon
<1> DEFINE x  == parser
           s  == said[c]
           t  == Append(s, a)
           fs == Encode(x, MessagePacket(a))
           q  == Queue(c)
           n  == Len(calls[c])
<1>2. /\ x \in Parsers /\ s \in Seq(Messages) /\ q \in Seq(FramesOf(x)) /\ Len(q) \in Nat
      /\ n \in Nat /\ fs \in Seq(FramesOf(x)) /\ inbox[c] \in Seq(FramesOf(x))
  BY <1>1, QueueType, Zenon
<1>3. said'[c] = t /\ inbox'[c] = inbox[c] \o fs /\ calls'[c] = calls[c] /\ hand'[c] = hand[c]
  BY <1>0, <1>1 DEF StreamInv
<1>4. q = inbox[c] /\ Queue(c)' = q \o fs
  <2>1. inbox[c] \o fs \in Seq(FramesOf(x))
    BY <1>2, ConcatProperties
  <2>2. <<>> \o inbox[c] = inbox[c] /\ <<>> \o (inbox[c] \o fs) = inbox[c] \o fs
    BY <1>2, <2>1, QueueParts, Zenon
  <2> QED
    BY <1>1, <1>3, <2>2, Zenon DEF Queue
<1>5. PICK m, i : UnderAll(x, s, q, m, i) /\ LineStart(x, s, n, kept, m, i)
  <2>1. link[c] # "lost"
    BY <1>1
  <2> QED
    BY <2>1, Zenon DEF LineOf
<1>6. m \in 0 .. Len(s) /\ i \in Nat
  BY <1>2, <1>5, LineAll, LineRange, Zenon
<1>7. UnderAll(x, t, q \o fs, m, i)
  BY <1>2, <1>5, LineAppend, Zenon
<1>8. Under(x, t, q \o fs, m, i)
  BY <1>7, LineAll, Zenon
<1>9. LineStart(x, t, n, kept, m, i)
  BY <1>2, <1>5, <1>6, StartMore, Zenon
<1> HIDE DEF s, t, fs, q
<1>10. LineOf(c)'
  BY <1>1, <1>3, <1>4, <1>7, <1>8, <1>9, Zenon DEF LineOf
<1>11. IntactOf(c)'
  <2>1. n <= Len(s) /\ \A k \in 1 .. n : calls[c][k] = Meant(s[k])
    BY Zenon DEF IntactOf, s
  <2>2. Len(t) = Len(s) + 1 /\ Len(s) \in Nat /\ \A k \in 1 .. Len(s) : t[k] = s[k]
    BY <1>2, SaidMore, Zenon DEF t
  <2>3. n <= Len(t) /\ \A k \in 1 .. n : k \in 1 .. Len(s)
    BY <1>2, <2>1, <2>2, SMTT(20)
  <2> QED
    BY <1>3, <2>1, <2>2, <2>3, Zenon DEF IntactOf
<1> QED
  BY <1>10, <1>11

(* A frame is decoded.                                                          *)
LEMMA LineDecode ==
    ASSUME ControlInv, NEW c \in Connections, IntactOf(c), LineOf(c), DecodeFrame(c)
    PROVE  IntactOf(c)' /\ LineOf(c)'
<1>0. TypeInv /\ StreamInv /\ LinkInv
  BY DEF ControlInv
<1> DEFINE x    == parser
           s    == said[c]
           q    == Queue(c)
           n    == Len(calls[c])
           r    == Decode(x, kept, Head(hand[c]))
           call == IF r.packet = <<>> THEN <<>> ELSE Route(r.packet[1])
<1>1. /\ hand[c] # <<>> /\ kept' = Keeps(r)
      /\ hand' = [hand EXCEPT ![c] = Tail(hand[c])]
      /\ calls' = IF r.packet = <<>> THEN calls
                                     ELSE [calls EXCEPT ![c] = Append(calls[c], call)]
      /\ UNCHANGED <<parser, link, inbox, said>>
  BY <1>0, Decoding, Zenon
<1>2. /\ x \in Parsers /\ s \in Seq(Messages) /\ q \in Seq(FramesOf(x)) /\ Len(q) \in Nat
      /\ hand[c] \in Seq(FramesOf(x)) /\ inbox[c] \in Seq(FramesOf(x))
      /\ IsSequence(calls[c]) /\ n \in Nat
  BY QueueType, Zenon
<1>3. kept \in Mixed(x) /\ DOMAIN calls = Connections /\ hand'[c] = Tail(hand[c])
  BY <1>0, <1>1 DEF StreamInv
<1>4. q # <<>> /\ q[1] = Head(hand[c]) /\ Queue(c)' = Tail(q)
  <2>1. /\ hand[c] \o inbox[c] # <<>> /\ (hand[c] \o inbox[c])[1] = Head(hand[c])
        /\ Tail(hand[c] \o inbox[c]) = Tail(hand[c]) \o inbox[c]
    BY <1>1, <1>2, QueueTail, Zenon
  <2> QED
    BY <1>1, <1>3, <2>1, Zenon DEF Queue
<1>5. PICK m, i : /\ Under(x, s, q, m, i) /\ (link[c] # "lost" => UnderAll(x, s, q, m, i))
                  /\ LineStart(x, s, n, kept, m, i)
  BY Zenon DEF LineOf
<1>6. i \in Nat
  BY <1>2, <1>5, LineRange, Zenon
<1> HIDE DEF s, q, n, x
<1>7. PICK m2 \in 1 .. Len(s) : \E i2 \in 1 .. CountAt(x, s, m2) :
              /\ NextPlace(x, s, m, i, m2, i2)
              /\ q[1] = Encode(x, MessagePacket(s[m2]))[i2]
              /\ Under(x, s, Tail(q), m2, i2)
              /\ UnderAll(x, s, q, m, i) => UnderAll(x, s, Tail(q), m2, i2)
  BY <1>2, <1>4, <1>5, LineTail, Zenon
<1>8. PICK i2 \in 1 .. CountAt(x, s, m2) :
              /\ NextPlace(x, s, m, i, m2, i2)
              /\ q[1] = Encode(x, MessagePacket(s[m2]))[i2]
              /\ Under(x, s, Tail(q), m2, i2)
              /\ UnderAll(x, s, q, m, i) => UnderAll(x, s, Tail(q), m2, i2)
  BY <1>7, Zenon
<1> DEFINE p  == MessagePacket(s[m2])
           fs == Encode(x, p)
<1>9. s[m2] \in Messages /\ p \in Incoming /\ CountAt(x, s, m2) = Len(fs) /\ Len(fs) \in Nat
  <2>1. s[m2] \in Messages /\ m2 # 0
    BY <1>2, ElementOfSeq
  <2>2. p \in Incoming
    BY <1>2, <2>1, MessageFrames, Zenon
  <2>3. CountAt(x, s, m2) = Len(fs)
    BY <2>1, Zenon DEF CountAt
  <2>4. Len(fs) \in Nat
    BY <1>2, <2>2, Encoded, Zenon
  <2> QED
    BY <2>1, <2>2, <2>3, <2>4, Zenon
<1>10. m2 = n + 1 /\ r = Decode(x, Kept(x, p, i2 - 1), fs[i2])
  <2>1. m2 = n + 1 /\ Decode(x, kept, fs[i2]) = Decode(x, Kept(x, p, i2 - 1), fs[i2])
    BY <1>2, <1>3, <1>5, <1>6, <1>8, NextDecoded, Zenon
  <2> QED
    BY <1>4, <1>8, <2>1, Zenon
<1>11. /\ i2 < Len(fs) => Keeps(r) = Kept(x, p, i2) /\ r.packet = <<>>
       /\ ~(i2 < Len(fs)) => r.packet = <<r.packet[1]>> /\ Plain(r.packet[1]) = p
  <2>1. p \in Incoming \cup Outgoing /\ i2 \in 1 .. Len(fs)
    BY <1>9, Zenon
  <2> QED
    BY <1>2, <1>10, <2>1, ParserFinds, Zenon
<1>12. ASSUME NEW n2, n2 = Len(calls'[c]), NEW k2, k2 = kept', LineStart(x, s, n2, k2, m2, i2)
       PROVE  LineOf(c)'
  <2>1. link'[c] # "lost" => UnderAll(x, s, Tail(q), m2, i2)
    BY <1>1, <1>5, <1>8, Zenon
  <2> QED
    BY <1>1, <1>4, <1>8, <1>12, <2>1, Zenon DEF LineOf, s, x
<1> HIDE DEF r, fs, p
<1>13. CASE i2 < Len(fs)
  <2>1. calls' = calls /\ kept' = Kept(x, p, i2)
    BY <1>1, <1>11, <1>13, Zenon
  <2>2. i2 > 0
    BY <1>9
  <2>3. LineStart(x, s, n, Kept(x, p, i2), m2, i2)
    BY <1>9, <1>10, <1>13, <2>2, Zenon DEF LineStart, p
  <2>4. LineOf(c)'
    BY <1>12, <2>1, <2>3, Zenon DEF n
  <2> QED
    BY <1>1, <2>1, <2>4, IntactOfKept, Zenon
<1>14. CASE ~(i2 < Len(fs))
  <2>1. r.packet = <<r.packet[1]>> /\ Plain(r.packet[1]) = p
    BY <1>11, <1>14, Zenon
  <2>2. r.packet # <<>>
    BY <2>1, EmptySeq
  <2>3. Route(r.packet[1]) = Meant(s[m2])
    BY <1>9, <2>1, RouteMessage, Zenon DEF p
  <2>4. calls' = [calls EXCEPT ![c] = Append(calls[c], Meant(s[m2]))]
    BY <1>1, <2>2, <2>3, Zenon
  <2> DEFINE e == Meant(s[m2])
             b == Append(calls[c], e)
  <2>5. /\ Len(b) = n + 1 /\ b[n + 1] = e
        /\ \A k \in 1 .. n : b[k] = calls[c][k]
    <3>1. IsSequence(calls[c])
      BY <1>2, Zenon
    <3> HIDE DEF e
    <3> QED
      BY <3>1, AppendIs, SMTT(20) DEF n
  <2> HIDE DEF b, e
  <2>6. calls'[c] = b
    BY <1>3, <2>4 DEF b, e
  <2>7. LineOf(c)'
    <3>1. PICK n2, k2 : n2 = Len(calls'[c]) /\ k2 = kept'
      OBVIOUS
    <3>2. LineStart(x, s, n2, k2, m2, i2)
      BY <1>9, <1>10, <1>14, <2>5, <2>6, <3>1, Zenon DEF LineStart
    <3> QED
      BY <1>12, <3>1, <3>2, Zenon
  <2>8. IntactOf(c)'
    <3>1. \A k \in 1 .. n : calls[c][k] = Meant(s[k])
      BY Zenon DEF IntactOf, n, s
    <3>2. \A k \in 1 .. n + 1 : k \in 1 .. n \/ k = n + 1
      BY <1>2
    <3>3. \A k \in 1 .. n + 1 : b[k] = Meant(s[k])
      BY <1>10, <2>5, <3>1, <3>2, Zenon DEF e
    <3>4. n + 1 <= Len(s)
      BY <1>10
    <3> QED
      BY <1>1, <2>5, <2>6, <3>3, <3>4, Zenon DEF IntactOf, s
  <2> QED
    BY <2>7, <2>8
<1> QED
  BY <1>13, <1>14, Zenon

(* The histories of a connection are forgotten, or not.                         *)
LEMMA IntactForgets ==
    ASSUME StreamInv, NEW c \in Connections, Forget(c) \/ UNCHANGED <<said, calls>>,
           NEW d \in Connections, IntactOf(d)
    PROVE  IntactOf(d)'
<1>1. CASE UNCHANGED <<said, calls>>
  BY <1>1, IntactOfKept, Zenon
<1>2. CASE Forget(c)
  <2>1. /\ d = c => said'[d] = <<>> /\ calls'[d] = <<>>
        /\ d # c => said'[d] = said[d] /\ calls'[d] = calls[d]
    BY <1>2 DEF Forget, StreamInv
  <2> QED
    BY <2>1, IntactOfKept, IntactOfNext, Zenon
<1> QED
  BY <1>1, <1>2, Zenon

(* The end of a connection leaves a beginning of its frames, those in hand.     *)
LEMMA LineEnds ==
    ASSUME ControlInv, NEW c \in Connections, LineOf(c), Ends(c), link'[c] = "lost"
    PROVE  LineOf(c)'
<1>0. StreamInv /\ LinkInv
  BY Zenon DEF ControlInv
<1>1. /\ inbox'[c] = <<>> /\ UNCHANGED <<parser, hand, kept>>
  BY <1>0 DEF Ends, StreamInv, config
<1>2. /\ parser \in Parsers /\ said[c] \in Seq(Messages)
      /\ hand[c] \in Seq(FramesOf(parser)) /\ inbox[c] \in Seq(FramesOf(parser))
  BY QueueType, Zenon
<1>3. Queue(c)' = hand[c]
  BY <1>1, <1>2, QueueParts, Zenon DEF Queue
<1>4. CASE pc[c] = "idle"
  <2>1. hand[c] = <<>>
    BY <1>0, <1>4, Zenon DEF LinkInv
  <2>2. Forget(c)
    BY <1>4, Zenon DEF Ends
  <2>3. said'[c] = <<>> /\ calls'[c] = <<>>
    BY <1>0, <2>2 DEF Forget, StreamInv
  <2> QED
    BY <1>3, <2>1, <2>3, LineOfNext, Zenon
<1>5. CASE pc[c] # "idle"
  <2>1. UNCHANGED <<said, calls>>
    BY <1>5, Zenon DEF Ends
  <2>2. PICK m, i : /\ Under(parser, said[c], hand[c] \o inbox[c], m, i)
                    /\ LineStart(parser, said[c], Len(calls[c]), kept, m, i)
    BY Zenon DEF LineOf, Queue
  <2>3. Under(parser, said[c], hand[c], m, i)
    BY <1>2, <2>2, LinePrefix, Zenon
  <2> QED
    BY <1>1, <1>3, <2>1, <2>2, <2>3, Zenon DEF LineOf
<1> QED
  BY <1>4, <1>5, Zenon

(* Frames are read.                                                             *)
LEMMA LineReceive ==
    ASSUME ControlInv, NEW c \in Connections, LineOf(c), Receive(c)
    PROVE  LineOf(c)'
<1>0. TypeInv /\ StreamInv /\ LinkInv
  BY Zenon DEF ControlInv
<1> DEFINE q == inbox[c]
<1>1. PICK n \in 1 .. Len(q) :
              /\ hand[c] = <<>> /\ q \in Seq(FramesOf(parser))
              /\ hand' = [hand EXCEPT ![c] = SubSeq(q, 1, n)]
              /\ inbox' = [inbox EXCEPT ![c] = SubSeq(q, n + 1, Len(q))]
              /\ UNCHANGED <<parser, link, kept, said, calls>>
  BY <1>0, Received, Zenon
<1>2. hand'[c] = SubSeq(q, 1, n) /\ inbox'[c] = SubSeq(q, n + 1, Len(q))
  BY <1>0, <1>1 DEF StreamInv
<1>3. SubSeq(q, 1, n) \o SubSeq(q, n + 1, Len(q)) = q
  <2>1. 1 \in 1 .. Len(q) + 1 /\ n \in 1 - 1 .. Len(q) /\ Len(q) \in n .. Len(q)
    BY <1>1, LenProperties
  <2>2. SubSeq(q, 1, n) \o SubSeq(q, n + 1, Len(q)) = SubSeq(q, 1, Len(q))
    BY <1>1, <2>1, ConcatAdjacentSubSeq
  <2>3. SubSeq(q, 1, Len(q)) = q
    BY <1>1, SubSeqFull
  <2> QED
    BY <2>2, <2>3, Zenon
<1>4. <<>> \o q = q
  BY <1>1, QueueParts, Zenon
<1>5. Queue(c)' = Queue(c)
  BY <1>1, <1>2, <1>3, <1>4, Zenon DEF Queue
<1> QED
  BY <1>1, <1>5, LineOfKept, Zenon

(* The next packet in hand is looked at.                                        *)
LEMMA LineCheck ==
    ASSUME ControlInv, NEW c \in Connections, Check(c), NEW d \in Connections, IntactOf(d),
           d = current => LineOf(d)
    PROVE  IntactOf(d)' /\ (d = current' => LineOf(d)')
<1>0. StreamInv /\ LinkInv
  BY Zenon DEF ControlInv
<1> DEFINE stop == hand[c] = <<>> \/ (channel = "polling" /\ link[c] = "lost")
<1>1. /\ hand' = [hand EXCEPT ![c] = IF stop THEN <<>> ELSE IF current = c THEN hand[c] ELSE Tail(hand[c])]
      /\ IF stop /\ link[c] = "lost" THEN Forget(c) ELSE UNCHANGED <<said, calls>>
      /\ UNCHANGED <<parser, current, link, inbox, kept>>
  BY Zenon DEF Check, config
<1>2. IntactOf(d)'
  <2>1. Forget(c) \/ UNCHANGED <<said, calls>>
    BY <1>1, Zenon
  <2> QED
    BY <1>0, <2>1, IntactForgets, Zenon
<1>3. ASSUME d = current PROVE LineOf(d)'
  <2>1. LineOf(d)
    BY <1>3, Zenon
  <2>2. CASE d = c /\ stop /\ link[c] = "lost"
    <3>1. hand'[d] = <<>> /\ said'[d] = <<>> /\ calls'[d] = <<>>
      BY <1>0, <1>1, <2>2, SMTT(20) DEF Forget, StreamInv
    <3>2. inbox'[d] = <<>>
      BY <1>0, <1>1, <2>2, Zenon DEF LinkInv
    <3>3. <<>> \o <<>> = <<>>
      <4>1. <<>> \in Seq({})
        BY EmptySeq, Zenon
      <4> QED
        BY <4>1, QueueParts, Zenon
    <3>4. Queue(d)' = <<>>
      BY <3>1, <3>2, <3>3, Zenon DEF Queue
    <3> QED
      BY <3>1, <3>4, LineOfNext, Zenon
  <2>3. CASE ~(d = c /\ stop /\ link[c] = "lost")
    <3>1. stop /\ link[c] # "lost" => hand[c] = <<>>
      BY Zenon
    <3>2. hand'[d] = hand[d]
      <4>1. hand'[c] = IF stop THEN <<>> ELSE IF current = c THEN hand[c] ELSE Tail(hand[c])
        BY <1>0, <1>1, Zenon DEF StreamInv
      <4>2. d # c => hand'[d] = hand[d]
        BY <1>0, <1>1 DEF StreamInv
      <4> QED
        BY <1>3, <2>3, <3>1, <4>1, <4>2, Zenon
    <3>3. said'[d] = said[d] /\ calls'[d] = calls[d]
      <4>1. CASE d = c
        BY <1>1, <2>3, <4>1, Zenon
      <4>2. CASE d # c
        BY <1>0, <1>1, <4>2 DEF Forget, StreamInv
      <4> QED
        BY <4>1, <4>2, Zenon
    <3>4. Queue(d)' = Queue(d)
      BY <1>1, <3>2, Zenon DEF Queue
    <3> QED
      BY <1>1, <2>1, <3>3, <3>4, LineOfKept, Zenon
  <2> QED
    BY <2>2, <2>3, Zenon
<1> QED
  BY <1>1, <1>2, <1>3, Zenon

(* A new engine.                                                                *)
LEMMA LineNewEngine ==
    ASSUME ControlInv, NewEngine, NEW d \in Connections, IntactOf(d)
    PROVE  IntactOf(d)' /\ (d = current' => LineOf(d)')
<1>0. TypeInv /\ StreamInv /\ LinkInv
  BY DEF ControlInv
<1>1. /\ current' = current + 1 /\ current < MaxConnections
      /\ \/ UNCHANGED inbound
         \/ current \in Connections /\ Ends(current)
  BY Zenon DEF NewEngine
<1>2. /\ Forget(current) /\ current \in Connections
      \/ UNCHANGED <<said, calls>>
  BY <1>1, Zenon DEF Ends, inbound
<1>3. IntactOf(d)'
  BY <1>0, <1>2, IntactForgets, IntactOfKept, Zenon
<1>4. ASSUME d = current' PROVE LineOf(d)'
  <2>1. d > current /\ d # current
    BY <1>0, <1>1, <1>4 DEF TypeInv
  <2>2. inbox[d] = <<>> /\ said[d] = <<>> /\ calls[d] = <<>> /\ hand[d] = <<>>
    BY <1>0, <2>1, Zenon DEF LinkInv
  <2>3. inbox'[d] = <<>> /\ said'[d] = <<>> /\ calls'[d] = <<>> /\ hand'[d] = <<>>
    BY <1>0, <1>1, <2>1, <2>2, EndsOthers, Zenon DEF inbound
  <2>4. <<>> \o <<>> = <<>>
    <3>1. <<>> \in Seq({})
      BY EmptySeq
    <3> QED
      BY <3>1, QueueParts, Zenon
  <2>5. Queue(d)' = <<>>
    BY <2>3, <2>4, Zenon DEF Queue
  <2> QED
    BY <2>3, <2>5, LineOfNext, Zenon
<1> QED
  BY <1>3, <1>4

(* Every step keeps what the sockets hear.                                      *)
LEMMA InStep == ControlInv /\ InInv /\ Next => InInv'
<1> SUFFICES ASSUME ControlInv, InInv, Next PROVE InInv'
  OBVIOUS
<1>0. TypeInv /\ StreamInv /\ LinkInv
  BY Zenon DEF ControlInv
<1>s. SUFFICES ASSUME ~crossed', ~crossed => \A d \in Connections : IntactOf(d) /\ (d = current => LineOf(d)),
                      NEW d \in Connections
               PROVE  IntactOf(d)' /\ (d = current' => LineOf(d)')
  BY Zenon DEF InInv
<1>1. CASE NewEngine
  <2>1. UNCHANGED crossed
    BY <1>1, Zenon DEF NewEngine, Ends, inbound
  <2> QED
    BY <1>1, <1>s, <2>1, LineNewEngine, Zenon
<1>2. ASSUME NEW c \in Connections, Lost(c) PROVE IntactOf(d)' /\ (d = current' => LineOf(d)')
  <2>1. /\ Ends(c) /\ link'[c] = "lost" /\ (d # c => link'[d] = link[d]) /\ UNCHANGED current
    BY <1>0, <1>2 DEF Lost, TypeInv
  <2>2. UNCHANGED <<crossed, parser, kept>> /\ (Forget(c) \/ UNCHANGED <<said, calls>>)
    BY <2>1, Zenon DEF Ends, config
  <2>3. IntactOf(d) /\ (d = current => LineOf(d))
    BY <1>s, <2>2, Zenon
  <2>4. IntactOf(d)'
    BY <1>0, <2>2, <2>3, IntactForgets, Zenon
  <2>5. ASSUME d = current PROVE LineOf(d)'
    <3>1. CASE d = c
      BY <2>1, <2>3, <2>5, <3>1, LineEnds, Zenon
    <3>2. CASE d # c
      <4>1. inbox'[d] = inbox[d] /\ hand'[d] = hand[d] /\ said'[d] = said[d] /\ calls'[d] = calls[d]
        BY <1>0, <2>1, <3>2, EndsOthers, Zenon
      <4>2. Queue(d)' = Queue(d)
        BY <4>1, Zenon DEF Queue
      <4> QED
        BY <2>1, <2>2, <2>3, <2>5, <3>2, <4>1, <4>2, LineOfKept, Zenon
    <3> QED
      BY <3>1, <3>2, Zenon
  <2> QED
    BY <2>1, <2>4, <2>5, Zenon
<1>3. ASSUME NEW c \in Connections, ServerSays(c) \/ Receive(c) \/ DecodeFrame(c)
      PROVE  IntactOf(d)' /\ (d = current' => LineOf(d)')
  <2>1. ~crossed /\ current = c /\ UNCHANGED current
    <3>1. CASE DecodeFrame(c)
      <4>1. crossed' = (crossed \/ current # c) /\ UNCHANGED current
        BY <3>1, Zenon DEF DecodeFrame
      <4>2. ~(crossed \/ current # c)
        BY <1>s, <4>1
      <4> QED
        BY <4>1, <4>2, Zenon
    <3>2. CASE ServerSays(c) \/ Receive(c)
      <4>1. UNCHANGED <<crossed, current>> /\ current = c
        BY <3>2, Zenon DEF ServerSays, Receive
      <4> QED
        BY <1>s, <4>1, Zenon
    <3> QED
      BY <1>3, <3>1, <3>2, Zenon
  <2>2. IntactOf(d) /\ (d = current => LineOf(d))
    BY <1>s, <2>1, Zenon
  <2>3. CASE d = c
    <3>1. LineOf(c) /\ IntactOf(c)
      BY <2>1, <2>2, <2>3, Zenon
    <3>2. CASE ServerSays(c)
      BY <2>3, <3>1, <3>2, LineServerSays, Zenon
    <3>3. CASE DecodeFrame(c)
      BY <2>3, <3>1, <3>3, LineDecode, Zenon
    <3>4. CASE Receive(c)
      <4>1. UNCHANGED <<said, calls>>
        BY <3>4, Zenon DEF Receive
      <4> QED
        BY <2>3, <3>1, <3>4, <4>1, LineReceive, IntactOfKept, Zenon
    <3> QED
      BY <1>3, <3>2, <3>3, <3>4, Zenon
  <2>4. CASE d # c
    <3>1. said'[d] = said[d] /\ calls'[d] = calls[d]
      <4>1. CASE ServerSays(c)
        BY <1>0, <2>4, <4>1, SMTT(20) DEF ServerSays, StreamInv
      <4>2. CASE Receive(c)
        BY <4>2, ZenonT(30) DEF Receive
      <4>3. CASE DecodeFrame(c)
        BY <1>0, <2>4, <4>3 DEF DecodeFrame, StreamInv
      <4> QED
        BY <1>3, <4>1, <4>2, <4>3, Zenon
    <3> QED
      BY <2>1, <2>2, <2>4, <3>1, IntactOfKept, Zenon
  <2> QED
    BY <2>3, <2>4, Zenon
<1>4. ASSUME NEW c \in Connections, Check(c) PROVE IntactOf(d)' /\ (d = current' => LineOf(d)')
  <2>1. UNCHANGED crossed
    BY <1>4, Zenon DEF Check
  <2> QED
    BY <1>4, <1>s, <2>1, LineCheck, Zenon
<1>5. ASSUME NEW t \in Threads,
             SendLock(t) \/ SendFrame(t) \/ Acknowledge(t) \/ Announce(t) \/ Opened(t) \/ Dispatch(t) \/ Emit
      PROVE  IntactOf(d)' /\ (d = current' => LineOf(d)')
  <2>1. UNCHANGED <<current, inbox, hand, said, calls>> /\ Moves(d)
    BY <1>5, SendersMove, Zenon
  <2>2. UNCHANGED <<parser, kept, crossed>>
    BY <1>5, Zenon DEF SendLock, SendFrame, Acknowledge, Announce, Opened, Dispatch, Emit, inbound, config
  <2>3. link'[d] # "lost" => link[d] # "lost"
    <3>1. link[d] = "connecting" => link[d] # "lost"
      OBVIOUS
    <3> QED
      BY <2>1, <3>1, Zenon DEF Moves
  <2>4. Queue(d)' = Queue(d)
    BY <2>1, Zenon DEF Queue
  <2> QED
    BY <1>s, <2>1, <2>2, <2>3, <2>4, LineOfKept, IntactOfKept, Zenon
<1> QED
  BY <1>1, <1>2, <1>3, <1>4, <1>5, ThreadFacts, Zenon DEF Next

(* Both, at the beginning and when nothing happens.                             *)
LEMMA HistoryInit == Init => OutInv /\ InInv
<1> SUFFICES ASSUME Init PROVE OutInv /\ InInv
  OBVIOUS
<1>1. /\ server = [c \in Connections |-> Hearing] /\ begun = [c \in Connections |-> <<>>]
      /\ said = begun /\ calls = begun /\ inbox = begun /\ hand = begun
      /\ lock = Nobody /\ current = 0 /\ part = [t \in Threads |-> 0]
  BY Zenon DEF Init
<1>2. DOMAIN server = Connections /\ begun \in [Connections -> Seq(Outgoing)]
  BY <1>1, EmptySeq
<1>3. Nobody \notin Threads
  BY ThreadFacts
<1>4. ASSUME NEW c \in Connections PROVE HeardOf(c)
  <2>1. server[c] = Hearing /\ begun[c] = <<>>
    BY <1>1
  <2>2. ~Mid(c)
    BY <1>1, <1>3, Zenon DEF Mid
  <2>3. Hearing.kept = Idle /\ Hearing.packets = <<>> /\ Hearing.ok = TRUE
    BY DEF Hearing
  <2>4. Len(<<>>) = 0 /\ IsSequence(<<>>) /\ \A k \in 1 .. 0 : FALSE
    <3>1. <<>> \in Seq(Outgoing) /\ Len(<<>>) = 0 /\ \A k \in 1 .. 0 : FALSE
      BY EmptySeq
    <3>2. IsSequence(<<>>)
      BY <3>1, SeqIsSequence, Zenon
    <3> QED
      BY <3>1, <3>2, Zenon
  <2> QED
    BY <2>1, <2>2, <2>3, <2>4, Zenon DEF HeardOf
<1>5. OutInv
  BY <1>2, <1>4, Zenon DEF OutInv
<1>6. ASSUME NEW c \in Connections PROVE IntactOf(c) /\ LineOf(c)
  <2>1. said[c] = <<>> /\ calls[c] = <<>> /\ hand[c] = <<>> /\ inbox[c] = <<>>
    BY <1>1
  <2>2. <<>> \o <<>> = <<>>
    <3>1. <<>> \in Seq({})
      BY EmptySeq
    <3> QED
      BY <3>1, QueueParts, Zenon
  <2> QED
    BY <2>1, <2>2, LineOfNew, Zenon DEF Queue
<1> QED
  BY <1>5, <1>6, Zenon DEF InInv

(* When nothing happens, nothing changes.                                       *)
LEMMA HistoryStutter == OutInv /\ InInv /\ UNCHANGED vars => OutInv' /\ InInv'
<1> SUFFICES ASSUME OutInv, InInv, UNCHANGED vars PROVE OutInv' /\ InInv'
  OBVIOUS
<1>1. UNCHANGED <<parser, current, link, inbox, hand, kept, said, calls, crossed>>
  BY Zenon DEF vars, inbound, config
<1>2. UNCHANGED <<parser, lock, engine, part, server, begun, torn, job, link>>
  BY Zenon DEF vars, outbound, config
<1>3. \A d \in Connections : (Mid(d)' <=> Mid(d))
  BY <1>2, Zenon DEF Mid
<1>4. OutInv'
  BY <1>2, <1>3, HeardStays, Zenon
<1>5. \A d \in Connections : Queue(d)' = Queue(d)
  BY <1>1, Zenon DEF Queue
<1>6. ASSUME ~crossed', NEW d \in Connections PROVE IntactOf(d)' /\ (d = current' => LineOf(d)')
  <2>1. ~crossed
    BY <1>1, <1>6, Zenon
  <2> QED
    BY <1>1, <1>5, <2>1, LineOfKept, IntactOfKept, Zenon DEF InInv
<1> QED
  BY <1>4, <1>6, Zenon DEF InInv

(* Both always hold.                                                            *)
LEMMA HistoryAlways == Spec => [](ControlInv /\ OutInv /\ InInv)
<1>1. Init => ControlInv /\ OutInv /\ InInv
  BY ControlInit, HistoryInit
<1>2. ControlInv /\ OutInv /\ InInv /\ [Next]_vars => (OutInv /\ InInv)'
  BY OutStep, InStep, HistoryStutter, Zenon
<1>3. Spec => []ControlInv
  BY ControlAlways, PTL
<1> QED
  BY <1>1, <1>2, <1>3, PTL DEF Spec
-----------------------------------------------------------------------------
(* What it shows.                                                               *)

(* TypeOK: the variables keep their types, a thread has send_mutex_ exactly while it  *)
(* sends, to an engine that exists, and the parser waits for nothing but attachments  *)
(* of a header.                                                                 *)
THEOREM FramesTyped == Spec => []TypeOK
<1>1. ControlInv => TypeOK
  <2> SUFFICES ASSUME ControlInv PROVE TypeOK
    OBVIOUS
  <2>0. TypeInv /\ StreamInv /\ LockInv
    BY DEF ControlInv
  <2>1. kept.packet = <<>> /\ Len(kept.pending) <= 1
    BY <2>0, MixtureAssumption, Zenon DEF TypeInv, StreamInv
  <2>2. \A t \in Threads : job[t] \in Seq(Outgoing)
    BY <2>0 DEF TypeInv
  <2> QED
    BY <2>0, <2>1, <2>2, Zenon DEF TypeOK, TypeInv, LockInv, Links
<1> QED
  BY <1>1, ControlAlways, PTL

(* AckOnce: an event of the server is acknowledged at most once, whichever threads    *)
(* call its reply callback and however often.                                   *)
THEOREM FramesAckOnce == Spec => []AckOnce
  BY ControlAlways, PTL

(* ServerUnderstands: the server finds the packets that were sent on a connection,    *)
(* whole and in their order, although threads send at the same time and engines come  *)
(* and go.                                                                      *)
THEOREM FramesServerUnderstands == Spec => []ServerUnderstands
<1>1. OutInv => ServerUnderstands
  <2> SUFFICES ASSUME OutInv, ~torn, NEW c \in Connections
               PROVE  /\ server[c].ok
                      /\ Len(server[c].packets) \in {Len(begun[c]), Len(begun[c]) - 1}
                      /\ \A k \in DOMAIN server[c].packets : Plain(server[c].packets[k]) = begun[c][k]
    BY Zenon DEF ServerUnderstands
  <2>1. HeardOf(c) /\ begun[c] \in Seq(Outgoing)
    BY DEF OutInv
  <2> DEFINE found == server[c].packets
  <2>2. /\ server[c].ok /\ IsSequence(found)
        /\ \A k \in 1 .. Len(found) : Plain(found[k]) = begun[c][k]
        /\ Len(begun[c]) = Len(found) + 1 \/ Len(begun[c]) = Len(found)
    BY <2>1, Zenon DEF HeardOf
  <2> HIDE DEF found
  <2>3. Len(found) \in Nat /\ DOMAIN found = 1 .. Len(found)
    BY <2>2 DEF IsSequence
  <2>4. Len(found) \in {Len(begun[c]), Len(begun[c]) - 1}
    <3>1. CASE Len(begun[c]) = Len(found) + 1
      BY <2>3, <3>1
    <3>2. CASE Len(begun[c]) = Len(found)
      BY <3>2
    <3> QED
      BY <2>2, <3>1, <3>2, SMTT(20)
  <2> QED
    BY <2>2, <2>3, <2>4, Zenon DEF found
<1> QED
  BY <1>1, HistoryAlways, PTL

(* DeliveredIntact: the sockets hear what the server said on a connection, in its      *)
(* order, nothing twice and no message with parts of another, whatever an earlier      *)
(* connection has left in the parser.                                           *)
THEOREM FramesDeliveredIntact == Spec => []DeliveredIntact
<1>1. ControlInv /\ InInv => DeliveredIntact
  <2> SUFFICES ASSUME ControlInv, InInv, ~crossed, NEW c \in Connections
               PROVE  /\ Len(calls[c]) <= Len(said[c])
                      /\ \A k \in DOMAIN calls[c] : calls[c][k] = Meant(said[c][k])
    BY Zenon DEF DeliveredIntact
  <2>1. IntactOf(c)
    BY Zenon DEF InInv
  <2>2. DOMAIN calls[c] = 1 .. Len(calls[c])
    <3>1. IsSequence(calls[c])
      BY QueueType, Zenon
    <3> QED
      BY <3>1 DEF IsSequence
  <2> QED
    BY <2>1, <2>2, Zenon DEF IntactOf
<1> QED
  BY <1>1, HistoryAlways, PTL

(* NothingSwallowed: when the thread of the current connection has no frame in hand and *)
(* none is to be read, the sockets have heard everything that was said.         *)
THEOREM FramesNothingSwallowed == Spec => []NothingSwallowed
<1>1. ControlInv /\ InInv => NothingSwallowed
  <2> SUFFICES ASSUME ControlInv, InInv, ~crossed, NEW c \in Connections,
                      current = c, link[c] = "open", pc[c] = "idle", inbox[c] = <<>>
               PROVE  calls[c] = [k \in DOMAIN said[c] |-> Meant(said[c][k])]
    BY Zenon DEF NothingSwallowed
  <2>1. IntactOf(c) /\ LineOf(c) /\ link[c] # "lost"
    BY DEF InInv
  <2>2. IsSequence(calls[c]) /\ said[c] \in Seq(Messages)
    BY QueueType, Zenon
  <2>3. Queue(c) = <<>>
    <3>1. hand[c] = <<>>
      BY Zenon DEF ControlInv, LinkInv
    <3>2. <<>> \o <<>> = <<>>
      <4>1. <<>> \in Seq({})
        BY EmptySeq
      <4> QED
        BY <4>1, QueueParts, Zenon
    <3> QED
      BY <3>1, <3>2, Zenon DEF Queue
  <2>4. PICK m, i : /\ UnderAll(parser, said[c], <<>>, m, i)
                    /\ LineStart(parser, said[c], Len(calls[c]), kept, m, i)
    BY <2>1, <2>3, Zenon DEF LineOf
  <2>5. m = Len(said[c]) /\ i = CountAt(parser, said[c], Len(said[c]))
    BY <2>4, LineAtEnd, Zenon
  <2>6. CountAt(parser, said[c], Len(said[c])) \in Nat
    <3>1. Len(said[c]) \in 0 .. Len(said[c]) /\ parser \in Parsers
      BY <2>2, LenProperties DEF ControlInv, TypeInv
    <3> QED
      BY <2>2, <3>1, CountNat, Zenon
  <2>7. ~(i < CountAt(parser, said[c], m))
    BY <2>5, <2>6
  <2>8. Len(calls[c]) = Len(said[c])
    BY <2>4, <2>5, <2>7, Zenon DEF LineStart
  <2>9. DOMAIN said[c] = 1 .. Len(calls[c]) /\ calls[c] = [k \in 1 .. Len(calls[c]) |-> calls[c][k]]
    BY <2>2, <2>8, LenProperties, SMTT(20) DEF IsSequence
  <2>10. \A k \in 1 .. Len(calls[c]) : calls[c][k] = Meant(said[c][k])
    BY <2>1, Zenon DEF IntactOf
  <2> QED
    BY <2>9, <2>10, SMTT(20)
<1> QED
  BY <1>1, HistoryAlways, PTL
=============================================================================
