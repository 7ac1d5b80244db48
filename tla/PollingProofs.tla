---------------------------- MODULE PollingProofs ----------------------------
(***************************************************************************)
(* The safety properties of PollingTransport, for any number of messages,     *)
(* with and without callbacks that close or throw, on threads of its own and   *)
(* on the strand of an io_context.                                          *)
(***************************************************************************)
EXTENDS PollingTransport, TLAPS

\* The messages in a sequence that may hold Start and Close too, and their order.
Messages(s)   == {k \in Range(s) : k > 0}
Increasing(s) == \A i, j \in DOMAIN s : i < j /\ s[i] > 0 /\ s[j] > 0 => s[i] < s[j]
Before(A, B)  == \A a \in A, b \in B : a < b

\* Messages up to n on their way to the server, in the order of the calls of send(): w has
\* been posted, p is under way, q is queued, s is posted to the strand.
Lined(w, p, q, s, n) ==
    /\ n \in Nat /\ w \in Seq(Int) /\ q \in Seq(Int) /\ s \in Seq(Int)
    /\ Range(w) \cup p \cup Range(q) \subseteq 1 .. n
    /\ Range(s) \subseteq {Start, Close} \cup 1 .. n
    /\ Increasing(w) /\ Increasing(q) /\ Increasing(s)
    /\ Before(Range(w), p \cup Range(q) \cup Messages(s))
    /\ Before(p, Range(q) \cup Messages(s))
    /\ Before(Range(q), Messages(s))

\* At most one POST is under way, and only on a strand, where there is no write worker.
OrderInv ==
    /\ Lined(wire, posts, queue, strand, sent)
    /\ writing \in BOOLEAN /\ (~writing => posts = {}) /\ \A k, l \in posts : k = l
    /\ pc = [x \in Threads |-> pc[x]] /\ external \in BOOLEAN
    /\ external  => pc[Write] = "unborn"
    /\ ~external => posts = {} /\ strand = <<>>

\* close() past shutdown_once_, until it has reported the close if that is left to it.
Reports == {"close_flag", "close_notify", "close_session", "close_report"}

\* The order in which a shutdown happens: whoever closes holds connect_mutex_ and has
\* used shutdown_once_, closing_ is set before the mutex is free again, and the joins
\* come after that.
CloseInv ==
    /\ pc = [x \in Threads |-> pc[x]]
    /\ \A t \in Threads : pc[t] \in {"close_flag", "close_notify", "close_session", "joining"} =>
          connecting = t
    /\ \A t \in Threads : pc[t] \in Reports => once
    /\ once => closing \/ \E t \in Threads : pc[t] = "close_flag"
    /\ pc[Closer] \in {"join", "joining", "synced"} /\ ~external => once
    /\ SyncCloseStopsTransport

\* fail() until it calls on_close_: on its way to on_error_, and in that listener, which may
\* be anywhere in a close() of its own.
InFail == {"fail_clear", "fail_notify", "error", "called", "close",
           "close_flag", "close_notify", "close_session"}

\* close() has set closing_ and is on its way to on_close_.
CloseOwes == notify /\ \E t \in Threads : pc[t] \in Reports \ {"close_flag"}

\* So is fail().
FailOwes == \E t \in {Poll, Write} : failer = t /\ pc[t] \in InFail

\* One thread ends the transport, whichever sets closing_, and the report of the close has one
\* owner until it is made: close(), of which one gets past shutdown_once_, or fail().
EndInv ==
    /\ pc = [x \in Threads |-> pc[x]]
    /\ closing \in BOOLEAN /\ once \in BOOLEAN /\ notify \in BOOLEAN
    /\ failer \in {Nobody, Lost, Poll, Write} /\ (failer = Lost => CallbacksThrow)
    /\ closes \in {0, 1} /\ errors \in {0, 1}
    /\ ~closing => closes = 0 /\ errors = 0 /\ ~notify /\ failer = Nobody
    /\ closing  => closes = 1 \/ notify \/ failer # Nobody
    /\ closes = 1 => ~notify /\ failer = Nobody
    /\ notify => failer = Nobody /\ \E t \in Threads : pc[t] \in Reports \ {"close_flag"}
    /\ \A t \in Threads : pc[t] \in {"fail_clear", "fail_notify"} => failer = t /\ errors = 0
    /\ \A t \in Threads : pc[t] = "error" => failer = t
    /\ \A t \in {Poll, Write} : failer = t => pc[t] \in InFail
    /\ \A t \in Threads : pc[t] \in Reports => once
    /\ \A t, u \in Threads : pc[t] \in Reports /\ pc[u] \in Reports => t = u
    /\ \A t \in Threads : pc[t] = "close_report" => notify

\* The other variables of TypeOK, apart from the messages, which OrderInv is about.
FlagsTyped ==
    /\ eclosing \in BOOLEAN /\ sid \in BOOLEAN
    /\ state \in {"closed", "connecting", "open"}
    /\ connecting \in {Nobody, Closer, Poll, Write}
    /\ sent \in 0 .. MaxSends
-----------------------------------------------------------------------------
(* What an Append does to the order of a sequence and to its elements.              *)
LEMMA AppendOrder ==
    ASSUME NEW s \in Seq(Int), NEW e \in Int
    PROVE  /\ Append(s, e) \in Seq(Int)
           /\ Range(Append(s, e)) = Range(s) \cup {e}
           /\ Increasing(s) /\ (e > 0 => Before(Messages(s), {e})) => Increasing(Append(s, e))
<1>1. /\ Append(s, e) \in Seq(Int) /\ DOMAIN s = 1 .. Len(s) /\ Len(s) \in Nat
      /\ DOMAIN Append(s, e) = 1 .. Len(s) + 1
      /\ \A i \in DOMAIN s : Append(s, e)[i] = s[i]
      /\ Append(s, e)[Len(s) + 1] = e
  BY SMT
<1>2. Range(Append(s, e)) = Range(s) \cup {e}
  BY <1>1, SMT DEF Range
<1>3. ASSUME Increasing(s), e > 0 => Before(Messages(s), {e}) PROVE Increasing(Append(s, e))
  <2>1. \A i \in DOMAIN s : s[i] > 0 /\ e > 0 => s[i] < e
    BY <1>3 DEF Before, Messages, Range
  <2> QED
    BY <1>1, <1>3, <2>1, SMT DEF Increasing
<1> QED
  BY <1>1, <1>2, <1>3

(* What a Tail does to them.                                                      *)
LEMMA TailOrder ==
    ASSUME NEW s \in Seq(Int), s # <<>>
    PROVE  /\ Tail(s) \in Seq(Int) /\ Head(s) \in Int
           /\ Range(Tail(s)) \subseteq Range(s) /\ Head(s) \in Range(s)
           /\ Increasing(s) => /\ Increasing(Tail(s))
                               /\ Head(s) > 0 => Before({Head(s)}, Messages(Tail(s)))
<1>1. /\ Tail(s) \in Seq(Int) /\ DOMAIN s = 1 .. Len(s) /\ Len(s) \in Nat \ {0}
      /\ Head(s) = s[1] /\ s[1] \in Int
      /\ DOMAIN Tail(s) = 1 .. Len(s) - 1
      /\ \A i \in DOMAIN Tail(s) : Tail(s)[i] = s[i + 1] /\ i + 1 \in DOMAIN s
      /\ 1 \in DOMAIN s
  BY SMT
<1>2. Range(Tail(s)) \subseteq Range(s) /\ Head(s) \in Range(s)
  BY <1>1, SMT DEF Range
<1>3. ASSUME Increasing(s)
      PROVE  Increasing(Tail(s)) /\ (Head(s) > 0 => Before({Head(s)}, Messages(Tail(s))))
  <2>1. Increasing(Tail(s))
    BY <1>1, <1>3, SMT DEF Increasing
  <2>2. ASSUME NEW i \in DOMAIN Tail(s), s[1] > 0, Tail(s)[i] > 0 PROVE s[1] < Tail(s)[i]
    <3>1. Tail(s)[i] = s[i + 1] /\ i + 1 \in DOMAIN s /\ 1 \in DOMAIN s /\ 1 < i + 1
      BY <1>1
    <3> QED
      BY <1>3, <2>2, <3>1 DEF Increasing
  <2>3. ASSUME Head(s) > 0, NEW m \in Messages(Tail(s)) PROVE Head(s) < m
    <3>1. PICK i \in DOMAIN Tail(s) : m = Tail(s)[i] /\ m > 0
      BY <2>3, Zenon DEF Messages, Range
    <3> QED
      BY <1>1, <2>2, <2>3, <3>1
  <2> QED
    BY <2>1, <2>3, Zenon DEF Before
<1> QED
  BY <1>1, <1>2, <1>3

(* A message, or another call, is posted to the strand.                             *)
LEMMA LinedPost ==
    ASSUME NEW w, NEW p, NEW q, NEW s, NEW n, Lined(w, p, q, s, n)
    PROVE  /\ \A e \in {Start, Close} : Lined(w, p, q, Append(s, e), n)
           /\ Lined(w, p, q, Append(s, n + 1), n + 1)
<1>1. ASSUME NEW e \in {Start, Close} PROVE Lined(w, p, q, Append(s, e), n)
  BY <1>1, AppendOrder, SMT DEF Lined, Messages, Before, Start, Close
<1>2. Lined(w, p, q, Append(s, n + 1), n + 1)
  <2>1. n + 1 \in Int /\ n + 1 > 0 /\ s \in Seq(Int) /\ Increasing(s)
    BY SMT DEF Lined
  <2>2. Before(Messages(s), {n + 1}) /\ Messages(s) \subseteq 1 .. n
    BY SMT DEF Lined, Messages, Before, Start, Close
  <2>3. /\ Append(s, n + 1) \in Seq(Int) /\ Increasing(Append(s, n + 1))
        /\ Range(Append(s, n + 1)) = Range(s) \cup {n + 1}
    BY <2>1, <2>2, AppendOrder
  <2>4. Messages(Append(s, n + 1)) = Messages(s) \cup {n + 1}
    BY <2>1, <2>3, Zenon DEF Messages
  <2> QED
    BY <2>2, <2>3, <2>4, SMT DEF Lined, Before
<1> QED
  BY <1>1, <1>2

(* A message is queued: by send(), refused by it, or taken from the strand.            *)
LEMMA LinedQueue ==
    ASSUME NEW w, NEW p, NEW q, NEW s, NEW n, Lined(w, p, q, s, n)
    PROVE  /\ Lined(w, p, q, s, n + 1)
           /\ s = <<>> => Lined(w, p, Append(q, n + 1), s, n + 1)
           /\ s # <<>> => Lined(w, p, q, Tail(s), n)
           /\ s # <<>> /\ Head(s) \notin {Start, Close} =>
                 Lined(w, p, Append(q, Head(s)), Tail(s), n)
<1>1. Lined(w, p, q, s, n + 1)
  BY SMT DEF Lined, Start, Close
<1>2. ASSUME s = <<>> PROVE Lined(w, p, Append(q, n + 1), s, n + 1)
  <2>1. Messages(s) = {}
    BY <1>2, SMT DEF Messages, Range
  <2> QED
    BY <2>1, AppendOrder, SMT DEF Lined, Messages, Before, Start, Close
<1>3. ASSUME s # <<>> PROVE Lined(w, p, q, Tail(s), n)
  BY <1>3, TailOrder, SMT DEF Lined, Messages, Before
<1>4. ASSUME s # <<>>, Head(s) \notin {Start, Close}
      PROVE  Lined(w, p, Append(q, Head(s)), Tail(s), n)
  <2>1. Head(s) \in Messages(s) /\ Head(s) \in Int /\ Head(s) > 0 /\ Head(s) \in 1 .. n
    <3>1. Head(s) \in Range(s) /\ Head(s) \in Int /\ n \in Nat
      BY <1>4, TailOrder DEF Lined
    <3>2. Head(s) \in 1 .. n
      BY <1>4, <3>1 DEF Lined
    <3> QED
      BY <3>1, <3>2 DEF Messages
  <2>2. Before({Head(s)}, Messages(Tail(s))) /\ Messages(Tail(s)) \subseteq Messages(s)
    BY <1>4, <2>1, TailOrder DEF Lined, Messages
  <2>3. /\ Append(q, Head(s)) \in Seq(Int)
        /\ Range(Append(q, Head(s))) = Range(q) \cup {Head(s)}
        /\ Increasing(Append(q, Head(s)))
    BY <2>1, AppendOrder, SMT DEF Lined, Messages, Before
  <2> QED
    BY <1>3, <1>4, <2>1, <2>2, <2>3, SMT DEF Lined, Before
<1> QED
  BY <1>1, <1>2, <1>3, <1>4

(* A message leaves the queue, its POST ends, or the queue is cleared.                *)
LEMMA LinedSend ==
    ASSUME NEW w, NEW p, NEW q, NEW s, NEW n, Lined(w, p, q, s, n)
    PROVE  /\ p = {} /\ q # <<>> => Lined(w, {Head(q)}, Tail(q), s, n)
           /\ \A k : p = {k} => Lined(Append(w, k), {}, q, s, n) /\ Lined(w, {}, q, s, n)
           /\ Lined(w, p, <<>>, s, n)
<1>1. ASSUME p = {}, q # <<>> PROVE Lined(w, {Head(q)}, Tail(q), s, n)
  <2>1. /\ Tail(q) \in Seq(Int) /\ Increasing(Tail(q)) /\ Range(Tail(q)) \subseteq Range(q)
        /\ Head(q) \in Range(q) /\ Head(q) \in 1 .. n
    BY <1>1, TailOrder DEF Lined
  <2>2. Before({Head(q)}, Range(Tail(q)))
    BY <1>1, <2>1, TailOrder, SMT DEF Lined, Before, Messages
  <2> QED
    BY <1>1, <2>1, <2>2, SMT DEF Lined, Before
<1>2. ASSUME NEW k, p = {k}
      PROVE  Lined(Append(w, k), {}, q, s, n) /\ Lined(w, {}, q, s, n)
  <2>1. k \in 1 .. n /\ Before(Messages(w), {k})
    BY <1>2, SMT DEF Lined, Before, Messages
  <2>2. /\ Append(w, k) \in Seq(Int) /\ Range(Append(w, k)) = Range(w) \cup {k}
        /\ Increasing(Append(w, k))
    <3>1. k \in Int /\ w \in Seq(Int) /\ Increasing(w)
      BY <2>1 DEF Lined
    <3> QED
      BY <2>1, <3>1, AppendOrder
  <2>3. Before(Range(w) \cup {k}, Range(q) \cup Messages(s))
    BY <1>2, Zenon DEF Lined, Before
  <2>4. Range(w) \cup {k} \subseteq 1 .. n
    BY <2>1, Zenon DEF Lined
  <2>5. Lined(Append(w, k), {}, q, s, n)
    BY <2>2, <2>3, <2>4 DEF Lined, Before
  <2>6. Lined(w, {}, q, s, n)
    BY Zenon DEF Lined, Before
  <2> QED
    BY <2>5, <2>6
<1>3. Lined(w, p, <<>>, s, n)
  <2>1. <<>> \in Seq(Int) /\ Range(<<>>) = {} /\ Increasing(<<>>)
    BY SMT DEF Range, Increasing
  <2> QED
    BY <2>1, SMT DEF Lined, Before
<1> QED
  BY <1>1, <1>2, <1>3
-----------------------------------------------------------------------------
\* A step that leaves what OrderInv is about alone, except perhaps that it clears the queue.
OrderKept ==
    /\ UNCHANGED <<sent, wire, strand, posts, writing, external>>
    /\ queue' = queue \/ queue' = <<>>
    /\ pc' = [x \in Threads |-> pc'[x]]
    /\ pc[Write] = "unborn" /\ external => pc'[Write] = "unborn"

(* Such a step keeps OrderInv.                                                     *)
LEMMA OrderKeeps == OrderInv /\ OrderKept => OrderInv'
<1> SUFFICES ASSUME OrderInv, OrderKept PROVE OrderInv'
  BY Zenon
<1>1. Lined(wire, posts, queue', strand, sent)
  BY LinedSend DEF OrderInv, OrderKept
<1> QED
  BY <1>1, Zenon DEF OrderInv, OrderKept

(* The threads have names of their own.                                              *)
LEMMA ThreadNames ==
    /\ Opener \in Threads /\ Sender \in Threads /\ Closer \in Threads
    /\ Poll \in Threads /\ Write \in Threads /\ Ender \in Threads
    /\ Write \notin {Opener, Sender, Closer, Poll, Ender}
    /\ Closer \notin {Opener, Sender, Poll, Ender} /\ Ender \notin {Opener, Sender, Poll}
    /\ Nobody \notin Threads
BY Zenon DEF Threads, Workers, Opener, Sender, Closer, Poll, Write, Ender, Nobody

(* Steps of close(), fail() and callbacks, on any thread.                             *)
LEMMA OrderClosing ==
    ASSUME OrderInv, NEW t \in {Closer, Poll, Write},
           Closes(t) \/ Fails(t) \/ CallbackActs(t)
    PROVE  OrderInv'
<1> USE ThreadNames
<1> SUFFICES OrderKept
  BY OrderKeeps, Zenon
<1>0. pc = [x \in Threads |-> pc[x]] /\ t \in Threads
  BY Zenon DEF OrderInv
<1>1. CASE CloseLock(t)
  BY <1>0, <1>1 DEF CloseLock, OrderKept, Goto, ext, CloseReturns, Woken
<1>2. CASE CloseFlag(t)
  BY <1>0, <1>2 DEF CloseFlag, OrderKept, Goto, ext
<1>3. CASE CloseNotify(t)
  BY <1>0, <1>3 DEF CloseNotify, OrderKept, ext, Woken
<1>4. CASE CloseSession(t)
  BY <1>0, <1>4 DEF CloseSession, OrderKept, ext, CloseReturns
<1>5. CASE FailFlag(t)
  BY <1>0, <1>5 DEF FailFlag, OrderKept, Goto, ext, Woken
<1>6. CASE FailClear(t)
  BY <1>0, <1>6 DEF FailClear, OrderKept, Goto, ext, Woken
<1>7. CASE FailNotify(t)
  BY <1>0, <1>7 DEF FailNotify, OrderKept, ext, Woken
<1>8. CASE CallbackReturns(t)
  BY <1>0, <1>8 DEF CallbackReturns, OrderKept, Goto, Ended, ext, Woken
<1>9. CASE CallbackCloses(t)
  BY <1>0, <1>9 DEF CallbackCloses, OrderKept, Goto, ext, Woken
<1>10. CASE CloseReport(t)
  BY <1>0, <1>10 DEF CloseReport, OrderKept, Goto, ext
<1>11. CASE FailClose(t)
  BY <1>0, <1>11 DEF FailClose, OrderKept, Goto, ext
<1>12. CASE CallbackThrows(t)
  BY <1>0, <1>12 DEF CallbackThrows, OrderKept, Goto, Ended, ext
<1> QED
  BY <1>1, <1>2, <1>3, <1>4, <1>5, <1>6, <1>7, <1>8, <1>9, <1>10, <1>11, <1>12
     DEF Closes, Fails, CallbackActs

(* Calls that are posted to the strand.                                             *)
LEMMA OrderPosted ==
    ASSUME OrderInv, Connect \/ SendPosted \/ ClosePosted
    PROVE  OrderInv'
<1> USE ThreadNames
<1>0. pc = [x \in Threads |-> pc[x]] /\ Lined(wire, posts, queue, strand, sent)
  BY Zenon DEF OrderInv
<1>1. CASE SendPosted
  <2>1. Lined(wire, posts, queue, strand', sent')
    BY <1>0, <1>1, LinedPost DEF SendPosted
  <2> QED
    BY <1>1, <2>1 DEF SendPosted, OrderInv
<1>2. CASE ClosePosted
  <2>1. Lined(wire, posts, queue, strand', sent)
    BY <1>0, <1>2, LinedPost DEF ClosePosted
  <2>2. pc' = [x \in Threads |-> pc'[x]] /\ pc'[Write] = pc[Write]
    BY <1>0, <1>2 DEF ClosePosted, Goto
  <2> QED
    BY <1>2, <2>1, <2>2 DEF ClosePosted, OrderInv
<1>3. CASE Connect
  <2>1. Lined(wire, posts, queue, strand', sent)
    BY <1>0, <1>3, LinedPost DEF Connect
  <2>2. /\ pc' = [x \in Threads |-> pc'[x]] /\ (external => pc'[Write] = pc[Write])
        /\ ~external => strand' = strand
    BY <1>0, <1>3 DEF Connect, Goto, OrderInv
  <2> QED
    BY <1>3, <2>1, <2>2 DEF Connect, OrderInv
<1> QED
  BY <1>1, <1>2, <1>3

(* A transport on threads of its own: a message is queued, and the worker posts it.    *)
LEMMA OrderThreads ==
    ASSUME OrderInv, Send \/ WriteTest
    PROVE  OrderInv'
<1> USE ThreadNames
<1>0. pc = [x \in Threads |-> pc[x]] /\ Lined(wire, posts, queue, strand, sent)
  BY DEF OrderInv
<1>1. CASE Send
  <2>1. strand = <<>>
    BY <1>1, Zenon DEF Send, OrderInv
  <2>2. Lined(wire, posts, queue', strand, sent')
    BY <1>0, <1>1, <2>1, LinedQueue DEF Send
  <2>3. pc' = [x \in Threads |-> pc'[x]] /\ pc'[Write] = pc[Write]
    BY <1>0, <1>1 DEF Send, Goto
  <2> QED
    BY <1>1, <2>2, <2>3 DEF Send, OrderInv, ext
<1>2. CASE WriteTest
  <2>1. ~external /\ posts = {}
    BY <1>2, Zenon DEF WriteTest, OrderInv
  <2>2. Lined(wire', posts, queue', strand, sent)
    <3>1. CASE queue # <<>>
      <4>1. Lined(wire, {Head(queue)}, Tail(queue), strand, sent)
        BY <1>0, <2>1, <3>1, LinedSend
      <4>2. Lined(Append(wire, Head(queue)), {}, Tail(queue), strand, sent)
        BY <4>1, LinedSend
      <4> QED
        BY <1>2, <2>1, <3>1, <4>2 DEF WriteTest
    <3>2. CASE queue = <<>>
      BY <1>0, <1>2, <3>2 DEF WriteTest
    <3> QED
      BY <3>1, <3>2
  <2>3. pc' = [x \in Threads |-> pc'[x]]
    BY <1>0, <1>2 DEF WriteTest, Goto
  <2> QED
    BY <1>2, <2>1, <2>2, <2>3 DEF WriteTest, OrderInv, ext
<1> QED
  BY <1>1, <1>2

(* A transport on a strand: start_next_external_write, whoever calls it.               *)
LEMMA OrderNextWrite ==
    ASSUME NEW w, NEW q, NEW s, NEW n, NEW busy \in BOOLEAN, NEW active,
           Lined(w, active, q, s, n), ~busy => active = {}, \A k, l \in active : k = l,
           StartNextWrite(q, busy, active)
    PROVE  /\ Lined(w, posts', queue', s, n) /\ writing' \in BOOLEAN
           /\ (~writing' => posts' = {}) /\ \A k, l \in posts' : k = l
<1>1. CASE busy \/ q = <<>> \/ closing
  BY <1>1, Zenon DEF StartNextWrite
<1>2. CASE ~(busy \/ q = <<>> \/ closing)
  <2>1. posts' = {Head(q)} /\ queue' = Tail(q) /\ writing' = TRUE /\ active = {}
    BY <1>2, Zenon DEF StartNextWrite
  <2>2. Lined(w, {Head(q)}, Tail(q), s, n)
    BY <1>2, <2>1, LinedSend
  <2> QED
    BY <2>1, <2>2
<1> QED
  BY <1>1, <1>2

(* A posted call runs.                                                            *)
LEMMA OrderRunPosted == OrderInv /\ RunPosted => OrderInv'
<1> USE ThreadNames
<1> SUFFICES ASSUME OrderInv, RunPosted PROVE OrderInv'
  OBVIOUS
<1>1. /\ pc = [x \in Threads |-> pc[x]] /\ Lined(wire, posts, queue, strand, sent)
      /\ strand # <<>> /\ strand' = Tail(strand)
      /\ UNCHANGED <<wire, sent, external>>
  BY Zenon DEF OrderInv, RunPosted
<1>2. /\ pc' = [x \in Threads |-> pc'[x]] /\ pc'[Write] = pc[Write]
      /\ external
  BY <1>1, Zenon DEF RunPosted, Goto, OrderInv
<1>3. /\ Lined(wire, posts', queue', strand', sent) /\ writing' \in BOOLEAN
      /\ (~writing' => posts' = {}) /\ \A k, l \in posts' : k = l
  <2>1. CASE Head(strand) \in {Start, Close} \/ closing \/ state # "open"
    <3>1. UNCHANGED <<queue, posts, writing>>
      BY <2>1, Zenon DEF RunPosted
    <3>2. Lined(wire, posts, queue, Tail(strand), sent)
      BY <1>1, LinedQueue
    <3> QED
      BY <1>1, <3>1, <3>2 DEF OrderInv
  <2>2. CASE ~(Head(strand) \in {Start, Close} \/ closing \/ state # "open")
    <3>1. StartNextWrite(Append(queue, Head(strand)), writing, posts)
      BY <2>2 DEF RunPosted
    <3>2. Lined(wire, posts, Append(queue, Head(strand)), Tail(strand), sent)
      BY <1>1, <2>2, LinedQueue
    <3>3. /\ writing \in BOOLEAN /\ (~writing => posts = {})
          /\ \A k, l \in posts : k = l
      BY Zenon DEF OrderInv
    <3>4. /\ Lined(wire, posts', queue', Tail(strand), sent) /\ writing' \in BOOLEAN
          /\ (~writing' => posts' = {}) /\ \A k, l \in posts' : k = l
      BY <3>1, <3>2, <3>3, OrderNextWrite
    <3> QED
      BY <1>1, <3>4
  <2> QED
    BY <2>1, <2>2
<1> QED
  BY <1>1, <1>2, <1>3 DEF OrderInv

(* A POST on the strand ends.                                                      *)
LEMMA OrderPostCompletes == OrderInv /\ PostCompletes => OrderInv'
<1> USE ThreadNames
<1> SUFFICES ASSUME OrderInv, PostCompletes PROVE OrderInv'
  OBVIOUS
<1>1. /\ pc = [x \in Threads |-> pc[x]] /\ Lined(wire, posts, queue, strand, sent)
      /\ UNCHANGED <<strand, sent, external>>
  BY Zenon DEF OrderInv, PostCompletes
<1>2. PICK k \in posts :
         \/ /\ wire' = Append(wire, k)
            /\ StartNextWrite(queue, FALSE, posts \ {k})
            /\ UNCHANGED pc
         \/ /\ posts' = posts \ {k} /\ writing' = FALSE
            /\ Goto(Poll, IF closing THEN "strand" ELSE "fail")
            /\ UNCHANGED <<queue, wire>>
  BY Zenon DEF PostCompletes
<1>3. posts = {k} /\ posts \ {k} = {} /\ external
  BY Zenon DEF OrderInv
<1>4. pc' = [x \in Threads |-> pc'[x]] /\ pc'[Write] = pc[Write]
  BY <1>1, <1>2 DEF Goto
<1>5. Lined(Append(wire, k), {}, queue, strand, sent) /\ Lined(wire, {}, queue, strand, sent)
  BY <1>1, <1>3, LinedSend
<1>6. /\ Lined(wire', posts', queue', strand, sent) /\ writing' \in BOOLEAN
      /\ (~writing' => posts' = {}) /\ \A m, l \in posts' : m = l
  <2>1. CASE wire' = Append(wire, k) /\ StartNextWrite(queue, FALSE, posts \ {k})
    <3>1. /\ Lined(Append(wire, k), posts', queue', strand, sent) /\ writing' \in BOOLEAN
          /\ (~writing' => posts' = {}) /\ \A m, l \in posts' : m = l
      BY <1>3, <1>5, <2>1, OrderNextWrite
    <3> QED
      BY <2>1, <3>1
  <2>2. CASE posts' = posts \ {k} /\ writing' = FALSE /\ UNCHANGED <<queue, wire>>
    BY <1>3, <1>5, <2>2
  <2> QED
    BY <1>2, <2>1, <2>2
<1> QED
  BY <1>1, <1>3, <1>4, <1>6 DEF OrderInv

(* Every step keeps OrderInv.                                                      *)
LEMMA OrderStep == OrderInv /\ [Next]_vars => OrderInv'
<1> USE ThreadNames
<1> SUFFICES ASSUME OrderInv, [Next]_vars PROVE OrderInv'
  BY Zenon
<1>0. pc = [x \in Threads |-> pc[x]]
  BY Zenon DEF OrderInv
<1>1. CASE SendNotify \/ SyncClose \/ JoinLock \/ JoinThreads \/ EnderPosts
  BY <1>0, <1>1, OrderKeeps
     DEF SendNotify, SyncClose, JoinLock, JoinThreads, EnderPosts, OrderKept, Goto, Woken, ext
<1>2. CASE PollHandshake \/ PollReturns \/ PollNext \/ DeliverPacket \/ GetCompletes
  BY <1>0, <1>2, OrderKeeps
     DEF PollHandshake, PollReturns, PollNext, DeliverPacket, GetCompletes, OrderKept, Goto, ext
<1>3. CASE WriteSleeps \/ WritePosts
  BY <1>0, <1>3, OrderKeeps DEF WriteSleeps, WritePosts, OrderKept, Goto, ext
<1>4. CASE UNCHANGED vars
  BY <1>0, <1>4, OrderKeeps DEF vars, ext, OrderKept
<1> QED
  BY <1>1, <1>2, <1>3, <1>4, OrderClosing, OrderPosted, OrderThreads, OrderRunPosted,
     OrderPostCompletes
     DEF Next, CloserRuns, PollRuns, WriteRuns

(* OrderInv holds at the start.                                                     *)
LEMMA OrderInit == Init => OrderInv
<1> SUFFICES ASSUME Init PROVE OrderInv
  BY Zenon
<1>1. <<>> \in Seq(Int) /\ Range(<<>>) = {} /\ Increasing(<<>>) /\ Messages(<<>>) = {}
  BY SMT DEF Range, Increasing, Messages
<1>2. Lined(wire, posts, queue, strand, sent)
  BY <1>1 DEF Init, Lined, Before
<1> QED
  <2>1. pc = [x \in Threads |-> pc[x]] /\ external \in BOOLEAN
    BY Zenon DEF Init
  <2>2. pc[Write] = "unborn"
    BY ThreadNames DEF Init, Workers, Write, Poll
  <2> QED
    BY <1>2, <2>1, <2>2 DEF Init, OrderInv

(* For any number of messages: they are posted once, in the order of the calls of     *)
(* send(), whether by the write worker or by the completions on the strand, and       *)
(* however close(), fail() and callbacks come between.                              *)
THEOREM PostsInOrderAlways == Spec => []PostsInOrder
<1>1. OrderInv => PostsInOrder
  <2> SUFFICES ASSUME OrderInv, NEW i \in DOMAIN wire, NEW j \in DOMAIN wire, i < j
               PROVE  wire[i] < wire[j]
    BY Zenon DEF PostsInOrder
  <2>1. wire[i] \in Range(wire) /\ wire[j] \in Range(wire)
    BY Zenon DEF Range
  <2>2. wire[i] \in 1 .. sent /\ wire[j] \in 1 .. sent /\ sent \in Nat
    BY <2>1 DEF OrderInv, Lined
  <2>3. wire[i] > 0 /\ wire[j] > 0
    BY <2>2
  <2> QED
    BY <2>3 DEF OrderInv, Lined, Increasing
<1> QED
  BY <1>1, OrderInit, OrderStep, PTL DEF Spec
-----------------------------------------------------------------------------
(* Steps of close() on any thread keep CloseInv.                                    *)
LEMMA CloseCloses ==
    ASSUME CloseInv, NEW t \in {Closer, Poll, Write}, Closes(t)
    PROVE  CloseInv'
<1> USE ThreadNames
<1>0. pc = [x \in Threads |-> pc[x]] /\ t \in Threads
  BY Zenon DEF CloseInv
<1>1. CASE CloseLock(t)
  BY <1>0, <1>1 DEF CloseLock, CloseInv, SyncCloseStopsTransport, Workers, Reports, Goto, ext,
                    CloseReturns
<1>2. CASE CloseFlag(t)
  BY <1>0, <1>2, Zenon DEF CloseFlag, CloseInv, SyncCloseStopsTransport, Workers, Reports, Goto, ext
<1>3. CASE CloseNotify(t)
  BY <1>0, <1>3, Zenon DEF CloseNotify, CloseInv, SyncCloseStopsTransport, Workers, Reports,
                           Woken, ext, flags
<1>4. CASE CloseSession(t)
  BY <1>0, <1>4, Zenon DEF CloseSession, CloseInv, SyncCloseStopsTransport, Workers, Reports,
                           CloseReturns, ext, flags
<1>5. CASE CloseReport(t)
  BY <1>0, <1>5 DEF CloseReport, CloseInv, SyncCloseStopsTransport, Workers, Reports, Goto, ext,
                    flags
<1> QED
  BY <1>1, <1>2, <1>3, <1>4, <1>5 DEF Closes

(* Steps of fail() and of callbacks on the poll and the write thread.                 *)
LEMMA CloseFails ==
    ASSUME CloseInv, NEW t \in {Poll, Write}, Fails(t) \/ CallbackActs(t)
    PROVE  CloseInv'
<1> USE ThreadNames
<1>0. pc = [x \in Threads |-> pc[x]] /\ t \in Threads /\ t \in Workers /\ t # Closer
  BY Zenon DEF CloseInv, Workers
<1>1. CASE FailFlag(t)
  BY <1>0, <1>1 DEF FailFlag, CloseInv, SyncCloseStopsTransport, Workers, Reports, Goto, ext
<1>2. CASE FailClear(t)
  BY <1>0, <1>2 DEF FailClear, CloseInv, SyncCloseStopsTransport, Workers, Reports, Goto, ext, flags
<1>3. CASE FailNotify(t)
  BY <1>0, <1>3 DEF FailNotify, CloseInv, SyncCloseStopsTransport, Workers, Reports, Woken, ext,
                    flags
<1>4. CASE CallbackReturns(t)
  BY <1>0, <1>4 DEF CallbackReturns, CloseInv, SyncCloseStopsTransport, Workers, Reports, Goto,
                    Ended, ext, flags
<1>5. CASE CallbackCloses(t)
  BY <1>0, <1>5 DEF CallbackCloses, CloseInv, SyncCloseStopsTransport, Workers, Reports, Goto, ext
<1>6. CASE FailClose(t)
  BY <1>0, <1>6 DEF FailClose, CloseInv, SyncCloseStopsTransport, Workers, Reports, Goto, ext, flags
<1>7. CASE CallbackThrows(t)
  BY <1>0, <1>7 DEF CallbackThrows, CloseInv, SyncCloseStopsTransport, Workers, Reports, Goto,
                    Ended, ext, flags
<1> QED
  BY <1>1, <1>2, <1>3, <1>4, <1>5, <1>6, <1>7 DEF Fails, CallbackActs

(* Every step keeps CloseInv.                                                      *)
LEMMA CloseStep == CloseInv /\ [Next]_vars => CloseInv'
<1> USE ThreadNames
<1> SUFFICES ASSUME CloseInv, [Next]_vars PROVE CloseInv'
  OBVIOUS
<1>0. pc = [x \in Threads |-> pc[x]]
  BY Zenon DEF CloseInv
<1>1. CASE Connect
  BY <1>0, <1>1 DEF Connect, CloseInv, SyncCloseStopsTransport, Reports, Workers, Goto
<1>2. CASE Send \/ SendNotify \/ SendPosted
  BY <1>0, <1>2 DEF Send, SendNotify, SendPosted, CloseInv, SyncCloseStopsTransport, Reports,
                    Workers, Goto, Woken, ext, flags
<1>3. CASE SyncClose \/ ClosePosted
  BY <1>0, <1>3 DEF SyncClose, ClosePosted, CloseInv, SyncCloseStopsTransport, Reports, Goto, ext,
                    flags
<1>4. CASE JoinLock
  BY <1>0, <1>4, Zenon DEF JoinLock, CloseInv, SyncCloseStopsTransport, Reports, Goto, ext, flags
<1>5. CASE JoinThreads
  BY <1>0, <1>5 DEF JoinThreads, CloseInv, SyncCloseStopsTransport, Reports, Workers, Goto, ext,
                    flags
<1>6. CASE GetCompletes
  BY <1>0, <1>6 DEF GetCompletes, CloseInv, SyncCloseStopsTransport, Reports, Workers, Goto
<1>7. CASE PostCompletes
  BY <1>0, <1>7 DEF PostCompletes, CloseInv, SyncCloseStopsTransport, Reports, Workers, Goto, flags
<1>8. CASE RunPosted
  BY <1>0, <1>8 DEF RunPosted, CloseInv, SyncCloseStopsTransport, Reports, Workers, Goto, flags
<1>9. CASE PollHandshake \/ PollReturns \/ PollNext
  BY <1>0, <1>9 DEF PollHandshake, PollReturns, PollNext, CloseInv, SyncCloseStopsTransport,
                    Reports, Workers, Goto, Ended, ext, flags
<1>10. CASE DeliverPacket
  BY <1>0, <1>10, Zenon DEF DeliverPacket, CloseInv, SyncCloseStopsTransport, Reports, Workers,
                            Goto, Ended, ext
<1>11. CASE WriteTest \/ WriteSleeps \/ WritePosts
  BY <1>0, <1>11 DEF WriteTest, WriteSleeps, WritePosts, CloseInv, SyncCloseStopsTransport, Reports,
                     Workers, Goto, ext, flags
<1>12. CASE EnderPosts
  BY <1>0, <1>12 DEF EnderPosts, CloseInv, SyncCloseStopsTransport, Reports, Goto, ext, flags
<1>13. CASE UNCHANGED vars
  BY <1>0, <1>13, Zenon DEF vars, ext, flags, CloseInv, SyncCloseStopsTransport, Reports
<1> QED
  BY <1>1, <1>2, <1>3, <1>4, <1>5, <1>6, <1>7, <1>8, <1>9, <1>10, <1>11, <1>12, <1>13,
     CloseCloses, CloseFails
     DEF Next, CloserRuns, PollRuns, WriteRuns

(* CloseInv holds at the start.                                                     *)
LEMMA CloseInit == Init => CloseInv
BY ThreadNames, Zenon DEF Init, CloseInv, SyncCloseStopsTransport, Reports, Workers

(* When sync_close() has returned, a transport on threads of its own has none left,    *)
(* and none is started later: connect() that comes after the joins finds closing_ set. *)
THEOREM SyncCloseStopsTransportAlways == Spec => []SyncCloseStopsTransport
<1>1. CloseInv => SyncCloseStopsTransport
  BY Zenon DEF CloseInv
<1> QED
  BY <1>1, CloseInit, CloseStep, PTL DEF Spec
-----------------------------------------------------------------------------
\* Where a thread stands only while it ends the transport.
Ending == Reports \cup {"fail_clear", "fail_notify", "error"}

\* A step that neither sets closing_ nor reports anything, and that no thread takes to or from
\* Ending, nor the thread that has a report to make.
EndKept ==
    /\ UNCHANGED <<closing, once, notify, failer, errors, closes>>
    /\ pc' = [x \in Threads |-> pc'[x]]
    /\ \A x \in Threads : \/ pc'[x] = pc[x]
                          \/ pc[x] \notin Ending /\ pc'[x] \notin Ending /\ x # failer

(* Such a step keeps EndInv.                                                       *)
LEMMA EndKeeps == EndInv /\ EndKept => EndInv'
<1> SUFFICES ASSUME EndInv, EndKept PROVE EndInv'
  OBVIOUS
<1> USE ThreadNames
<1>1. \A x \in Threads : pc'[x] \in Ending \/ pc[x] \in Ending => pc'[x] = pc[x]
  BY Zenon DEF EndKept
<1>2. \A x \in {Poll, Write} : failer = x => pc'[x] = pc[x]
  BY Zenon DEF EndKept
<1>3. /\ UNCHANGED <<closing, once, notify, failer, errors, closes>>
      /\ pc' = [x \in Threads |-> pc'[x]]
  BY Zenon DEF EndKept
<1>4. \A x \in Threads : pc[x] \in Reports \ {"close_flag"} => pc'[x] = pc[x]
  BY <1>1, Zenon DEF Ending
<1>5. \A x \in Threads : pc'[x] \in Reports \/ pc'[x] \in {"fail_clear", "fail_notify", "error"} =>
         pc'[x] = pc[x]
  BY <1>1, Zenon DEF Ending
<1>6. "close_report" \in Reports
  BY DEF Reports
<1>7. notify => \E x \in Threads : pc'[x] \in Reports \ {"close_flag"}
  BY <1>4, Zenon DEF EndInv
<1>8. /\ \A x \in Threads : pc'[x] \in {"fail_clear", "fail_notify"} => failer = x /\ errors = 0
      /\ \A x \in Threads : pc'[x] = "error" => failer = x
      /\ \A x \in Threads : pc'[x] \in Reports => once
      /\ \A x, u \in Threads : pc'[x] \in Reports /\ pc'[u] \in Reports => x = u
  BY <1>5, Zenon DEF EndInv
<1>9. \A x \in Threads : pc'[x] = "close_report" => notify
  BY <1>5, <1>6, Zenon DEF EndInv
<1>10. \A x \in {Poll, Write} : failer = x => pc'[x] \in InFail
  BY <1>2, Zenon DEF EndInv
<1> QED
  BY <1>3, <1>7, <1>8, <1>9, <1>10, Zenon DEF EndInv

(* The thread that has a report to make by fail() is on its way there.                  *)
LEMMA FailerInFail ==
    ASSUME EndInv, NEW x \in Threads, x = failer PROVE x \in {Poll, Write} /\ pc[x] \in InFail
<1>1. Lost \notin Threads /\ Nobody \notin Threads
  BY Zenon DEF Lost, Nobody, Threads, Workers, Opener, Sender, Closer, Poll, Write, Ender
<1> QED
  BY <1>1, Zenon DEF EndInv

(* A thread takes a step that notifies write_condition_.                               *)
LEMMA WokenSteps ==
    ASSUME pc = [x \in Threads |-> pc[x]], NEW t \in Threads, NEW l, l # "asleep",
           pc' = Woken([pc EXCEPT ![t] = l])
    PROVE  /\ pc' = [x \in Threads |-> pc'[x]] /\ pc'[t] = l
           /\ \A x \in Threads \ {t} : pc'[x] = pc[x] \/ (pc[x] = "asleep" /\ pc'[x] = "test")
<1> DEFINE f == [pc EXCEPT ![t] = l]
<1>1. /\ f = [x \in Threads |-> f[x]] /\ f[t] = l
      /\ \A x \in Threads \ {t} : f[x] = pc[x]
  BY Zenon
<1>2. pc' = IF f[Write] = "asleep" THEN [f EXCEPT ![Write] = "test"] ELSE f
  BY Zenon DEF Woken
<1> HIDE DEF f
<1>3. CASE f[Write] = "asleep"
  <2>1. pc' = [f EXCEPT ![Write] = "test"] /\ Write # t
    BY <1>1, <1>2, <1>3
  <2>2. \A x \in Threads : pc'[x] = IF x = Write THEN "test" ELSE f[x]
    BY <1>1, <2>1, Zenon
  <2>3. pc' = [x \in Threads |-> pc'[x]]
    BY <1>1, <2>1, Zenon
  <2>4. pc'[t] = l /\ pc'[Write] = "test" /\ pc[Write] = "asleep"
    BY <1>1, <1>3, <2>1, <2>2, ThreadNames
  <2>5. \A x \in Threads \ {t} : x # Write => pc'[x] = pc[x]
    BY <1>1, <2>2
  <2> QED
    BY <2>3, <2>4, <2>5, Zenon
<1>4. CASE f[Write] # "asleep"
  <2>1. pc' = f
    BY <1>2, <1>4
  <2> QED
    BY <1>1, <2>1
<1> QED
  BY <1>3, <1>4

(* close() sets closing_ and has the close to report, unless it was set before.          *)
LEMMA EndCloses ==
    ASSUME EndInv, NEW t \in {Closer, Poll, Write}, Closes(t)
    PROVE  EndInv'
<1> USE ThreadNames
<1>0. pc = [x \in Threads |-> pc[x]] /\ t \in Threads
  BY Zenon DEF EndInv
<1>1. CASE CloseLock(t)
  <2>1. CASE once
    <3>1. /\ UNCHANGED <<closing, once, notify, failer, errors, closes>>
          /\ pc' = [x \in Threads |-> pc'[x]]
          /\ \A x \in Threads \ {t} : pc'[x] = pc[x]
          /\ pc[t] = "close" /\ pc'[t] \in {"join", "called"}
          /\ t # Closer => pc'[t] = "called"
      BY <1>0, <1>1, <2>1 DEF CloseLock, Goto, CloseReturns, ends
    <3>2. \A x \in Threads : pc'[x] \in Ending => pc'[x] = pc[x]
      BY <3>1 DEF Ending, Reports
    <3> QED
      BY <3>1, <3>2 DEF EndInv, Ending, Reports, InFail
  <2>2. CASE ~once
    <3>1. /\ UNCHANGED <<closing, notify, failer, errors, closes>> /\ once' = TRUE
          /\ pc' = [x \in Threads |-> pc'[x]]
          /\ \A x \in Threads \ {t} : pc'[x] = pc[x]
          /\ pc[t] = "close" /\ pc'[t] = "close_flag"
      BY <1>0, <1>1, <2>2 DEF CloseLock, Goto, ends
    <3>2. \A x \in Threads : pc[x] \notin Reports
      BY <2>2, Zenon DEF EndInv
    <3> QED
      BY <3>1, <3>2 DEF EndInv, Reports, InFail
  <2> QED
    BY <2>1, <2>2
<1>2. CASE CloseFlag(t)
  <2>1. /\ closing' = TRUE /\ notify' = ~closing /\ UNCHANGED <<once, failer, errors, closes>>
        /\ pc' = [x \in Threads |-> pc'[x]]
        /\ \A x \in Threads \ {t} : pc'[x] = pc[x]
        /\ pc[t] = "close_flag" /\ pc'[t] = "close_notify"
    BY <1>0, <1>2 DEF CloseFlag, Goto
  <2>2. (\A x \in Threads \ {t} : pc[x] \notin Reports) /\ ~notify /\ once
    BY <1>0, <2>1 DEF EndInv, Reports
  <2>3. CASE closing
    BY <1>0, <2>1, <2>2, <2>3 DEF EndInv, Reports, InFail
  <2>4. CASE ~closing
    <3>1. \E x \in Threads : pc'[x] \in Reports \ {"close_flag"}
      BY <1>0, <2>1 DEF Reports
    <3>2. closes = 0 /\ errors = 0 /\ failer = Nobody
      BY <2>4, Zenon DEF EndInv
    <3>3. \A x \in Threads : pc'[x] \notin {"fail_clear", "fail_notify", "error", "close_report"}
      BY <1>0, <2>1, <2>2, <2>4, <3>2 DEF EndInv, Reports
    <3>4. \A x \in Threads : pc'[x] \in Reports => x = t
      BY <2>1, <2>2, Zenon
    <3>5. closes' \in {0, 1} /\ errors' \in {0, 1} /\ closes' # 1
      BY <2>1, <3>2
    <3> QED
      BY <1>0, <2>1, <2>2, <2>4, <3>1, <3>2, <3>3, <3>4, <3>5, Zenon DEF EndInv
  <2> QED
    BY <2>3, <2>4
<1>3. CASE CloseNotify(t)
  <2>1. /\ UNCHANGED <<closing, once, notify, failer, errors, closes>>
        /\ pc' = [x \in Threads |-> pc'[x]]
        /\ \A x \in Threads \ {t} : pc'[x] = pc[x] \/ (pc[x] = "asleep" /\ pc'[x] = "test")
        /\ pc[t] = "close_notify" /\ pc'[t] = "close_session"
    BY <1>0, <1>3, WokenSteps, Zenon DEF CloseNotify, flags, ends
  <2> QED
    BY <1>0, <2>1 DEF EndInv, Reports, InFail
<1>4. CASE CloseSession(t)
  <2>1. /\ UNCHANGED <<closing, once, notify, failer, errors, closes>>
        /\ pc' = [x \in Threads |-> pc'[x]]
        /\ \A x \in Threads \ {t} : pc'[x] = pc[x] \/ (x = Ender /\ pc'[x] = "post")
        /\ pc[t] = "close_session" /\ pc'[t] = IF notify THEN "close_report" ELSE CloseReturns(t)
    <3>1. pc' = [pc EXCEPT ![t] = IF notify THEN "close_report" ELSE CloseReturns(t),
                           ![Ender] = IF sid THEN "post" ELSE @]
      BY <1>4, Zenon DEF CloseSession
    <3>2. UNCHANGED <<closing, once, notify, failer, errors, closes>> /\ pc[t] = "close_session"
      BY <1>4, Zenon DEF CloseSession, flags, ends
    <3>3. /\ pc' = [x \in Threads |-> pc'[x]]
          /\ \A x \in Threads \ {t} : pc'[x] = pc[x] \/ (x = Ender /\ pc'[x] = "post")
          /\ pc'[t] = IF notify THEN "close_report" ELSE CloseReturns(t)
      BY <1>0, <3>1
    <3> QED
      BY <3>2, <3>3
  <2>2. pc[Ender] \notin Reports
    BY <1>0, <2>1 DEF EndInv, Reports
  <2> QED
    BY <1>0, <2>1, <2>2 DEF EndInv, Reports, InFail, CloseReturns
<1>5. CASE CloseReport(t)
  <2>1. /\ UNCHANGED <<closing, once, failer, errors>> /\ closes' = closes + 1 /\ notify' = FALSE
        /\ pc' = [x \in Threads |-> pc'[x]]
        /\ \A x \in Threads \ {t} : pc'[x] = pc[x]
        /\ pc[t] = "close_report" /\ pc'[t] \in {"join", "callback", "threw"}
    BY <1>0, <1>5 DEF CloseReport, Goto, flags
  <2>2. /\ \A x \in Threads \ {t} : pc[x] \notin Reports
        /\ notify /\ failer = Nobody /\ closes = 0
    BY <1>0, <2>1 DEF EndInv, Reports
  <2>3. closing /\ closes' \in {0, 1} /\ closes' = 1
    BY <2>1, <2>2 DEF EndInv
  <2>4. \A x \in Threads : pc'[x] \notin Reports
    BY <2>1, <2>2 DEF Reports
  <2>5. \A x \in Threads : pc'[x] \notin {"fail_clear", "fail_notify", "error"}
    <3>1. \A x \in Threads : pc[x] \notin {"fail_clear", "fail_notify", "error"}
      BY <2>2, Zenon DEF EndInv
    <3> QED
      BY <2>1, <3>1
  <2>6. \A x \in Threads : pc'[x] # "close_report"
    BY <2>4 DEF Reports
  <2>7. notify' \in BOOLEAN /\ ~notify' /\ \A x \in {Poll, Write} : failer' # x
    BY <2>1, <2>2
  <2>8. /\ closing' \in BOOLEAN /\ once' \in BOOLEAN /\ errors' \in {0, 1}
        /\ failer' \in {Nobody, Lost, Poll, Write} /\ (failer' = Lost => CallbacksThrow)
        /\ closing' /\ failer' = Nobody /\ pc' = [x \in Threads |-> pc'[x]]
    BY <2>1, <2>2, <2>3, Zenon DEF EndInv
  <2> QED
    BY <2>3, <2>4, <2>5, <2>6, <2>7, <2>8, Zenon DEF EndInv
<1> QED
  BY <1>1, <1>2, <1>3, <1>4, <1>5 DEF Closes

(* fail() that is the first to set closing_ reports the error and then the close, when   *)
(* its error listener has returned.                                                  *)
LEMMA EndFails ==
    ASSUME EndInv, NEW t \in {Poll, Write}, Fails(t) \/ CallbackActs(t)
    PROVE  EndInv'
<1> USE ThreadNames
<1>0. pc = [x \in Threads |-> pc[x]] /\ t \in Threads /\ t # Nobody /\ t # Lost
  BY Zenon DEF EndInv, Lost, Poll, Write
<1>1. CASE FailFlag(t)
  <2>0. /\ UNCHANGED <<once, notify, errors, closes>> /\ closing' = TRUE
        /\ failer' = (IF closing THEN failer ELSE t)
        /\ pc' = [x \in Threads |-> pc'[x]]
        /\ \A x \in Threads \ {t} : pc'[x] = pc[x]
        /\ pc[t] = "fail" /\ pc'[t] = IF closing THEN "failed" ELSE "fail_clear"
    BY <1>0, <1>1 DEF FailFlag, Goto
  <2>1. CASE closing
    BY <1>0, <2>0, <2>1 DEF EndInv, Reports, InFail
  <2>2. CASE ~closing
    BY <1>0, <2>0, <2>2 DEF EndInv, Reports, InFail
  <2> QED
    BY <2>1, <2>2
<1>2. CASE FailClear(t)
  <2>1. /\ UNCHANGED <<closing, once, notify, failer, errors, closes>>
        /\ pc' = [x \in Threads |-> pc'[x]]
        /\ \A x \in Threads \ {t} : pc'[x] = pc[x]
        /\ pc[t] = "fail_clear" /\ pc'[t] = "fail_notify"
    BY <1>0, <1>2 DEF FailClear, Goto, flags, ends
  <2> QED
    BY <1>0, <2>1 DEF EndInv, Reports, InFail
<1>3. CASE FailNotify(t)
  <2>1. /\ UNCHANGED <<closing, once, notify, failer, closes>> /\ errors' = errors + 1
        /\ pc' = [x \in Threads |-> pc'[x]]
        /\ \A x \in Threads \ {t} : pc'[x] = pc[x] \/ (pc[x] = "asleep" /\ pc'[x] = "test")
        /\ pc[t] = "fail_notify" /\ pc'[t] = "error"
    BY <1>0, <1>3, WokenSteps, Zenon DEF FailNotify, flags
  <2>2. failer = t /\ errors' = 1 /\ closing
        /\ \A x \in Threads \ {t} : pc[x] \notin {"fail_clear", "fail_notify"}
    BY <1>0, <2>1 DEF EndInv
  <2> QED
    BY <1>0, <2>1, <2>2 DEF EndInv, Reports, InFail
<1>4. CASE FailClose(t)
  <2>1. /\ UNCHANGED <<closing, once, notify, errors>> /\ closes' = closes + 1
        /\ failer = t /\ failer' = Nobody
        /\ pc' = [x \in Threads |-> pc'[x]]
        /\ \A x \in Threads \ {t} : pc'[x] = pc[x]
        /\ pc[t] \in {"error", "called"} /\ pc'[t] = "callback"
    BY <1>0, <1>4 DEF FailClose, Goto, flags
  <2>2. /\ closing /\ ~notify /\ closes' = 1
        /\ \A x \in Threads \ {t} : pc[x] \notin {"fail_clear", "fail_notify", "error"}
    BY <1>0, <2>1 DEF EndInv
  <2>3. closes' \in {0, 1} /\ Nobody \notin {Lost, Poll, Write}
    BY <2>2 DEF Lost, Nobody, Poll, Write
  <2>4. \A x \in Threads : pc'[x] \notin {"fail_clear", "fail_notify", "error"}
    BY <2>1, <2>2
  <2>5. \A x \in Threads : pc'[x] \in Reports \/ pc'[x] = "close_report" => pc'[x] = pc[x]
    BY <2>1 DEF Reports
  <2> QED
    BY <2>1, <2>2, <2>3, <2>4, <2>5, Zenon DEF EndInv
<1>5. CASE CallbackReturns(t)
  BY <1>0, <1>5, EndKeeps DEF CallbackReturns, EndKept, Ending, Reports, Goto, Ended, flags, ends
<1>6. CASE CallbackCloses(t)
  <2>1. /\ UNCHANGED <<closing, once, notify, failer, errors, closes>>
        /\ pc' = [x \in Threads |-> pc'[x]]
        /\ \A x \in Threads \ {t} : pc'[x] = pc[x]
        /\ pc[t] \in {"callback", "error"} /\ pc'[t] \in {"close", "called"}
    BY <1>0, <1>6 DEF CallbackCloses, Goto, ends
  <2> QED
    BY <1>0, <2>1 DEF EndInv, Reports, InFail
<1>7. CASE CallbackThrows(t)
  <2>1. /\ UNCHANGED <<closing, once, notify, errors, closes>>
        /\ failer' = (IF failer = t THEN Lost ELSE failer)
        /\ pc' = [x \in Threads |-> pc'[x]]
        /\ \A x \in Threads \ {t} : pc'[x] = pc[x]
        /\ pc[t] \in {"callback", "called", "error"}
        /\ pc'[t] \in {"test", "strand", "done", "fail"} /\ CallbacksThrow
    BY <1>0, <1>7 DEF CallbackThrows, Goto, Ended, flags
  <2>2. Lost \notin {Nobody, Poll, Write}
    BY Zenon DEF Lost, Nobody, Poll, Write
  <2>3. CASE failer = t
    <3>1. /\ closing /\ ~notify /\ closes = 0
          /\ \A x \in Threads \ {t} : pc[x] \notin {"fail_clear", "fail_notify", "error"}
      BY <1>0, <2>3 DEF EndInv
    <3> QED
      BY <1>0, <2>1, <2>2, <2>3, <3>1 DEF EndInv, Reports, InFail
  <2>4. CASE failer # t
    BY <1>0, <2>1, <2>4 DEF EndInv, Reports, InFail
  <2> QED
    BY <2>3, <2>4
<1> QED
  BY <1>1, <1>2, <1>3, <1>4, <1>5, <1>6, <1>7 DEF Fails, CallbackActs

(* Every step keeps EndInv.                                                        *)
LEMMA EndStep == CloseInv /\ EndInv /\ [Next]_vars => EndInv'
<1> USE ThreadNames
<1> SUFFICES ASSUME CloseInv, EndInv, [Next]_vars PROVE EndInv'
  OBVIOUS
<1>0. /\ pc = [x \in Threads |-> pc[x]]
      /\ \A x \in Threads : x = failer => pc[x] \in InFail /\ x # Closer
  BY FailerInFail, Zenon DEF EndInv
<1>1. CASE Connect
  <2>1. CASE closing
    BY <1>0, <1>1, <2>1, EndKeeps DEF Connect, EndKept, Ending, Reports, InFail, Goto, ends
  <2>2. CASE ~closing
    <3>1. connecting = Nobody
      BY <1>1, Zenon DEF Connect
    <3>2. \A x \in Threads : pc[x] \notin {"close_flag", "close_notify", "close_session"}
      BY <3>1, Zenon DEF CloseInv
    <3>3. /\ failer = Nobody /\ ~notify
          /\ \A x \in Threads : pc[x] \notin {"fail_clear", "fail_notify", "error", "close_report"}
      BY <2>2, Zenon DEF EndInv
    <3>4. \A x \in Threads : pc[x] \notin Ending
      BY <3>2, <3>3, Zenon DEF Ending, Reports
    <3>5. \A x \in Threads : pc'[x] \in {pc[x], "done", "test", "handshake"}
      BY <1>0, <1>1 DEF Connect, Goto
    <3>6. /\ pc' = [x \in Threads |-> pc'[x]]
          /\ UNCHANGED <<closing, once, notify, failer, errors, closes>>
      BY <1>0, <1>1 DEF Connect, Goto, ends
    <3>7. \A x \in Threads : pc'[x] \notin Ending
      BY <3>4, <3>5 DEF Ending, Reports
    <3> QED
      BY <3>3, <3>4, <3>6, <3>7, EndKeeps, Zenon DEF EndKept
  <2> QED
    BY <2>1, <2>2 DEF EndInv
<1>2. CASE Send \/ SendNotify \/ SendPosted
  BY <1>0, <1>2, EndKeeps DEF Send, SendNotify, SendPosted, EndKept, Ending, Reports, InFail, Goto,
                              Woken, flags, ends
<1>3. CASE SyncClose \/ ClosePosted \/ JoinLock \/ JoinThreads \/ EnderPosts
  BY <1>0, <1>3, EndKeeps DEF SyncClose, ClosePosted, JoinLock, JoinThreads, EnderPosts, EndKept,
                              Ending, Reports, InFail, Goto, flags, ends
<1>4. CASE GetCompletes \/ PostCompletes \/ RunPosted
  BY <1>0, <1>4, EndKeeps DEF GetCompletes, PostCompletes, RunPosted, EndKept, Ending, Reports,
                              InFail, Goto, flags, ends
<1>5. CASE PollHandshake \/ PollReturns \/ PollNext \/ DeliverPacket
  BY <1>0, <1>5, EndKeeps DEF PollHandshake, PollReturns, PollNext, DeliverPacket, EndKept,
                              Ending, Reports, InFail, Goto, Ended, flags, ends
<1>6. CASE WriteTest \/ WriteSleeps \/ WritePosts
  BY <1>0, <1>6, EndKeeps DEF WriteTest, WriteSleeps, WritePosts, EndKept, Ending, Reports, InFail,
                              Goto, flags, ends
<1>7. CASE UNCHANGED vars
  BY <1>0, <1>7, EndKeeps DEF vars, flags, ends, EndKept
<1> QED
  BY <1>1, <1>2, <1>3, <1>4, <1>5, <1>6, <1>7, EndCloses, EndFails
     DEF Next, CloserRuns, PollRuns, WriteRuns

(* Every step keeps the flags, the state and the mutex in their types.                 *)
LEMMA FlagsStep == FlagsTyped /\ EndInv /\ [Next]_vars => FlagsTyped'
<1> SUFFICES ASSUME FlagsTyped, EndInv, [Next]_vars PROVE FlagsTyped'
  OBVIOUS
<1> USE ThreadNames, PollingAssumption
<1>1. ASSUME NEW t \in {Closer, Poll, Write}, Closes(t) PROVE FlagsTyped'
  BY <1>1, Zenon DEF FlagsTyped, Closes, CloseLock, CloseFlag, CloseNotify, CloseSession,
                     CloseReport, flags
<1>2. ASSUME NEW t \in {Poll, Write}, Fails(t) \/ CallbackActs(t) PROVE FlagsTyped'
  BY <1>2 DEF FlagsTyped, Fails, FailFlag, FailClear, FailNotify, FailClose, CallbackReturns,
              CallbackActs, CallbackCloses, CallbackThrows, flags
<1>3. CASE \/ Connect \/ SendNotify \/ SyncClose \/ ClosePosted
           \/ JoinLock \/ JoinThreads \/ EnderPosts
  BY <1>3 DEF FlagsTyped, Connect, SendNotify, SyncClose, ClosePosted, JoinLock, JoinThreads,
              EnderPosts, flags
<1>4. CASE Send \/ SendPosted
  BY <1>4, SMT DEF FlagsTyped, Send, SendPosted, flags
<1>5. CASE GetCompletes \/ PostCompletes \/ RunPosted
  BY <1>5, Zenon DEF FlagsTyped, GetCompletes, PostCompletes, RunPosted, flags
<1>6. CASE PollHandshake \/ PollReturns \/ PollNext \/ DeliverPacket
  BY <1>6, Zenon DEF FlagsTyped, PollHandshake, PollReturns, PollNext, DeliverPacket, flags
<1>7. CASE WriteTest \/ WriteSleeps \/ WritePosts \/ UNCHANGED vars
  BY <1>7 DEF FlagsTyped, WriteTest, WriteSleeps, WritePosts, vars, flags
<1> QED
  BY <1>1, <1>2, <1>3, <1>4, <1>5, <1>6, <1>7 DEF Next, CloserRuns, PollRuns, WriteRuns

(* EndInv and FlagsTyped hold at the start.                                          *)
LEMMA EndInit == Init => EndInv /\ FlagsTyped
<1> SUFFICES ASSUME Init PROVE EndInv /\ FlagsTyped
  BY Zenon
<1>1. pc = [x \in Threads |-> pc[x]] /\ \A x \in Threads : pc[x] \in {"strand", "unborn", "idle"}
  BY Zenon DEF Init
<1>2. closes = 0 /\ errors = 0 /\ failer = Nobody /\ ~closing /\ ~notify
  BY Zenon DEF Init
<1>3. sent \in 0 .. MaxSends
  BY PollingAssumption, SMT DEF Init
<1>4. Nobody \notin {Poll, Write, Lost}
  BY Zenon DEF Nobody, Poll, Write, Lost
<1>5. \A x \in Threads : pc[x] \notin Ending
  BY <1>1 DEF Ending, Reports
<1>6. EndInv
  BY <1>1, <1>2, <1>4, <1>5 DEF EndInv, Ending, Init, Reports
<1> QED
  BY <1>3, <1>6, Zenon DEF Init, FlagsTyped

(* Every variable keeps its type; in particular a transport has at most one end: fail()  *)
(* and close(), on whatever threads they race, together report one close and one error   *)
(* at most.                                                                       *)
THEOREM TypeAlways == Spec => []TypeOK
<1>1. OrderInv /\ EndInv /\ FlagsTyped => TypeOK
  <2> SUFFICES ASSUME OrderInv, EndInv, FlagsTyped PROVE TypeOK
    BY Zenon
  <2>1. /\ Range(queue) \cup Range(wire) \subseteq 1 .. sent /\ posts \subseteq 1 .. sent
        /\ Range(strand) \subseteq {Start, Close} \cup 1 .. sent
    BY Zenon DEF OrderInv, Lined
  <2>2. DOMAIN pc = Threads
    BY Zenon DEF EndInv
  <2>3. closes \in 0 .. 1 /\ errors \in 0 .. 1
    BY DEF EndInv
  <2> QED
    BY <2>1, <2>2, <2>3, Zenon DEF EndInv, FlagsTyped, TypeOK
<1> QED
  BY <1>1, OrderInit, OrderStep, CloseInit, CloseStep, EndInit, EndStep, FlagsStep, PTL DEF Spec

(* A transport that is closing has reported its close, or one thread has the report to   *)
(* make and stands before on_close_: in close() past shutdown_once_, or in fail(), its    *)
(* error listener or a close() of that listener.  So the end is never left by close() to  *)
(* a fail() that is over, nor by fail() to a close() that is; only an exception of the    *)
(* error listener drops it.  (Whether the thread gets there is another matter: Caught.)   *)
THEOREM CloseNeverDropped ==
    Spec => [](closing => \/ closes = 1
                          \/ CloseOwes
                          \/ FailOwes
                          \/ CallbacksThrow /\ failer = Lost)
<1>1. EndInv /\ closing => \/ closes = 1
                           \/ CloseOwes
                           \/ FailOwes
                           \/ CallbacksThrow /\ failer = Lost
  BY Zenon DEF EndInv, CloseOwes, FailOwes
<1> QED
  BY <1>1, CloseInit, CloseStep, EndInit, EndStep, PTL DEF Spec

(* A thread that is Caught stays so: sync_close() does not let go of connect_mutex_       *)
(* before the thread has ended, and the thread does not end before it has the mutex.  So  *)
(* neither does sync_close() return nor is the close reported, ever.                    *)
THEOREM CaughtForever == Spec => [][Caught => Caught' /\ closes' = 0]_vars
<1>1. ASSUME CloseInv, EndInv, [Next]_vars, Caught PROVE Caught' /\ closes' = 0
  <2> USE ThreadNames
  <2>0. /\ pc = [x \in Threads |-> pc[x]]
        /\ failer \in {Poll, Write} /\ pc[failer] = "close" /\ pc[Closer] = "joining"
        /\ connecting = Closer /\ closes = 0 /\ closing
    BY <1>1, FailerInFail DEF CloseInv, EndInv, Caught, Workers
  <2> DEFINE Held == /\ UNCHANGED <<failer, closes>>
                     /\ pc'[failer] = "close" /\ pc'[Closer] = "joining"
  <2> SUFFICES Held
    BY <2>0 DEF Caught, Workers
  <2>1. ASSUME NEW t \in {Closer, Poll, Write}, Closes(t) PROVE Held
    <3>1. pc[t] \in Reports
      BY <2>0, <2>1 DEF Closes, CloseLock, CloseFlag, CloseNotify, CloseSession, CloseReport,
                        Reports
    <3>2. pc[t] = "close_report" \/ connecting = t
      BY <1>1, <3>1 DEF CloseInv, Reports
    <3> QED
      BY <1>1, <2>0, <3>1, <3>2 DEF EndInv, Reports
  <2>2. ASSUME NEW t \in {Poll, Write}, Fails(t) \/ CallbackActs(t) PROVE Held
    <3>1. pc[t] # "close" /\ t # failer
      BY <2>0, <2>2 DEF Fails, FailFlag, FailClear, FailNotify, FailClose, CallbackReturns,
                        CallbackActs, CallbackCloses, CallbackThrows
    <3>2. pc[t] \notin {"fail_clear", "fail_notify", "error"}
      BY <1>1, <3>1 DEF EndInv
    <3>3. CASE FailFlag(t) \/ CallbackReturns(t) \/ CallbackActs(t)
      BY <2>0, <3>1, <3>3 DEF FailFlag, CallbackReturns, CallbackActs, CallbackCloses,
                              CallbackThrows, Goto, ends
    <3> QED
      BY <2>2, <3>1, <3>2, <3>3 DEF Fails, FailClear, FailNotify, FailClose
  <2>3. CASE Connect \/ Send \/ SendNotify \/ SendPosted \/ SyncClose \/ EnderPosts
    BY <2>0, <2>3 DEF Connect, Send, SendNotify, SendPosted, SyncClose, EnderPosts, Goto, Woken,
                      ends
  <2>4. CASE ClosePosted \/ JoinLock \/ JoinThreads
    BY <2>0, <2>4 DEF ClosePosted, JoinLock, JoinThreads, Workers
  <2>5. CASE GetCompletes \/ PostCompletes \/ RunPosted
    BY <2>0, <2>5 DEF GetCompletes, PostCompletes, RunPosted, Goto, ends
  <2>6. CASE PollHandshake \/ PollReturns \/ PollNext \/ DeliverPacket
    BY <2>0, <2>6 DEF PollHandshake, PollReturns, PollNext, DeliverPacket, Goto, ends
  <2>7. CASE WriteTest \/ WriteSleeps \/ WritePosts \/ UNCHANGED vars
    BY <2>0, <2>7 DEF WriteTest, WriteSleeps, WritePosts, Goto, vars, ends
  <2> QED
    BY <1>1, <2>1, <2>2, <2>3, <2>4, <2>5, <2>6, <2>7 DEF Next, CloserRuns, PollRuns, WriteRuns
<1> QED
  BY <1>1, CloseInit, CloseStep, EndInit, EndStep, PTL DEF Spec
=============================================================================
