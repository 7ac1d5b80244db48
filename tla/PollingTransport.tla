-------------------------- MODULE PollingTransport --------------------------
(***************************************************************************)
(* The HTTP polling transport (src/http_polling_transport.cpp) under         *)
(* connect(), send(), sync_close() of the application and callbacks that     *)
(* call close() or throw.  It has threads of its own: the poll thread, the   *)
(* write worker and the thread that ends the session; or it lives on the     *)
(* io_context of the application: calls and completions of requests run one  *)
(* after the other on a strand, for which Poll stands then.                  *)
(*                                                                         *)
(* connect_mutex_ is held across close() and across the joins of            *)
(* sync_close(); mutex_ guards single steps, except that the write worker    *)
(* holds it from the test of its predicate until it sleeps.                 *)
(*                                                                         *)
(* An operator whose name ends in _Bug is a plausible mistake in the code   *)
(* of the definition that follows it; no specification uses one.            *)
(***************************************************************************)
EXTENDS Integers, Sequences, Functions

CONSTANTS MaxSends,         \* bound: messages handed to send()
          CallbacksClose,   \* do callbacks call close() or sync_close()?
          CallbacksThrow    \* do they throw?

ASSUME PollingAssumption ==
    MaxSends \in Nat /\ CallbacksClose \in BOOLEAN /\ CallbacksThrow \in BOOLEAN

VARIABLES state,      \* state_
          closing,    \* closing_
          eclosing,   \* closing_ of the engine, which calls close() once
          once,       \* shutdown_once_ was used
          connecting, \* the thread that holds connect_mutex_
          sid,        \* sid_ is not empty
          queue,      \* write_queue_
          sent,       \* messages handed to send() so far
          pc,         \* where each thread stands
          notify,     \* notify_close of the close() that used shutdown_once_
          failer,     \* the thread whose fail() has yet to call on_close_, or Lost
          wire,       \* history: messages posted (on the strand: answered), in order
          errors,     \* history: calls of on_error_
          closes,     \* history: calls of on_close_
          external,   \* io_context_ is set
          strand,     \* calls posted to strand_: Start, Close or a message
          get,        \* the GET under way: "none", "handshake" or "poll"
          posts,      \* the messages whose POST is under way
          writing     \* external_write_in_progress_

flags == <<state, closing, eclosing, once, sid>>
ext   == <<external, strand, get, posts, writing>>
ends  == <<notify, failer, errors, closes>>
vars  == <<flags, connecting, queue, sent, pc, wire, ends, ext>>

Opener == "opener"
Sender == "sender"
Closer == "closer"
Poll   == "poll_thread"
Write  == "write_thread"
Ender  == "close_thread"
Nobody == "nobody"
Lost   == "lost"      \* an exception has carried fail() off
Workers == {Poll, Write, Ender}
Threads == {Opener, Sender, Closer} \cup Workers

\* The calls posted beside the messages 1, 2, ...
Start == 0
Close == -1

Goto(t, l) == pc' = [pc EXCEPT ![t] = l]

Init == /\ state = "closed" /\ closing = FALSE /\ eclosing = FALSE /\ once = FALSE
        /\ sid = FALSE
        /\ connecting = Nobody
        /\ queue = <<>> /\ sent = 0
        /\ external \in BOOLEAN
        /\ strand = <<>> /\ get = "none" /\ posts = {} /\ writing = FALSE
        /\ pc = [t \in Threads |-> IF t = Poll /\ external THEN "strand"
                                   ELSE IF t \in Workers THEN "unborn" ELSE "idle"]
        /\ wire = <<>> /\ errors = 0 /\ closes = 0 /\ notify = FALSE /\ failer = Nobody

\* mutex_ is held across steps by the write worker only.
MutexFree == pc[Write] # "locked"

\* write_condition_: a write worker that sleeps goes to look at its predicate.
Woken(f) == IF f[Write] = "asleep" THEN [f EXCEPT ![Write] = "test"] ELSE f
-----------------------------------------------------------------------------
(* The application.                                                            *)

\* A transport that is closing is connected.
Connect_Bug ==
    /\ pc[Opener] = "idle" /\ connecting = Nobody
    /\ state' = "connecting"
    /\ IF external
         THEN Goto(Opener, "done") /\ strand' = Append(strand, Start)
         ELSE /\ pc' = [pc EXCEPT ![Opener] = "done", ![Write] = "test", ![Poll] = "handshake"]
              /\ UNCHANGED strand
    /\ UNCHANGED <<external, get, posts, writing, closing, eclosing, once, sid, connecting, queue,
                   sent, wire, ends>>

\* The threads are started, or a call is posted.
Connect ==
    /\ pc[Opener] = "idle" /\ connecting = Nobody
    /\ CASE closing ->
              Goto(Opener, "done") /\ UNCHANGED <<state, strand>>
         [] ~closing /\ external ->
              Goto(Opener, "done") /\ state' = "connecting" /\ strand' = Append(strand, Start)
         [] OTHER ->
              /\ pc' = [pc EXCEPT ![Opener] = "done", ![Write] = "test", ![Poll] = "handshake"]
              /\ state' = "connecting" /\ UNCHANGED strand
    /\ UNCHANGED <<external, get, posts, writing, closing, eclosing, once, sid, connecting, queue,
                   sent, wire, ends>>

\* The message is queued and nobody is told.
Send_Bug ==
    /\ ~external /\ pc[Sender] = "idle" /\ sent < MaxSends /\ MutexFree
    /\ sent' = sent + 1
    /\ queue' = IF closing \/ state # "open" THEN queue ELSE Append(queue, sent + 1)
    /\ UNCHANGED <<ext, flags, connecting, pc, wire, ends>>

\* send(), whether the application or a callback calls it: queued on an open
\* transport, under mutex_; then write_condition_.
Send ==
    /\ ~external /\ pc[Sender] = "idle" /\ sent < MaxSends /\ MutexFree
    /\ sent' = sent + 1
    /\ IF closing \/ state # "open"
         THEN UNCHANGED queue
         ELSE queue' = Append(queue, sent + 1)
    /\ Goto(Sender, IF queue' = queue THEN "idle" ELSE "notify")
    /\ UNCHANGED <<ext, flags, connecting, wire, ends>>

SendNotify ==
    /\ pc[Sender] = "notify"
    /\ pc' = Woken([pc EXCEPT ![Sender] = "idle"])
    /\ UNCHANGED <<ext, flags, connecting, queue, sent, wire, ends>>

\* With an io_context of the application, send() is posted.
SendPosted ==
    /\ external /\ sent < MaxSends
    /\ sent' = sent + 1
    /\ strand' = Append(strand, sent + 1)
    /\ UNCHANGED <<external, get, posts, writing, flags, connecting, queue, pc, wire, ends>>

\* engineio_client::sync_close(): close(), and the joins.
SyncClose ==
    /\ pc[Closer] = "idle"
    /\ eclosing' = TRUE
    /\ Goto(Closer, "close")
    /\ UNCHANGED <<ext, state, closing, once, sid, connecting, queue, sent, wire, ends>>

\* close() does nothing for a transport that connect() has not reached.
ClosePosted_Bug ==
    /\ external /\ pc[Closer] = "close"
    /\ strand' = IF state = "closed" THEN strand ELSE Append(strand, Close)
    /\ Goto(Closer, "synced")
    /\ UNCHANGED <<external, get, posts, writing, flags, connecting, queue, sent, wire, ends>>

\* close() is posted, and nothing is joined.
ClosePosted ==
    /\ external /\ pc[Closer] = "close"
    /\ strand' = Append(strand, Close)
    /\ Goto(Closer, "synced")
    /\ UNCHANGED <<external, get, posts, writing, flags, connecting, queue, sent, wire, ends>>

\* join_threads() takes connect_mutex_ ...
JoinLock ==
    /\ pc[Closer] = "join" /\ connecting = Nobody
    /\ connecting' = Closer
    /\ Goto(Closer, "joining")
    /\ UNCHANGED <<ext, flags, queue, sent, wire, ends>>

\* ... and lets go of it when the three threads have ended.
JoinThreads ==
    /\ pc[Closer] = "joining"
    /\ \A t \in Workers : pc[t] \in {"unborn", "done"}
    /\ connecting' = Nobody
    /\ Goto(Closer, "synced")
    /\ UNCHANGED <<ext, flags, queue, sent, wire, ends>>
-----------------------------------------------------------------------------
(* close(), by the Closer or by a callback on the poll or the write thread, or on  *)
(* the strand.                                                                  *)

CloseReturns(t) == IF t = Closer THEN "join" ELSE "called"

\* connect_mutex_ and shutdown_once_.
CloseLock(t) ==
    /\ pc[t] = "close" /\ connecting = Nobody /\ (external => t # Closer)
    /\ \/ once /\ Goto(t, CloseReturns(t)) /\ UNCHANGED <<once, connecting>>
       \/ ~once /\ once' = TRUE /\ connecting' = t /\ Goto(t, "close_flag")
    /\ UNCHANGED <<ext, state, closing, eclosing, sid, queue, sent, wire, ends>>

\* The close is reported whether or not fail() has reported it.
CloseFlag_Bug(t) ==
    /\ pc[t] = "close_flag"
    /\ closing' = TRUE /\ state' = "closed"
    /\ notify' = TRUE
    /\ Goto(t, "close_notify")
    /\ UNCHANGED <<ext, eclosing, once, sid, connecting, queue, sent, wire, failer, errors, closes>>

\* closing_ is set without mutex_; whoever sets it first reports the close.
CloseFlag(t) ==
    /\ pc[t] = "close_flag"
    /\ closing' = TRUE /\ state' = "closed"
    /\ notify' = ~closing
    /\ Goto(t, "close_notify")
    /\ UNCHANGED <<ext, eclosing, once, sid, connecting, queue, sent, wire, failer, errors, closes>>

CloseNotify(t) ==
    /\ pc[t] = "close_notify"
    /\ pc' = Woken([pc EXCEPT ![t] = "close_session"])
    /\ UNCHANGED <<ext, flags, connecting, queue, sent, wire, ends>>

\* A session that has an id is ended by a POST, on a thread of its own unless there is a
\* strand; the pending poll returns then.  On the strand the queue is cleared.
CloseSession(t) ==
    /\ pc[t] = "close_session" /\ MutexFree
    /\ connecting' = Nobody
    /\ queue' = IF external THEN <<>> ELSE queue
    /\ pc' = [pc EXCEPT ![t] = IF notify THEN "close_report" ELSE CloseReturns(t),
                        ![Ender] = IF sid THEN "post" ELSE @]
    /\ UNCHANGED <<ext, flags, sent, wire, ends>>

\* on_close_, with connect_mutex_ released; an exception takes the Closer past the joins.
CloseReport(t) ==
    /\ pc[t] = "close_report"
    /\ closes' = closes + 1 /\ notify' = FALSE
    /\ \/ Goto(t, IF t = Closer THEN "join" ELSE "callback")
       \/ CallbacksThrow /\ t = Closer /\ Goto(t, "threw")
    /\ UNCHANGED <<ext, flags, connecting, queue, sent, wire, failer, errors>>

EnderPosts == /\ pc[Ender] = "post"
              /\ Goto(Ender, "done")
              /\ UNCHANGED <<ext, flags, connecting, queue, sent, wire, ends>>
-----------------------------------------------------------------------------
(* fail(), on the poll or the write thread, and the callbacks.                  *)

FailFlag(t) ==
    /\ pc[t] = "fail"
    /\ closing' = TRUE
    /\ state' = IF closing THEN state ELSE "closed"
    /\ failer' = IF closing THEN failer ELSE t
    /\ Goto(t, IF closing THEN "failed" ELSE "fail_clear")
    /\ UNCHANGED <<ext, eclosing, once, sid, connecting, queue, sent, wire, notify, errors, closes>>

FailClear(t) ==
    /\ pc[t] = "fail_clear" /\ MutexFree
    /\ queue' = <<>>
    /\ Goto(t, "fail_notify")
    /\ UNCHANGED <<ext, flags, connecting, sent, wire, ends>>

\* write_condition_, and then on_error_ ...
FailNotify(t) ==
    /\ pc[t] = "fail_notify"
    /\ pc' = Woken([pc EXCEPT ![t] = "error"])
    /\ errors' = errors + 1
    /\ UNCHANGED <<ext, flags, connecting, queue, sent, wire, notify, failer, closes>>

\* ... and, when that has returned, on_close_.
FailClose(t) ==
    /\ pc[t] \in {"error", "called"} /\ failer = t
    /\ closes' = closes + 1 /\ failer' = Nobody
    /\ Goto(t, "callback")
    /\ UNCHANGED <<ext, flags, connecting, queue, sent, wire, notify, errors>>

\* A callback calls close(), of which the first on an engine comes through, or sync_close(),
\* which comes through always and joins nothing on a thread of the transport.
CallbackCloses(t) ==
    /\ CallbacksClose /\ pc[t] \in {"callback", "error"}
    /\ eclosing' = TRUE
    /\ \/ Goto(t, "close")
       \/ eclosing /\ Goto(t, "called")
    /\ UNCHANGED <<ext, state, closing, once, sid, connecting, queue, sent, wire, ends>>

\* Where the poll thread, or a handler on the strand, ends.
Ended == IF external THEN "strand" ELSE "done"

\* The callback returns, and fail() if it has made the call; fail() ends the poll loop,
\* and a pass of the write loop.
CallbackReturns(t) ==
    /\ pc[t] \in {"callback", "called", "failed"} /\ failer # t
    /\ Goto(t, IF t = Write THEN "test"
               ELSE IF pc[t] = "failed" \/ closing THEN Ended ELSE "deliver")
    /\ UNCHANGED <<ext, flags, connecting, queue, sent, wire, ends>>

\* An exception leaves the callback, and with it deliver() or fail(): run() and post() catch
\* it and fail unless they are closing, and a handler on the strand ends without a next GET.
CallbackThrows(t) ==
    /\ CallbacksThrow /\ pc[t] \in {"callback", "called", "error"}
    /\ failer' = IF failer = t THEN Lost ELSE failer
    /\ Goto(t, IF t = Write THEN "test" ELSE IF external \/ closing THEN Ended ELSE "fail")
    /\ UNCHANGED <<ext, flags, connecting, queue, sent, wire, notify, errors, closes>>
-----------------------------------------------------------------------------
(* The poll thread.                                                            *)

\* The first GET.
PollHandshake ==
    /\ pc[Poll] = "handshake"
    /\ \/ state' = "open" /\ Goto(Poll, IF closing THEN "done" ELSE "deliver")
       \/ Goto(Poll, IF closing THEN "done" ELSE "fail") /\ UNCHANGED state
    /\ UNCHANGED <<ext, closing, eclosing, once, sid, connecting, queue, sent, wire, ends>>

\* Each packet of a body goes to on_message_; OPEN carries the id of the session.
DeliverPacket ==
    /\ pc[Poll] = "deliver"
    /\ IF closing
         THEN Goto(Poll, Ended) /\ UNCHANGED sid
         ELSE /\ Goto(Poll, "callback")
              /\ \/ UNCHANGED sid
                 \/ MutexFree /\ sid' = TRUE
    /\ UNCHANGED <<ext, state, closing, eclosing, once, connecting, queue, sent, wire, ends>>

\* The body is delivered; the next GET is sent.
PollNext ==
    /\ pc[Poll] = "deliver" /\ MutexFree
    /\ get' = IF external /\ ~closing THEN "poll" ELSE get
    /\ Goto(Poll, IF closing \/ external THEN Ended ELSE "poll")
    /\ UNCHANGED <<external, strand, posts, writing, flags, connecting, queue, sent, wire, ends>>

PollReturns ==
    /\ pc[Poll] = "poll"
    /\ \/ Goto(Poll, IF closing THEN "done" ELSE "deliver")
       \/ Goto(Poll, IF closing THEN "done" ELSE "fail")
    /\ UNCHANGED <<ext, flags, connecting, queue, sent, wire, ends>>
-----------------------------------------------------------------------------
(* The write worker.                                                           *)

\* The newest message is taken first.
WriteTest_Bug ==
    /\ pc[Write] = "test"
    /\ \/ /\ queue # <<>>
          /\ wire' = Append(wire, queue[Len(queue)])
          /\ queue' = SubSeq(queue, 1, Len(queue) - 1)
          /\ Goto(Write, "post")
       \/ /\ queue = <<>>
          /\ Goto(Write, IF closing THEN "done" ELSE "locked")
          /\ UNCHANGED <<queue, wire>>
    /\ UNCHANGED <<ext, flags, connecting, sent, ends>>

\* With mutex_: take a message, or return when closing, or go to sleep.
WriteTest ==
    /\ pc[Write] = "test"
    /\ \/ /\ queue # <<>>
          /\ wire' = Append(wire, Head(queue))
          /\ queue' = Tail(queue)
          /\ Goto(Write, "post")
       \/ /\ queue = <<>>
          /\ Goto(Write, IF closing THEN "done" ELSE "locked")
          /\ UNCHANGED <<queue, wire>>
    /\ UNCHANGED <<ext, flags, connecting, sent, ends>>

WriteSleeps ==
    /\ pc[Write] = "locked"
    /\ Goto(Write, "asleep")
    /\ UNCHANGED <<ext, flags, connecting, queue, sent, wire, ends>>

\* The POST returns; a failure while closing is not one.
WritePosts ==
    /\ pc[Write] = "post"
    /\ \/ Goto(Write, "test")
       \/ ~closing /\ Goto(Write, "fail")
    /\ UNCHANGED <<ext, flags, connecting, queue, sent, wire, ends>>
-----------------------------------------------------------------------------
(* The strand: posted calls, and the completions of requests.  A request that was   *)
(* cancelled ends with an error, like one that fails.                              *)

\* The POSTs overlap.
StartNextWrite_Bug(q, busy, active) ==
    IF q = <<>> \/ closing
      THEN queue' = q /\ posts' = active /\ writing' = busy
      ELSE queue' = Tail(q) /\ posts' = active \cup {Head(q)} /\ writing' = TRUE

\* start_next_external_write: one POST at a time.
StartNextWrite(q, busy, active) ==
    IF busy \/ q = <<>> \/ closing
      THEN queue' = q /\ posts' = active /\ writing' = busy
      ELSE queue' = Tail(q) /\ posts' = active \cup {Head(q)} /\ writing' = TRUE

\* A posted call: the handshake, close(), or a message, queued on an open transport.
RunPosted ==
    /\ pc[Poll] = "strand" /\ strand # <<>>
    /\ strand' = Tail(strand)
    /\ get' = IF Head(strand) = Start THEN "handshake" ELSE get
    /\ Goto(Poll, IF Head(strand) = Close THEN "close" ELSE "strand")
    /\ IF Head(strand) \in {Start, Close} \/ closing \/ state # "open"
         THEN UNCHANGED <<queue, posts, writing>>
         ELSE StartNextWrite(Append(queue, Head(strand)), writing, posts)
    /\ UNCHANGED <<external, flags, connecting, sent, wire, ends>>

\* The GET returns; its handler looks at closing_ first.
GetCompletes ==
    /\ pc[Poll] = "strand" /\ get # "none"
    /\ get' = "none"
    /\ \/ /\ state' = IF get = "handshake" /\ ~closing THEN "open" ELSE state
          /\ Goto(Poll, IF closing THEN "strand" ELSE "deliver")
       \/ /\ Goto(Poll, IF closing THEN "strand" ELSE "fail")
          /\ UNCHANGED state
    /\ UNCHANGED <<external, strand, posts, writing, closing, eclosing, once, sid, connecting,
                   queue, sent, wire, ends>>

\* A POST returns: the next one, if any, is started.
PostCompletes ==
    /\ pc[Poll] = "strand"
    /\ \E k \in posts :
          \/ /\ wire' = Append(wire, k)
             /\ StartNextWrite(queue, FALSE, posts \ {k})
             /\ UNCHANGED pc
          \/ /\ posts' = posts \ {k} /\ writing' = FALSE
             /\ Goto(Poll, IF closing THEN "strand" ELSE "fail")
             /\ UNCHANGED <<queue, wire>>
    /\ UNCHANGED <<external, strand, get, flags, connecting, sent, ends>>
-----------------------------------------------------------------------------
Closes(t) == CloseLock(t) \/ CloseFlag(t) \/ CloseNotify(t) \/ CloseSession(t) \/ CloseReport(t)
Fails(t)  == FailFlag(t) \/ FailClear(t) \/ FailNotify(t) \/ FailClose(t) \/ CallbackReturns(t)

\* What callbacks may do beside returning.
CallbackActs(t) == CallbackCloses(t) \/ CallbackThrows(t)

CloserRuns == Closes(Closer) \/ ClosePosted \/ JoinLock \/ JoinThreads
PollRuns   == \/ Closes(Poll) \/ Fails(Poll)
              \/ PollHandshake \/ PollReturns \/ PollNext
              \/ RunPosted
WriteRuns  == \/ Closes(Write) \/ Fails(Write)
              \/ WriteTest \/ WriteSleeps \/ WritePosts

Next == \/ Connect \/ Send \/ SendNotify \/ SendPosted \/ SyncClose
        \/ GetCompletes \/ PostCompletes
        \/ CloserRuns \/ PollRuns \/ WriteRuns \/ EnderPosts
        \/ DeliverPacket
        \/ CallbackActs(Poll) \/ CallbackActs(Write)

Spec == Init /\ [][Next]_vars

(* Threads run, and so do the calls and completions queued on the strand, each in  *)
(* its turn.  HTTP requests return, which is assumed of the server, since no       *)
(* request has a timeout; callbacks return and a body has an end.  The application  *)
(* need not call anything.                                                      *)
FairSpec == /\ Spec
            /\ WF_vars(SendNotify) /\ WF_vars(CloserRuns) /\ WF_vars(EnderPosts)
            /\ WF_vars(PollRuns) /\ WF_vars(WriteRuns)
            /\ SF_vars(PollNext) /\ SF_vars(RunPosted)
            /\ SF_vars(GetCompletes) /\ SF_vars(PostCompletes)
-----------------------------------------------------------------------------
(* Every variable keeps its type.  A transport has one end: fail() and close()    *)
(* together report a close at most once, and an error at most once.              *)
TypeOK ==
    /\ {closing, eclosing, once, sid} \subseteq BOOLEAN
    /\ state \in {"closed", "connecting", "open"}
    /\ connecting \in {Nobody, Closer, Poll, Write}
    /\ sent \in 0 .. MaxSends /\ Range(queue) \cup Range(wire) \subseteq 1 .. sent
    /\ DOMAIN pc = Threads
    /\ closes \in 0 .. 1 /\ errors \in 0 .. 1
    /\ notify \in BOOLEAN /\ failer \in {Nobody, Lost, Poll, Write}
    /\ Range(strand) \subseteq {Start, Close} \cup 1 .. sent /\ posts \subseteq 1 .. sent

(* Messages are posted once, in the order of the calls of send(), by the worker    *)
(* and by the completions on the strand.                                         *)
PostsInOrder == \A i, j \in DOMAIN wire : i < j => wire[i] < wire[j]

(* When sync_close() has returned, a transport on threads of its own has none    *)
(* left, not even one that a late connect() starts.                            *)
SyncCloseStopsTransport ==
    ~external /\ pc[Closer] = "synced" => \A t \in Workers : pc[t] \in {"unborn", "done"}

(* A message that was accepted is posted, or dropped by a failure.               *)
AcceptedLeaves == \A k \in 1 .. MaxSends : k \in Range(queue) ~> k \notin Range(queue)

\* fail() has called on_error_, whose listener calls close(): it waits for connect_mutex_,
\* which the Closer holds until the thread that waits has ended.
Caught == failer \in Workers /\ pc[failer] = "close" /\ pc[Closer] = "joining"

(* A transport that is asked to close reports its end, whether close() or fail()     *)
(* comes first, whoever calls it, and although close() may be posted.  There are two   *)
(* ways not to: the error listener of fail(), which close() has left the report to,   *)
(* throws, or is caught in a deadlock with sync_close().                           *)
CloseReported == pc[Closer] = "close" ~> closes = 1 \/ failer = Lost \/ Caught

(* sync_close() returns when the workers have stopped.                          *)
SyncCloseReturns == pc[Closer] = "close" ~> pc[Closer] = "synced"
=============================================================================
