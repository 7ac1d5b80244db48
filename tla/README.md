# A TLA+ model of sioxx

sioxx is a Socket.IO client in C++. Its state is shared by application threads,
I/O threads of the transports, heartbeat threads, a reconnect worker and one
deadline worker per namespace, and by the callbacks that run on each of them.
This directory models that concurrency and the packets that pass through it,
checks both with TLC, and proves with TLAPS the safety properties of the namespace
socket, of the client, of the WebSocket session, of the polling transport and of the
packets between the server and the listeners, and the bounds of the two computations
where a number could leave its range.

## The system

| part | source | state | operations | who runs it |
|---|---|---|---|---|
| namespace socket | `src/socket.cpp` | `connected_`, `send_buffer_`, `flushing_send_buffer_`, `pending_acks_`, `timed_acks_`, `active_timed_acks_` | three `emit` overloads, flush, ack dispatch, expiry, cancel, `mark_connected` | application, I/O thread, deadline worker |
| deadline worker | `src/ack_scheduler.hpp` | ordered deadlines | add, remove, clear, wait and expire | its own thread |
| client | `src/client.cpp` | `intentional_close_`, `using_polling_`, `reconnect_attempts_used_`, `engineio_`, `sockets_`, `reconnect_thread_` | `connect`, `close`, `sync_close`, `socket`, engine handlers, polling fallback, reconnection | application, I/O threads, reconnect worker |
| Engine.IO session | `src/engineio_client.cpp` | `open_`, `closing_`, `heartbeat_thread_`, `last_pong_` | `open`, `close`, `sync_close`, `send`, packets 0-4 and 6, ping timeout | application, I/O thread, heartbeat thread |
| WebSocket transport | `src/websocket_transport.cpp` | `closing_`, `write_queue_`, `write_in_progress_`, the strand | `connect`, read loop, write queue, `close`, `sync_close` | I/O thread |
| HTTP polling transport | `src/http_polling_transport.cpp` | `closing_`, `sid_`, `write_queue_`, three threads, or a strand and `external_write_in_progress_` | `connect`, poll loop, write worker, `close`, `sync_close`, `fail`, completions | poll, write and close threads, or the application's `io_context` |
| packet parsers | `src/json_parser.cpp`, `src/msgpack_parser.cpp` | the pending binary packet | `encode`, `decode` | the thread that sends or delivers |
| helpers | `src/reconnection.cpp`, `src/url_parse.cpp`, `src/engineio_url.cpp`, `src/proxy.cpp` | none | pure functions | anybody |

The client owns one engine at a time and any number of sockets. An engine owns
one transport and holds the heartbeat thread. Events go up the chain transport →
engine → client → socket on the thread that met them; emissions go down it on
the thread that emits. What is hard about this: listeners run in the middle of
it, sometimes under a lock; `close()` can come from any thread at any point;
engines are replaced while their threads still run; deadlines race replies.

## Modules

| module | models |
|---|---|
| `TimedAck` | what a timed emission promises, as an abstract specification |
| `Socket` | one namespace socket, its deadline worker, the threads that deliver to it, a shutdown |
| `SocketInv` | the inductive invariant of `Socket` |
| `SocketAckProofs`, `SocketProofs` | the proof that it is one, its consequences, and that `Socket` implements `TimedAck` |
| `Client` | the lifecycle of the client, its engines seen from outside |
| `ClientProofs` | the inductive invariant of `Client`, the proofs of its safety properties, and what holds of `Numeric` for all arguments |
| `WebSocketSession` | one Engine.IO session composed with the WebSocket transport |
| `SessionProofs` | its inductive invariant (who runs, holds and stops what; what is written), the proof that it is one, and the safety properties |
| `PollingTransport` | the HTTP polling transport, on threads of its own or on a strand |
| `PollingProofs` | the proofs of its safety properties |
| `Numeric` | reading decimal numbers of packet headers, and the reconnection delay |
| `PacketTypes` | packets, and what a parser has after a frame |
| `Codec` | the parsers, base64, the Engine.IO framing and the polling payloads, as operators |
| `Frames` | packets between the server and the listeners over any formats that meet its assumptions: `send_packet`, `on_engineio_frame`, `dispatch_event`, the parser that all engines share |
| `FramesLemmas`, `FramesControlProofs`, `FramesProofs` | the inductive invariant of `Frames` (the frames on their way; who runs, holds and sends what; what was heard), the proof that it is one, and the safety properties |
| `MCSocket` | symmetry for the runs of `Socket` |
| `MCFrames` | `Frames` over the formats of `Codec`, messages for its run, and the contracts of the operators of `Codec` and `Numeric` as assumptions that TLC evaluates |

In every module a step is one critical section, or one access to an atomic that
other threads use. A mutex is a variable only where the code keeps it while it
waits or calls out (`reconnect_mutex_` across a join, `sockets_mutex_` across
`on_disconnect` listeners, `heartbeat_mutex_` and the polling `mutex_` between test and sleep,
`connect_mutex_` across `close()` and the joins).

**Socket.** `pc` tells where each thread is in `emit`, `flush_send_buffer`,
`expire_ack`, `dispatch_ack` or the shutdown. The buffer is a set of packets with
their places, so that the front, an erase in the middle and an append keep the
order of the deque. The clock `now` advances at any time. The history variables
`wire`, `calls` and `outcome` record what reached `send_packet`, how often a
callback started and how an acknowledgement ended. `SendMayThrow` allows
`send_packet` to throw, as it does when a parser rejects a payload.

**Client.** An engine is its number of creation, with the state of its connection
`up`. What an engine may report is an event (`Handshake`, `ConnectFails`, `Lost`,
`WriteFails`, `LateWriteFails`, `CloseFrame`); the handlers that follow are split
at each access to shared state. `Quirks` turns on the environment's less usual
events and a `connect()` without a preceding `sync_close()`; `ListenersClose`
lets listeners call `close()`.

**WebSocketSession.** Engine and transport with an `io_context` of their own. The
I/O thread takes one event at a time: a posted handler, the completion of the
outstanding read or write. The heartbeat thread has a step for its test under
`heartbeat_mutex_` and one for its sleep. A listener on the I/O thread or on the
heartbeat thread may call `close()`.

**PollingTransport.** The poll thread, the write worker and the thread that posts
the end of the session, with one thread that connects, one that sends and one that
calls `sync_close()`. `close()` is five steps: the lock, `closing_`, the
notification, the end of the session and, with `connect_mutex_` released, `on_close_`
(`notify` is its `notify_close`). `fail()` is four: `closing_`, the queue, `on_error_` and,
when that listener is done, `on_close_`; `failer` is the thread that has yet to make that
last call. The write worker's test and its sleep are two
steps, between which it holds `mutex_`. A request succeeds or fails, a body is any
number of packets. `CallbacksClose` lets callbacks call `close()` or `sync_close()`, which
on a thread of the transport joins nothing. `CallbacksThrow` lets them throw: out of
`deliver()` into the `catch` of `run()` or `post()`, which fails unless the transport is
closing; out of a handler on the strand, which then sends no further GET; out of the
error listener of `fail()`, which then never calls `on_close_` (`failer` is `Lost`).
`external`, chosen in `Init`, is the other mode: `connect()`, `send()` and `close()`
are posted to `strand`, `RunPosted` runs the first of them, and `GetCompletes` and
`PostCompletes` are the handlers of requests. `Poll` stands for the strand then, so
that `fail()`, `close()` and the delivery of a body are the same actions in both
modes; `StartNextWrite` keeps one POST under way.

**Codec and Frames.** A JSON value is a tuple with its kind, text a sequence of
tokens (a digit, a comma, a namespace, a JSON value), bytes are numbers: enough for
`decode` to go through a header the way the code does, and for base64 to be computed.
`Frames` takes the formats as parameters: `Encode` and `Decode` of a parser, and `Carry`,
what a transport makes of frames that are sent together. Its assumptions say what it
needs of them: decoding the frames of a packet one by one finds it
(`ParserAssumption`); the first frame of a packet ends the wait for the rest of another
one, and mixed frames lead to no namespace and no id that the server did not name
(`MixtureAssumption`); frames arrive as they were sent (`ChannelAssumption`). `MCFrames`
puts in `parser_encode`, `parser_decode` and `carry` of `Codec`, so that TLC evaluates
the assumptions for the formats of the client before it explores `Frames` with them: a
mistake in a format, such as the refusal of the largest `int` as an id or a pending
packet that a new header does not end, violates an assumption of the `frames` run.
`kept` is what a parser remembers between frames. A connection has a thread that
reads; an emitter and a replier send, each with `send_mutex_` and one step per frame.
Which listeners a namespace has is chosen when an event is dispatched. Servers send
well-formed packets; MessagePack is sent over WebSocket only in the model, since a
polling payload of it is one base64 packet like any attachment.

## Runs

| run | shows |
|---|---|
| `socket` | all safety properties of the socket, and that it keeps the promise `TimedAck` |
| `socket_live` | with exceptions allowed: order, resolution of every timed acknowledgement, and the buffer drains unless an exception cut the flush short |
| `socket_throw_strands` | *violation*: an exception out of the flush leaves `flushing_send_buffer_` set and strands every later event |
| `client` | shutdown selects or rejects every replacement engine; one reconnect worker; none after `sync_close()`; every namespace is announced on the open engine |
| `client_live` | orderly environment: attempts stay within the limit, joins are safe, an open engine is kept, a lost connection is recovered, `sync_close()` returns |
| `client_reap` | *violation*: two close reports within one reconnect delay deadlock on `reconnect_mutex_` |
| `client_listener` | *violation*: `close()` from an `on_disconnect` listener deadlocks on `sockets_mutex_` |
| `session` | writes in order and one at a time, one heartbeat at a time, an open session is watched, a stop is prompt, `sync_close()` ends every thread and returns, a silent server is noticed |
| `session_ping` | *violation*: a ping timeout over WebSocket is never reported as a close |
| `polling` | in both modes: messages are posted in order and none is forgotten, one end is reported, and it is reported when asked for unless the error listener throws or deadlocks with `sync_close()`; `sync_close()` leaves no thread even against a late `connect()` |
| `polling_wakeup` | *violation*: `close()` notifies without `mutex_`, the write worker misses it, and `sync_close()` waits for ever |
| `frames` | with both parsers and both transports: sockets hear what the server said, in order and in one piece, whatever a lost connection cut off; nothing that arrived is dropped; an event is acknowledged once; the server finds the packets that were sent, whole and in order |

The findings in `PROJECT.json` quote the line of the documentation each violation
contradicts. Some observations have no run of their own. `sync_close()` does
not wait for the I/O thread of an engine that the fallback replaced. A reconnection
attempt that fails over WebSocket falls back to polling, though
`README.md:400` speaks of the initial connection only. With `CallbacksClose`,
`PollingTransport` reaches a state in which `sync_close()` joins the poll or the write
thread with `connect_mutex_` held while a callback's `close()` on that thread waits for
it. `sync_close()` does not return then; and when the callback is the error listener of
`fail()`, the close is not reported either, since `close()` found `closing_` set and left
the report to `fail()`, which is stuck in its listener. `CloseReported` names this state
(`Caught`) as one of its two exceptions, the other being an error listener that throws;
each of them occurs, and without `CallbacksClose` and `CallbacksThrow` neither is needed.
The `polling_wakeup` run keeps callbacks from closing and throwing so that its trace shows
the lost wake-up alone. In `Frames`, an engine replaced between `is_current_engineio` and
`decode` shares the parser with its successor without a lock (`crossed`), and an
engine that opens between two frames of a packet drops the first and sends the rest
(`torn`); the properties except both and say so.

The assumptions of `MCFrames` are about pure operators: `DelayContract` compares the
delay with repeated doubling, for arguments in and out of range, and says that it
grows with the attempt and the sample; `Base64RoundTrip` and `PacketRoundTrip` say
that decoding inverts encoding, for all byte strings up to length five over five
values, and for all nested payloads of two elements in both parsers.

### Bounds

Two ids with two distinct deadlines and two emissions are the least with which a
deadline can be added before another and a packet can overtake another; two
delivering threads are the least for two flushes. The `client` run has two
`connect()` calls and two engines, enough for every pair of an old and a new
engine; `client_live` has four engines, a fallback and two reconnection attempts
after the first. The session has two handshakes, so that a heartbeat is replaced,
and two writes, so that one waits behind another; at most three of these four
(`MaxTraffic`), which keeps the run short enough for its liveness properties. Polling has three messages: one
posted, one waiting and one being queued; one is enough for the lost wake-up.
`Frames` has two connections, the least for a packet that one begins and the next
must not continue; two units of traffic, the least for two senders or for a header
followed by another message; three packets in a polling body, enough for a binary event
with its two attachments; one namespace with a socket and one without. Its
messages have nested and empty attachments, attachments of each length modulo 3, and
the largest `int` as an id. Deadlock checking is off for
`Client`, `WebSocketSession`, `PollingTransport` and `Frames`, which may end; `Socket` never does and is checked
for it.

### Fairness

Every thread that can run does (weak fairness per thread), a reconnect delay and a
ping interval end, and in `Socket` the clock advances up to its bound. In
`PollingTransport` an HTTP request returns, with success or failure. That is an
assumption about the server and the network: `request()` blocks without a timeout
of its own, and a server that never answers holds up its thread and whoever joins
it. On the strand, calls and completions queue up and run in turn: a posted call and
a completion are strongly fair, since each of them is disabled while another handler
runs; and so is the end of a body, which has finitely many packets. Whoever opens a
session need not go on. Nothing else is assumed of the application, the server or the network.

### What the mutants show

An operator `X_Bug` before the definition `X` is `X` with a plausible mistake: a
dropped guard, a missing wake-up, a flag left set. Each property of a passing run
is violated when one such `X_Bug` replaces `X`.

## Proofs

### Socket

For any set of emitting and delivering threads, any numbers of ids and emissions,
any clock bound, with and without exceptions. The proofs use `BoundAssumption` and
`ThreadAssumption` of `Socket` only.

`SocketInv!IInv` is the inductive invariant. The safety properties alone are not
inductive: that no callback runs twice needs the disjointness of the two ack
tables and an empty history of unused ids (`AckInv`); that the worker never
oversleeps needs the fact that a thread holds an id to expire only after its
deadline (`DeadlineInv`); quiet after `sync_close()` needs `active_timed_acks_` to
be the number of threads in a timed callback (`CloseInv`); the order on the wire
needs the order of everything on its way there: buffer, flush and emitters
(`OrderInv`). Each group has a lemma with one step per action: the order, the flush,
the ack tables and the deadlines in `SocketAckProofs`; the types, the count of callbacks
and the pending ids in `SocketProofs`, which combines them into `InductiveInvariant`, derives the theorems of
the single properties, and maps each step of `Socket` to a step or a stutter of
`TimedAck` (`Refinement`).

### Client

For any numbers of namespaces, engines, `connect()` calls and attempts, from the
assumptions of `Client` on its constants. `IInv` has two halves.

The first holds whatever the environment does. `SelectedOrRejected` and
`NamespacesAnnounced` are about the engine that is the client's own; that they survive
the installation of another one needs `EngineInv`: an engine that its creator still has
in hand is nobody else's, is new unless a shutdown closed it, and has reported nothing.
`OneWorker` and `WorkersJoined` need `WorkerInv`: who holds `reconnect_mutex_` across a
join, and from which point of a shutdown on `reconnect_thread_` is empty and
`intentional_close_` keeps it so.

The second half, `OrderlyInv` and `NoHalf`, holds when `Quirks` is empty: a connection is reported
lost once and `connect()` follows `sync_close()`. `NoHalf` rules out an engine closed by a
CLOSE packet whose transport can still report an error. `OrderlyInv` says that one thread at a time
decides what becomes of the client (`Deciding`, `Pending`, the lemma `OneDecides`), and
that it does so about an engine whose connection is over. From it follow
`ReapIsSafeOrderly`, `HealthyKeptOrderly` and the bound on the attempts in `TypeOK`.
The hypothesis is needed: with a second close report the run `client_reap` violates
`ReapIsSafe`.

### WebSocketSession

For any numbers of handshakes and messages, with and without listeners that close.
`IInv` is `TypeOK`, `Control` and `WriteInv`. `HandleInv` says who has the handle of a
heartbeat thread that runs: `heartbeat_thread_`, or a thread that took it to join it.
`OneHeartbeatAlways` and `SyncCloseStopsSessionAlways` follow, the latter with
`ShutInv`: a shutdown reaches the transport before a late `connect()` can start an I/O
thread. `WatchInv` adds what the I/O thread owes an open session while it is busy, and
gives `WatchedAlways`. `PromptInv` says that nobody sets the stop flag between the test
and the sleep of a heartbeat, which hold `heartbeat_mutex_`, and gives
`PromptStopAlways`. For `WritesInOrderAlways`, `WriteInv` puts what is written, queued
and posted in one line, of which the front of the queue is being written; a transport
that is closing starts no write, so that nothing follows the one that may still be
outstanding.

### PollingTransport

For any number of messages, with and without callbacks that close or throw, in both modes.

`PostsInOrderAlways`: `PostsInOrder` speaks of what has been posted and is not
inductive. `OrderInv` puts everything on its way in one line (`Lined`): posted,
under way, queued, waiting in the strand, each increasing and each before the next,
with at most one POST under way, and that only on a strand, where no write worker
exists. The lemmas `LinedPost`, `LinedQueue` and `LinedSend` say what one move along
the line does; each action is one or two of those moves.

`SyncCloseStopsTransportAlways`: a late `connect()` is what could start a thread
after the joins. `CloseInv` says why it does not: whoever is in `close()` or joins
holds `connect_mutex_`; `shutdown_once_` was used before the joins; and once it was
used, `closing_` is set or its user still holds the mutex that `connect()` needs.

`TypeAlways` and `CloseNeverDropped`: `TypeOK` says that a transport reports at most one
close and at most one error. `close()` and `fail()` each leave the report to the other
when they find `closing_` set, and each makes its own some steps after it has set the
flag. `EndInv` says that this never doubles the report: while `closing_` is clear nothing
was reported and nobody owes a report; while it is set the close was reported, or one
`close()` owes it (`CloseOwes`), or one `fail()` does (`FailOwes`), or an exception has
carried that `fail()` off, and no two of these. That one owes the report does not mean
that it makes it: `CaughtForever` says that a thread of `fail()` whose listener has run into
the joins of `sync_close()` stays there, and that the close stays unreported.

### Frames

For any numbers of connections and packets, any messages and emissions, and any formats
that meet its assumptions, whatever `MaxTraffic` is. The argument has three layers, each with one step per action.

`ControlInv` is about control. `TypeInv` and `LockInv` give `FramesTyped`: who has
`send_mutex_` is sending, to an engine that exists, and how far it has got is a proper
part of the packet at the front of its job. `StreamInv` says that what is on its way on
a connection are frames of the server, and that the parser keeps what such frames in
some order can leave (`Mixed`): `crossed` may be set, and the server's packets still
name only namespaces and ids that it used. `LinkInv` says what a connection is used for
in each state of its link. `ClosureInv` says that the reply callbacks are for different
events, each of the past: an event is identified by its connection and its number there,
and the history of a connection is forgotten only when its thread can make no further
callback (`Retired`). With `ReplyInv`, that a reply was sent only for a callback that has been
used, `FramesAckOnce` follows, without exception for `crossed` or `torn`.

`OutInv` is what `FramesServerUnderstands` needs between two frames of a packet
(`Mid`): the parser of the server keeps exactly the frames that the holder of
`send_mutex_` has sent on the connection, and lacks exactly that packet; otherwise it
keeps nothing and has found every packet. An engine that opens in the middle of a packet
is the one case it does not cover (`torn`).

`InInv` is what `FramesDeliveredIntact` and `FramesNothingSwallowed` need. Each frame in
hand or in the inbox has its place: a message and a part of it. `LineOf` says that these
places run without a gap, to the last frame of the last message unless the connection
was lost, that the calls made so
far are those of the messages before the line, and that the parser keeps what precedes
the line in its message. On a new connection the line starts at its first message
whatever the parser has kept of the previous one, since a first frame ends that wait.
The lemmas `LineTail`, `LineAppend` and `LineAll` say what the decoding of a frame, a
message of the server and an empty queue do to it. The line is given by functions from
the places in the queue to messages and parts, not by concatenation of encodings, which would
need an induction over the messages.

### Numeric

The theorems are at the end of `ClientProofs`.

`DigitsNeverOverflow`: `parse_nonnegative_int` computes `result * 10 + digit` when
that is an `int` and refuses it otherwise, for every largest `int` of at least 9.
`DelayBounded`: the delay lies between 0 and the maximum, for all arguments. It takes
`2 ^ Exponent(attempt) \in Nat` as a hypothesis, since powers are beyond the SMT
backend; `DelayContract` has TLC compute them.

### Only model-checked

- All liveness properties (`BufferDrains`, `DrainsUnlessThrown`, `TimedAckResolves`,
  `Recovers`, `SyncCloseReturns`, `SilenceNoticed`, `AcceptedLeaves`, `CloseReported`):
  fairness and `ENABLED` are beyond the prover.
- The assumptions of `Frames`, for the formats of `Codec`, and the round trips of
  `MCFrames`: what the recursive operators of `Codec` compute takes an induction over
  payloads that the prover cannot do, and the SMT backend does not work in a module that
  reaches a `RECURSIVE` operator. `DelayContract`, which needs powers.

## Plan

1. The heartbeat thread composed with `PollingTransport`: its ping timeout calls
   `close()` too.
2. The external `io_context` mode of the WebSocket transport, as a module of its own.

## Not modelled

- The external `io_context` mode of the WebSocket transport. In `WebSocketSession` it
  would double a state space that already takes most of a run.
- The ends of the process. A callback that throws once more, out of the `fail()` that a
  `catch` block calls, or throws something that is no `std::exception`, reaches the top of
  its thread and ends the program; in `PollingTransport` the thread just ends. An exception
  out of a handler on the strand is left to the application, which runs the `io_context` on.
- Two branches of the polling transport: `join_thread()` detaches the thread that runs it,
  which `sync_close()` never lets it come to, and `deliver()` drops a packet that is not
  base64.
- Destructors. That of the deadline worker stops and joins it when its socket is gone.
  Those of the client and of an engine call `sync_close()`, which is
  modelled; those of the transports run when no thread or request is left, since each
  holds a `shared_ptr`. Memory that `shared_ptr` keeps alive is modelled only where a handler's
  `weak_ptr` decides (`Client!Alive`).
- TLS, proxies, `src/url_parse.cpp` and `src/engineio_url.cpp`: text without state, of
  which only base64 is computed here.
- The setters of listeners and their slots. Who listens is a choice where it matters.
- User data in the shape of an attachment's placeholder, which an encoder cannot tell
  from one; malformed packets of a server; the wording of errors.
