--------------------------- MODULE SessionProofs ----------------------------
(***************************************************************************)
(* The safety properties of WebSocketSession, for any numbers of           *)
(* handshakes and messages: the inductive invariant, that every step keeps *)
(* the part of it that is about threads (who holds the handle of a running *)
(* heartbeat, how far a shutdown is, what a stop request waits for), the   *)
(* payloads in order and the types, and what follows from it.              *)
(***************************************************************************)
EXTENDS WebSocketSession, TLAPS

Numbers == 1 .. MaxHandshakes

\* Who has the handle of a heartbeat thread that runs: heartbeat_thread_, or a thread that
\* has taken it to join it.  Only the I/O thread fills heartbeat_thread_.
HandleInv ==
    /\ pc[Io] # "unborn" => pc[Opener] = "done"
    /\ pc[Io] = "unborn" => ~open /\ beats = 0
    /\ \A n \in Numbers : n > beats => pc[Beat(n)] = "unborn"
    /\ pc[Io] \in StopPcs => packet \in {"OPEN", "CLOSE", "lost"}
    /\ pc[Io] \in {"opened", "start"} => packet = "OPEN"
    /\ pc[Io] \in StopPcs \cup {"opened", "start"} /\ packet = "OPEN" => beats < MaxHandshakes
    /\ \A t \in Threads : joins[t] # None => pc[t] = "join"
    /\ \A n \in Numbers : Beating(n) => n \in {handle, joins[Io], joins[Closer]}
    /\ pc[Io] \in {"join", "opened", "start", "report"} => handle = None
    /\ pc[Closer] \in {"join", "join_io", "synced"} => handle = None

\* A shutdown that has begun reaches the transport before a late connect() could start an
\* I/O thread.
ShutInv ==
    /\ pc[Closer] # "idle" => closing
    /\ \A t \in Threads : pc[t] \in ClosePcs => closing
    /\ closing => tclosing \/ pc[Io] # "unborn" \/ pc[Closer] \in ClosePcs
    /\ pc[Closer] = "synced" => pc[Io] \in {"unborn", "exited"}

\* What the I/O thread owes an open session while it is busy, and how a heartbeat ends.
WatchInv ==
    /\ pc[Io] \in StopPcs \cup {"report"} => ~open \/ packet = "OPEN"
    /\ pc[Io] = "report" => packet # "OPEN"
    /\ \A n \in Numbers : pc[Beat(n)] \in {"error", "beat_close"} => expired \/ closing
    /\ open /\ ~closing /\ pc[Io] \in {"idle", "listen"} =>
          \/ expired
          \/ ~stop /\ handle \in Numbers /\ Beating(handle)

\* Nobody asks a heartbeat thread to stop between the test of its predicate and its sleep.
PromptInv ==
    /\ \A n \in Numbers : Locked(n) => ~stop
    /\ PromptStop

Increasing(s) == \A i, j \in DOMAIN s : i < j => s[i] < s[j]
Before(r, s)  == \A i \in DOMAIN r, j \in DOMAIN s : r[i] < s[j]

\* Payloads on their way to the server, in the order of the posts: written, queued, posted.
\* The one being written is still at the front of the queue.  A closing transport starts no
\* write, and only a closing one is stopped.
WriteInv ==
    /\ stopped => tclosing
    /\ wire \in Seq(Nat) /\ queue \in Seq(Nat) /\ posted \in Seq(Nat) /\ flying \in Seq(Nat)
    /\ Increasing(wire) /\ Before(wire, flying) /\ Len(flying) <= 1
    /\ \A i \in DOMAIN posted : posted[i] <= sent
    /\ \A i \in DOMAIN queue : queue[i] \in 1 .. sent
    /\ ~tclosing =>
          /\ \A i \in DOMAIN posted : posted[i] # Shutdown
          /\ \A i \in DOMAIN wire : wire[i] <= sent
          /\ Increasing(queue) /\ Increasing(posted)
          /\ Before(wire, queue) /\ Before(wire, posted) /\ Before(queue, posted)
          /\ inprog => queue # <<>>
          /\ flying = IF inprog THEN <<Head(queue)>> ELSE <<>>

Control == PcOK /\ HandleInv /\ ShutInv /\ WatchInv /\ PromptInv
IInv    == TypeOK /\ Control /\ WriteInv
-----------------------------------------------------------------------------
(* The threads are distinct, and there is no other.                                *)
LEMMA ThreadNames ==
    /\ Threads = {Opener, Closer, Sender, Io} \cup Beats
    /\ \A n \in Numbers : Beat(n) \in Beats
    /\ \A t \in Beats : \E n \in Numbers : t = Beat(n)
    /\ Opener # Closer /\ Opener # Sender /\ Opener # Io
    /\ Closer # Sender /\ Closer # Io /\ Sender # Io
    /\ \A n : Beat(n) # Opener /\ Beat(n) # Closer /\ Beat(n) # Sender /\ Beat(n) # Io
    /\ \A m, n : Beat(m) = Beat(n) => m = n
BY DEF Threads, Beats, Numbers, Opener, Closer, Sender, Io, Beat

(* A jump of one thread, within its program.                                      *)
LEMMA Jump ==
    ASSUME PcOK, NEW t \in Threads, NEW l, Goto(t, l),
           t = Opener => l \in OpenerPcs, t = Sender => l \in SenderPcs,
           t = Closer => l \in CloserPcs, t = Io => l \in IoPcs, t \in Beats => l \in BeatPcs
    PROVE  /\ PcOK'
           /\ pc'[t] = l /\ \A u \in Threads : u # t => pc'[u] = pc[u]
BY ThreadNames DEF PcOK, Goto, Numbers

(* A step in which no thread moves and nothing a heartbeat depends on changes.      *)
LEMMA ControlKept ==
    ASSUME Control, UNCHANGED <<pc, closing, stop, handle, beats, joins, packet, expired>>,
           open' => open, tclosing => tclosing'
    PROVE  Control'
BY DEF Control, PcOK, HandleInv, ShutInv, WatchInv, PromptInv, PromptStop, Beating, Locked

(* Opening and sending threads matter to nobody, once the I/O thread is there.       *)
LEMMA AppJump ==
    ASSUME Control, NEW t \in {Opener, Sender}, NEW l, Goto(t, l),
           t = Opener => l \in OpenerPcs /\ pc[t] # "done", t = Sender => l \in SenderPcs,
           UNCHANGED <<closing, stop, handle, beats, joins, packet, expired, tclosing>>,
           open' => open
    PROVE  Control'
<1>0. PcOK /\ HandleInv /\ ShutInv /\ WatchInv /\ PromptInv
  BY DEF Control
<1>z. t \in Threads /\ t # Closer /\ t # Io /\ t \notin Beats
  BY ThreadNames
<1>1. PcOK' /\ pc'[t] = l /\ \A u \in Threads : u # t => pc'[u] = pc[u]
  BY <1>0, <1>z, Jump
<1>2. /\ pc'[Io] = pc[Io] /\ pc'[Closer] = pc[Closer]
      /\ pc'[Opener] = "done" \/ pc[Opener] # "done"
      /\ \A n \in Numbers : pc'[Beat(n)] = pc[Beat(n)]
  BY <1>z, <1>1, ThreadNames
<1>3. {pc[t], l} \cap (ClosePcs \cup {"join", "notify"}) = {}
  BY <1>0 DEF PcOK, OpenerPcs, SenderPcs, ClosePcs
<1>4. \A u \in Threads : /\ joins[u] # None => pc'[u] = "join"
                         /\ pc'[u] \in ClosePcs => closing
                         /\ pc[u] \in {"notify", "close_notify"} => pc'[u] = pc[u]
  BY <1>0, <1>z, <1>1, <1>3, Zenon DEF HandleInv, ShutInv, ClosePcs
<1>5. HandleInv'
  BY <1>0, <1>2, <1>4 DEF HandleInv, Beating
<1>6. ShutInv' /\ WatchInv' /\ PromptInv'
  BY <1>0, <1>2, <1>4 DEF ShutInv, WatchInv, PromptInv, PromptStop, Beating, Locked,
                       Numbers
<1> QED
  BY <1>1, <1>5, <1>6 DEF Control

(* A jump of a heartbeat thread.                                                   *)
LEMMA BeatJump ==
    ASSUME Control, NEW n \in Numbers, NEW l \in BeatPcs \ {"unborn"}, Goto(Beat(n), l),
           pc[Beat(n)] \notin {"unborn", "done", "close_notify"},
           UNCHANGED <<stop, handle, beats, joins, packet>>,
           open' => open, closing => closing', tclosing => tclosing', expired => expired',
           l \in ClosePcs => closing',
           l \in {"error", "beat_close"} => expired' \/ closing',
           l \in {"locked", "asleep"} => ~stop,
           l = "done" => ~open \/ closing' \/ expired' \/ stop
    PROVE  Control'
<1>0. PcOK /\ HandleInv /\ ShutInv /\ WatchInv /\ PromptInv
  BY DEF Control
<1>1. /\ PcOK' /\ pc'[Beat(n)] = l
      /\ \A u \in Threads : u # Beat(n) => pc'[u] = pc[u]
      /\ pc'[Io] = pc[Io] /\ pc'[Closer] = pc[Closer] /\ pc'[Opener] = pc[Opener]
      /\ \A m \in Numbers : Beat(m) \in Threads /\ (m # n => pc'[Beat(m)] = pc[Beat(m)])
  BY <1>0, ThreadNames, Jump
<1>2. pc[Io] # "unborn" /\ joins[Beat(n)] = None
  BY <1>0, ThreadNames, SessionAssumption DEF PcOK, HandleInv, BeatPcs, ClosePcs, Numbers
<1>3. \A m \in Numbers : Beating(m)' => Beating(m)
  BY <1>1 DEF Beating
<1>4. HandleInv'
  BY <1>0, <1>1, <1>2, <1>3, ThreadNames DEF HandleInv
<1>5. ShutInv'
  BY <1>0, <1>1, <1>2 DEF ShutInv
<1>6. WatchInv'
  BY <1>0, <1>1 DEF WatchInv, Beating
<1>7. /\ \A m \in Numbers : Locked(m)' => ~stop
      /\ \A m \in Numbers : stop /\ pc'[Beat(m)] = "asleep" => pc[Beat(m)] = "asleep"
      /\ \A u \in Threads : pc[u] \in {"notify", "close_notify"} => pc'[u] = pc[u]
  <2>1. pc[Beat(n)] # "notify"
    BY <1>0 DEF PcOK, BeatPcs, ClosePcs, Numbers
  <2> QED
    BY <1>0, <1>1, <2>1 DEF PromptInv, Locked
<1>8. PromptInv'
  BY <1>0, <1>7 DEF PromptInv, PromptStop, Numbers
<1> QED
  BY <1>1, <1>4, <1>5, <1>6, <1>8 DEF Control

(* A jump of the closing thread that neither notifies nor joins a heartbeat.          *)
LEMMA CloserJump ==
    ASSUME Control, NEW l \in CloserPcs \ {"idle", "join"}, Goto(Closer, l), closing',
           pc[Closer] \notin {"notify", "close_notify", "join"},
           UNCHANGED <<stop, handle, beats, joins, packet, expired>>,
           open' => open, tclosing => tclosing',
           l \in {"join_io", "synced"} => handle = None,
           l = "synced" => pc[Io] \in {"unborn", "exited"},
           l \in ClosePcs \/ tclosing' \/ pc[Io] # "unborn"
    PROVE  Control'
<1>0. PcOK /\ HandleInv /\ ShutInv /\ WatchInv /\ PromptInv
  BY DEF Control
<1>1. PcOK' /\ pc'[Closer] = l /\ \A u \in Threads : u # Closer => pc'[u] = pc[u]
  BY <1>0, ThreadNames, Jump
<1>2. /\ pc'[Io] = pc[Io] /\ pc'[Opener] = pc[Opener]
      /\ \A n \in Numbers : pc'[Beat(n)] = pc[Beat(n)]
  BY <1>1, ThreadNames
<1>3. \A u \in Threads : /\ joins[u] # None => pc'[u] = "join"
                         /\ pc[u] \in {"notify", "close_notify"} => pc'[u] = pc[u]
  BY <1>0, <1>1 DEF HandleInv
<1>4. HandleInv'
  BY <1>0, <1>1, <1>2, <1>3, Zenon DEF HandleInv, Beating
<1>5. ShutInv' /\ WatchInv'
  BY <1>0, <1>1, <1>2 DEF ShutInv, WatchInv
<1>6. PromptInv'
  BY <1>0, <1>2, <1>3 DEF PromptInv, PromptStop, Locked, Numbers
<1> QED
  BY <1>1, <1>4, <1>5, <1>6 DEF Control

\* What an open session that is not being closed has while the I/O thread waits.
Watching == expired \/ (~stop /\ handle \in Numbers /\ Beating(handle))

(* A jump of the I/O thread that neither notifies nor joins a heartbeat.              *)
LEMMA IoJump ==
    ASSUME Control, NEW l \in IoPcs \ {"unborn", "join"}, Goto(Io, l),
           pc[Io] \notin {"unborn", "exited", "notify", "close_notify", "join"},
           UNCHANGED <<stop, handle, beats, joins, expired>>,
           closing => closing', tclosing => tclosing',
           l \in StopPcs => packet' \in {"OPEN", "CLOSE", "lost"} /\ (~open' \/ packet' = "OPEN"),
           l \in {"opened", "start"} => packet' = "OPEN" /\ handle = None,
           l \in StopPcs \cup {"opened", "start"} /\ packet' = "OPEN" => beats < MaxHandshakes,
           l = "report" => packet' # "OPEN" /\ ~open' /\ handle = None,
           l \in ClosePcs => closing',
           l \in {"idle", "listen"} => Watching \/ ~open' \/ closing'
    PROVE  Control'
<1>0. PcOK /\ HandleInv /\ ShutInv /\ WatchInv /\ PromptInv
  BY DEF Control
<1>1. PcOK' /\ pc'[Io] = l /\ \A u \in Threads : u # Io => pc'[u] = pc[u]
  BY <1>0, ThreadNames, Jump
<1>2. /\ pc'[Closer] = pc[Closer] /\ pc'[Opener] = pc[Opener]
      /\ \A n \in Numbers : pc'[Beat(n)] = pc[Beat(n)]
  BY <1>1, ThreadNames
<1>3. \A u \in Threads : /\ joins[u] # None => pc'[u] = "join"
                         /\ pc[u] \in {"notify", "close_notify"} => pc'[u] = pc[u]
  BY <1>0, <1>1 DEF HandleInv
<1>4. HandleInv'
  BY <1>0, <1>1, <1>2, <1>3 DEF HandleInv, Beating
<1>5. ShutInv'
  BY <1>0, <1>1, <1>2 DEF ShutInv
<1>6. WatchInv'
  BY <1>0, <1>1, <1>2 DEF WatchInv, Watching, Beating, StopPcs
<1>7. PromptInv'
  BY <1>0, <1>2, <1>3 DEF PromptInv, PromptStop, Locked, Numbers
<1> QED
  BY <1>1, <1>4, <1>5, <1>6, <1>7 DEF Control

(* request_heartbeat_stop() sets the flag while no heartbeat is about to sleep.        *)
LEMMA ControlRequestStop ==
    ASSUME Control, NEW t \in {Closer, Io} \cup Beats, RequestStop(t)
    PROVE  Control'
<1>0. PcOK /\ HandleInv /\ ShutInv /\ WatchInv /\ PromptInv
  BY DEF Control
<1> DEFINE l == IF pc[t] = "stop" THEN "notify" ELSE "close_notify"
<1>1. /\ Goto(t, l) /\ stop' /\ t \in Threads /\ pc[t] \in {"close_stop", "stop"}
      /\ \A n \in Numbers : pc[Beat(n)] # "locked"
      /\ UNCHANGED <<open, closing, handle, beats, joins, packet, expired, tclosing>>
  BY ThreadNames DEF RequestStop, Locked, Numbers, engineVars, linkVars
<1>2. /\ t \in Beats => l = "close_notify"
      /\ l \in ClosePcs => closing /\ pc[t] \in ClosePcs
      /\ t = Closer => closing
  BY <1>0, <1>1, ThreadNames DEF PcOK, ShutInv, BeatPcs, ClosePcs, Numbers
<1>3. PcOK' /\ pc'[t] = l /\ \A u \in Threads : u # t => pc'[u] = pc[u]
  <2>1. t # Opener /\ t # Sender
    BY ThreadNames
  <2> HIDE DEF l
  <2>2. l \in {"notify", "close_notify"}
    BY DEF l
  <2> QED
    BY <1>0, <1>1, <1>2, <2>1, <2>2, Jump DEF CloserPcs, IoPcs, BeatPcs, ClosePcs, StopPcs
<1>4. \A u \in Threads : /\ joins[u] # None => pc'[u] = "join"
                         /\ pc'[u] \in ClosePcs => closing
  BY <1>0, <1>1, <1>2, <1>3 DEF HandleInv, ShutInv
<1>5. /\ pc'[Opener] = pc[Opener]
      /\ IF t = Io THEN pc'[Io] = l ELSE pc'[Io] = pc[Io]
      /\ IF t = Closer THEN pc'[Closer] = l ELSE pc'[Closer] = pc[Closer]
      /\ \A n \in Numbers : IF t = Beat(n) THEN pc'[Beat(n)] = l ELSE pc'[Beat(n)] = pc[Beat(n)]
  BY <1>3, ThreadNames
<1>6. HandleInv'
  BY <1>0, <1>1, <1>2, <1>4, <1>5 DEF HandleInv, Beating, StopPcs, ClosePcs
<1>7. ShutInv'
  BY <1>0, <1>1, <1>2, <1>4, <1>5, Zenon DEF ShutInv, ClosePcs
<1>8. WatchInv'
  BY <1>0, <1>1, <1>2, <1>5, Zenon DEF WatchInv, Beating, StopPcs, ClosePcs
<1>9. PromptInv'
  BY <1>0, <1>1, <1>3, <1>5 DEF PromptInv, PromptStop, Locked, Numbers
<1> QED
  BY <1>3, <1>6, <1>7, <1>8, <1>9 DEF Control

(* The notification wakes every heartbeat that sleeps.                               *)
LEMMA ControlNotify ==
    ASSUME Control, NEW t \in {Closer, Io} \cup Beats, Notify(t)
    PROVE  Control'
<1>0. PcOK /\ HandleInv /\ ShutInv /\ WatchInv /\ PromptInv
  BY DEF Control
<1> DEFINE l == IF pc[t] = "notify" THEN "take" ELSE "close_open"
           Woken(u) == IF pc[u] = "asleep" THEN "woken" ELSE pc[u]
<1>1. /\ t \in Threads /\ pc[t] \in {"close_notify", "notify"}
      /\ pc' = [u \in Threads |-> IF u = t THEN l ELSE Woken(u)]
      /\ UNCHANGED <<open, closing, stop, handle, beats, joins, packet, expired, tclosing>>
  BY ThreadNames DEF Notify, engineVars, linkVars
<1>2. /\ t \in Beats => l = "close_open"
      /\ l \in ClosePcs => closing /\ pc[t] \in ClosePcs
      /\ t = Closer => closing
  BY <1>0, <1>1, ThreadNames DEF PcOK, ShutInv, BeatPcs, ClosePcs, Numbers
<1>3. pc'[t] = l /\ \A u \in Threads : u # t => pc'[u] = Woken(u)
  BY <1>1, Zenon
<1>4. /\ pc'[Opener] = pc[Opener] /\ pc'[Sender] = pc[Sender]
      /\ IF t = Io THEN pc'[Io] = l ELSE pc'[Io] = pc[Io]
      /\ IF t = Closer THEN pc'[Closer] = l ELSE pc'[Closer] = pc[Closer]
      /\ \A n \in Numbers : IF t = Beat(n) THEN pc'[Beat(n)] = l ELSE pc'[Beat(n)] = Woken(Beat(n))
  BY <1>0, <1>3, ThreadNames DEF PcOK, OpenerPcs, SenderPcs, CloserPcs, IoPcs, ClosePcs, StopPcs
<1> HIDE DEF l, Woken
<1>5. /\ l \in {"take", "close_open"}
      /\ \A u : Woken(u) = pc[u] \/ (pc[u] = "asleep" /\ Woken(u) = "woken")
  BY Zenon DEF l, Woken
<1>6. /\ \/ pc[t] = "notify" /\ l = "take"
         \/ pc[t] = "close_notify" /\ l = "close_open"
      /\ \A n \in Numbers : Beating(n)' <=> Beating(n)
      /\ \A n \in Numbers : pc'[Beat(n)] \in {"error", "beat_close"} => pc'[Beat(n)] = pc[Beat(n)]
      /\ \A n \in Numbers : Locked(n)' => Locked(n)
  BY <1>1, <1>4, <1>5, Zenon DEF l, Beating, Locked
<1>7. /\ \/ pc'[Io] = pc[Io]
         \/ pc[Io] = "notify" /\ pc'[Io] = "take"
         \/ pc[Io] = "close_notify" /\ pc'[Io] = "close_open"
      /\ \/ pc'[Closer] = pc[Closer]
         \/ pc[Closer] = "notify" /\ pc'[Closer] = "take"
         \/ pc[Closer] = "close_notify" /\ pc'[Closer] = "close_open"
  BY <1>4, <1>6, Zenon
<1>8. \A u \in Threads : /\ joins[u] # None => pc'[u] = "join"
                         /\ pc'[u] \in ClosePcs => closing
                         /\ pc'[u] # "asleep"
  BY <1>0, <1>1, <1>2, <1>3, <1>5 DEF HandleInv, ShutInv, ClosePcs, Woken
<1>9. PcOK'
  <2>1. \A u \in Threads : pc'[u] \in OpenerPcs \cup SenderPcs \cup CloserPcs \cup IoPcs \cup BeatPcs
    BY <1>0, <1>3, <1>5 DEF PcOK, IoPcs, BeatPcs, ClosePcs, StopPcs
  <2>2. pc'[Closer] \in CloserPcs /\ pc'[Io] \in IoPcs
    BY <1>0, <1>7, Zenon DEF PcOK, CloserPcs, IoPcs, ClosePcs, StopPcs
  <2>3. \A n \in Numbers : pc'[Beat(n)] \in BeatPcs
    BY <1>0, <1>2, <1>4, <1>5, ThreadNames DEF PcOK, BeatPcs, ClosePcs, Numbers
  <2>4. pc' \in [Threads -> OpenerPcs \cup SenderPcs \cup CloserPcs \cup IoPcs \cup BeatPcs]
    BY <1>1, <2>1, Zenon
  <2> QED
    BY <1>0, <1>4, <2>2, <2>3, <2>4 DEF PcOK, Numbers
<1>10. HandleInv'
  <2>1. \A n \in Numbers : n > beats => pc'[Beat(n)] = "unborn"
    BY <1>0, <1>1, <1>4, <1>5, Zenon DEF HandleInv
  <2> QED
    BY <1>0, <1>1, <1>4, <1>6, <1>7, <1>8, <2>1, Zenon DEF HandleInv, StopPcs
<1>11. ShutInv'
  BY <1>0, <1>1, <1>7, <1>8 DEF ShutInv, ClosePcs
<1>12. WatchInv'
  BY <1>0, <1>1, <1>6, <1>7, Zenon DEF WatchInv, StopPcs
<1>13. PromptInv'
  BY <1>0, <1>1, <1>6, <1>8, ThreadNames, Zenon DEF PromptInv, PromptStop, Numbers
<1> QED
  BY <1>9, <1>10, <1>11, <1>12, <1>13, Zenon DEF Control

(* A thread that takes the handle is the one that joins the heartbeat.               *)
LEMMA ControlTake ==
    ASSUME TypeOK, Control, NEW t \in {Closer, Io}, TakeHeartbeat(t)
    PROVE  Control'
<1>0. PcOK /\ HandleInv /\ ShutInv /\ WatchInv /\ PromptInv
  BY DEF Control
<1>1. /\ Goto(t, "join") /\ t \in Threads /\ pc[t] = "take" /\ handle' = None
      /\ joins'[t] = handle /\ \A u \in Threads : u # t => joins'[u] = joins[u]
      /\ UNCHANGED <<open, closing, stop, beats, packet, expired, tclosing>>
  BY ThreadNames, Zenon DEF TakeHeartbeat, TypeOK, linkVars
<1>2. PcOK' /\ pc'[t] = "join" /\ \A u \in Threads : u # t => pc'[u] = pc[u]
  BY <1>0, <1>1, ThreadNames, Jump DEF CloserPcs, IoPcs, StopPcs
<1>3. /\ pc'[Opener] = pc[Opener] /\ \A n \in Numbers : pc'[Beat(n)] = pc[Beat(n)]
      /\ \/ t = Io /\ joins'[Closer] = joins[Closer]
         \/ t = Closer /\ joins'[Io] = joins[Io]
      /\ joins[t] = None
  BY <1>0, <1>1, <1>2, ThreadNames DEF HandleInv
<1>a. /\ pc'[Io] = pc[Io] \/ (pc[Io] = "take" /\ pc'[Io] = "join")
      /\ pc'[Closer] = pc[Closer] \/ (pc[Closer] = "take" /\ pc'[Closer] = "join")
      /\ pc'[Io] # pc[Io] \/ closing
  BY <1>0, <1>1, <1>2, ThreadNames, Zenon DEF ShutInv
<1>b. /\ handle' = None /\ UNCHANGED <<open, closing, stop, beats, packet, expired, tclosing>>
      /\ pc'[Opener] = pc[Opener] /\ \A n \in Numbers : pc'[Beat(n)] = pc[Beat(n)]
  BY <1>1, <1>3, Zenon
<1>4. \A u \in Threads : /\ joins'[u] # None => pc'[u] = "join"
                         /\ pc'[u] \in ClosePcs => closing
                         /\ pc[u] \in {"notify", "close_notify"} => pc'[u] = pc[u]
  BY <1>0, <1>1, <1>2, Zenon DEF HandleInv, ShutInv, ClosePcs
<1>5. \A n \in Numbers : Beating(n)' => n \in {handle', joins'[Io], joins'[Closer]}
  <2>1. \A n \in Numbers : n # None
    BY SessionAssumption DEF Numbers, None
  <2> QED
    BY <1>0, <1>1, <1>3, <2>1 DEF HandleInv, Beating
<1>6. HandleInv'
  BY <1>0, <1>4, <1>5, <1>a, <1>b, Zenon DEF HandleInv, StopPcs
<1>7. ShutInv'
  BY <1>0, <1>4, <1>a, <1>b, Zenon DEF ShutInv, ClosePcs
<1>8. WatchInv'
  BY <1>0, <1>a, <1>b, Zenon DEF WatchInv, StopPcs
<1>9. PromptInv'
  BY <1>0, <1>1, <1>3, <1>4 DEF PromptInv, PromptStop, Locked, Numbers
<1> QED
  BY <1>2, <1>6, <1>7, <1>8, <1>9 DEF Control

(* A heartbeat that has been joined does not run.                                    *)
LEMMA ControlJoin ==
    ASSUME TypeOK, Control, NEW t \in {Closer, Io}, JoinHeartbeat(t)
    PROVE  Control'
<1>0. PcOK /\ HandleInv /\ ShutInv /\ WatchInv /\ PromptInv
  BY DEF Control
<1> DEFINE l == Stopped(t)
<1>1. /\ Goto(t, l) /\ t \in Threads /\ pc[t] = "join"
      /\ joins[t] # None => pc[Beat(joins[t])] = "done"
      /\ joins'[t] = None /\ \A u \in Threads : u # t => joins'[u] = joins[u]
      /\ UNCHANGED <<open, closing, stop, handle, beats, packet, expired, tclosing>>
  BY ThreadNames DEF JoinHeartbeat, TypeOK, linkVars, engineVars
<1>2. /\ t = Closer => l = "join_io"
      /\ t = Io => l = IF packet = "OPEN" THEN "opened" ELSE "report"
      /\ l \in {"join_io", "opened", "report"}
  BY ThreadNames DEF Stopped
<1>a. t # Opener /\ t # Sender /\ t \notin Beats
  BY ThreadNames
<1> HIDE DEF l
<1>3. PcOK' /\ pc'[t] = l /\ \A u \in Threads : u # t => pc'[u] = pc[u]
  BY <1>a, <1>0, <1>1, <1>2, Jump, Zenon DEF CloserPcs, IoPcs
<1>4. /\ pc'[Opener] = pc[Opener] /\ \A n \in Numbers : pc'[Beat(n)] = pc[Beat(n)]
      /\ \/ t = Io /\ joins'[Closer] = joins[Closer]
         \/ t = Closer /\ joins'[Io] = joins[Io]
  BY <1>1, <1>3, ThreadNames, Zenon
<1>b. /\ \/ pc'[Io] = pc[Io]
         \/ pc[Io] = "join" /\ pc'[Io] = IF packet = "OPEN" THEN "opened" ELSE "report"
      /\ pc'[Closer] = pc[Closer] \/ (pc[Closer] = "join" /\ pc'[Closer] = "join_io")
  BY <1>1, <1>2, <1>3, ThreadNames, Zenon
<1>c. /\ UNCHANGED <<open, closing, stop, handle, beats, packet, expired, tclosing>>
      /\ pc'[Opener] = pc[Opener] /\ \A n \in Numbers : pc'[Beat(n)] = pc[Beat(n)]
  BY <1>1, <1>4, Zenon
<1>5. \A u \in Threads : /\ joins'[u] # None => pc'[u] = "join"
                         /\ pc'[u] \in ClosePcs => closing
                         /\ pc[u] \in {"notify", "close_notify"} => pc'[u] = pc[u]
  BY <1>0, <1>1, <1>2, <1>3, Zenon DEF HandleInv, ShutInv, ClosePcs
<1>6. \A n \in Numbers : Beating(n)' => n \in {handle', joins'[Io], joins'[Closer]}
  <2>1. \A n \in Numbers : n # None
    BY SessionAssumption DEF Numbers, None
  <2>2. \A n \in Numbers : Beating(n) => n # joins[t]
    BY <1>1, <2>1, Zenon DEF Beating
  <2> QED
    BY <1>0, <1>1, <1>4, <2>2, Zenon DEF HandleInv, Beating
<1>7. HandleInv'
  BY <1>0, <1>5, <1>6, <1>b, <1>c, Zenon DEF HandleInv, StopPcs
<1>8. ShutInv'
  BY <1>0, <1>5, <1>b, <1>c, Zenon DEF ShutInv, ClosePcs
<1>9. WatchInv'
  BY <1>0, <1>b, <1>c, Zenon DEF WatchInv, Beating, StopPcs
<1>10. PromptInv'
  BY <1>0, <1>1, <1>4, <1>5 DEF PromptInv, PromptStop, Locked, Numbers
<1> QED
  BY <1>3, <1>7, <1>8, <1>9, <1>10, Zenon DEF Control

(* A heartbeat is started when none runs, and the request to stop is withdrawn.         *)
LEMMA ControlStart ==
    ASSUME TypeOK, Control, StartHeartbeat
    PROVE  Control'
<1>0. PcOK /\ HandleInv /\ ShutInv /\ WatchInv /\ PromptInv
  BY DEF Control
<1>1. /\ pc[Io] = "start" /\ Io \in Threads
      /\ UNCHANGED <<open, closing, joins, packet, expired, tclosing>>
  BY ThreadNames DEF StartHeartbeat, linkVars
<1>2. CASE ~open \/ closing
  <2>1. Goto(Io, "listen") /\ UNCHANGED <<stop, handle, beats>>
    BY <1>2 DEF StartHeartbeat
  <2> QED
    BY <1>1, <1>2, <2>1, IoJump DEF IoPcs, StopPcs, ClosePcs
<1>3. CASE open /\ ~closing
  <2> DEFINE b == beats + 1
  <2>1. /\ ~stop' /\ beats' = b /\ handle' = b
        /\ pc' = [pc EXCEPT ![Io] = "listen", ![Beat(b)] = "check"]
    BY <1>3 DEF StartHeartbeat, Started
  <2>2. beats \in Nat /\ b \in Numbers /\ b > beats /\ b # None
    <3>1. beats \in Nat /\ beats < MaxHandshakes
      BY <1>0, <1>1, SessionAssumption DEF TypeOK, HandleInv
    <3> QED
      BY <3>1, SessionAssumption DEF Numbers, None
  <2> HIDE DEF b
  <2>3. /\ pc'[Io] = "listen" /\ pc'[Beat(b)] = "check"
        /\ \A u \in Threads : u # Io /\ u # Beat(b) => pc'[u] = pc[u]
    BY <1>0, <2>1, <2>2, ThreadNames, Zenon DEF PcOK
  <2>4. /\ pc'[Closer] = "idle" /\ pc[Closer] = "idle" /\ pc'[Opener] = pc[Opener]
        /\ pc'[Sender] = pc[Sender]
        /\ \A n \in Numbers : n # b => pc'[Beat(n)] = pc[Beat(n)]
    BY <1>0, <1>3, <2>3, ThreadNames, Zenon DEF ShutInv
  <2>5. PcOK'
    <3>1. pc' \in [Threads -> OpenerPcs \cup SenderPcs \cup CloserPcs \cup IoPcs \cup BeatPcs]
      BY <1>0, <2>1, Zenon DEF PcOK, IoPcs, BeatPcs
    <3>2. \A n \in Numbers : pc'[Beat(n)] \in BeatPcs
      BY <1>0, <2>3, <2>4 DEF PcOK, BeatPcs, Numbers
    <3> QED
      BY <1>0, <2>3, <2>4, <3>1, <3>2 DEF PcOK, CloserPcs, IoPcs, Numbers
  <2>6. \A u \in Threads : joins[u] = None \/ (pc[u] = "join" /\ pc'[u] = "join")
    <3>1. \A u \in Threads : joins[u] # None => u # Io /\ u # Beat(b)
      BY <1>0, <1>1, <2>2 DEF HandleInv
    <3> QED
      BY <1>0, <2>3, <3>1 DEF HandleInv
  <2>7. \A n \in Numbers : pc[Beat(n)] \in {"unborn", "done"}
    <3>1. \A n \in Numbers : n # None
      BY SessionAssumption DEF Numbers, None
    <3>2. handle = None /\ joins[Io] = None /\ joins[Closer] = None
      BY <1>0, <1>1, <2>4, <2>6, ThreadNames DEF HandleInv
    <3> QED
      BY <1>0, <3>1, <3>2 DEF HandleInv, Beating
  <2>8. HandleInv'
    <3>1. \A n \in Numbers : n > beats' => pc'[Beat(n)] = "unborn"
      <4>1. \A n \in Numbers : n > b => n > beats /\ n # b
        BY <2>2 DEF Numbers, b
      <4> QED
        BY <1>0, <2>1, <2>4, <4>1, Zenon DEF HandleInv
    <3>2. \A n \in Numbers : Beating(n)' => n \in {handle', joins'[Io], joins'[Closer]}
      BY <2>1, <2>4, <2>7 DEF Beating
    <3> QED
      BY <1>0, <1>1, <2>1, <2>3, <2>4, <2>6, <3>1, <3>2, Zenon DEF HandleInv, StopPcs
  <2>9. ShutInv'
    BY <1>0, <1>1, <1>3, <2>3, <2>4 DEF ShutInv, ClosePcs
  <2>10. WatchInv'
    BY <1>0, <1>1, <2>1, <2>2, <2>3, <2>4, Zenon DEF WatchInv, StopPcs, Beating
  <2>11. PromptInv'
    BY <2>1 DEF PromptInv, PromptStop
  <2> QED
    BY <2>5, <2>8, <2>9, <2>10, <2>11 DEF Control
<1> QED
  BY <1>2, <1>3, <1>0 DEF TypeOK

(* connect() starts the I/O thread of a session that is not open yet.                 *)
LEMMA ControlConnect ==
    ASSUME TypeOK, Control, Connect
    PROVE  Control'
<1>0. PcOK /\ HandleInv /\ ShutInv /\ WatchInv /\ PromptInv
  BY DEF Control
<1>1. /\ pc[Opener] = "connect"
      /\ UNCHANGED <<open, closing, stop, handle, beats, joins, packet, expired, tclosing>>
  BY DEF Connect, engineVars
<1>2. CASE tclosing
  <2>1. Goto(Opener, "done")
    BY <1>2 DEF Connect
  <2> QED
    BY <1>1, <2>1, AppJump, ThreadNames DEF OpenerPcs
<1>3. CASE ~tclosing
  <2>1. pc' = [pc EXCEPT ![Opener] = "done", ![Io] = "idle"]
    BY <1>3, Zenon DEF Connect
  <2>2. pc[Io] = "unborn" /\ ~open /\ beats = 0 /\ pc[Closer] # "synced"
    BY <1>0, <1>1, <1>3, ThreadNames DEF HandleInv, ShutInv, ClosePcs
  <2>3. /\ pc'[Io] = "idle" /\ pc'[Opener] = "done"
        /\ \A u \in Threads : u # Io /\ u # Opener => pc'[u] = pc[u]
    BY <1>0, <2>1, ThreadNames, Zenon DEF PcOK
  <2>4. /\ pc'[Closer] = pc[Closer] /\ pc'[Sender] = pc[Sender]
        /\ \A n \in Numbers : pc'[Beat(n)] = pc[Beat(n)]
    BY <2>3, ThreadNames
  <2>5. PcOK'
    <3>1. pc' \in [Threads -> OpenerPcs \cup SenderPcs \cup CloserPcs \cup IoPcs \cup BeatPcs]
      BY <1>0, <2>1, Zenon DEF PcOK, IoPcs, OpenerPcs
    <3> QED
      BY <1>0, <2>3, <2>4, <3>1 DEF PcOK, OpenerPcs, IoPcs, Numbers
  <2>6. \A u \in Threads : /\ joins[u] # None => pc'[u] = "join"
                           /\ pc'[u] \in ClosePcs => closing
                           /\ pc[u] \in {"notify", "close_notify"} => pc'[u] = pc[u]
    BY <1>0, <1>1, <2>2, <2>3 DEF HandleInv, ShutInv, ClosePcs
  <2>7. HandleInv'
    BY <1>0, <1>1, <2>3, <2>4, <2>6 DEF HandleInv, StopPcs, Beating
  <2>8. ShutInv'
    BY <1>0, <1>1, <2>2, <2>3, <2>4, <2>6 DEF ShutInv
  <2>9. WatchInv'
    BY <1>0, <1>1, <2>2, <2>3, <2>4, Zenon DEF WatchInv, StopPcs
  <2>10. PromptInv'
    BY <1>0, <1>1, <2>4, <2>6 DEF PromptInv, PromptStop, Locked, Numbers
  <2> QED
    BY <2>5, <2>7, <2>8, <2>9, <2>10 DEF Control
<1> QED
  BY <1>2, <1>3

(* The threads of the application and the heartbeats.                               *)
LEMMA ControlApp ==
    ASSUME Control, Open \/ OpenReset \/ Send \/ SendPost
    PROVE  Control'
<1>1. CASE Open
  BY <1>1, AppJump, ThreadNames, Zenon DEF Open, OpenerPcs, engineVars, linkVars
<1>2. CASE OpenReset
  BY <1>2, AppJump, ThreadNames, Zenon DEF OpenReset, OpenerPcs, linkVars
<1>3. CASE Send
  BY <1>3, AppJump, ThreadNames, Zenon DEF Send, SenderPcs, engineVars, linkVars
<1>4. CASE SendPost
  BY <1>4, AppJump, ThreadNames DEF SendPost, SenderPcs, engineVars
<1> QED
  BY <1>1, <1>2, <1>3, <1>4, Zenon

(* The heartbeats, but for the requests to stop that they make.                        *)
LEMMA ControlBeat ==
    ASSUME Control, NEW n \in Numbers,
           \/ BeatCheck(n) \/ BeatLock(n) \/ BeatSleep(n) \/ BeatWoken(n) \/ BeatTick(n)
           \/ BeatError(n) \/ BeatClose(n) \/ Close(Beat(n)) \/ CloseOpen(Beat(n))
           \/ CloseTransport(Beat(n))
    PROVE  Control'
<1>0. PcOK /\ HandleInv /\ ShutInv /\ WatchInv /\ PromptInv
  BY Zenon DEF Control
<1>1. ASSUME NEW from \in BeatPcs \ {"unborn", "done", "close_notify"},
             NEW l \in BeatPcs \ {"unborn"},
             BeatStep(n, from, l), expired => expired', l \notin ClosePcs,
             l \in {"error", "beat_close"} => expired' \/ closing,
             l \in {"locked", "asleep"} => ~stop,
             l = "done" => ~open \/ closing \/ stop
      PROVE  Control'
  BY <1>1, BeatJump DEF BeatStep, engineVars, linkVars
<1>2. CASE BeatCheck(n)
  BY <1>1, <1>2 DEF BeatCheck, BeatPcs, ClosePcs
<1>3. CASE BeatLock(n)
  BY <1>1, <1>3 DEF BeatLock, BeatPcs, ClosePcs
<1>4. CASE BeatSleep(n)
  <2>1. ~stop
    BY <1>0, <1>4 DEF BeatSleep, BeatStep, PromptInv, Locked
  <2> QED
    BY <1>1, <1>4, <2>1 DEF BeatSleep, BeatPcs, ClosePcs
<1>5. CASE BeatWoken(n)
  BY <1>1, <1>5 DEF BeatWoken, BeatPcs, ClosePcs
<1>6. CASE BeatTick(n)
  BY <1>1, <1>6, Zenon DEF BeatTick, BeatPcs, ClosePcs
<1>7. CASE BeatError(n)
  <2>1. expired \/ closing
    BY <1>0, <1>7 DEF BeatError, BeatStep, WatchInv
  <2> QED
    BY <1>1, <1>7, <2>1 DEF BeatError, BeatPcs, ClosePcs
<1>8. CASE BeatClose(n)
  <2>1. expired \/ closing
    BY <1>0, <1>8 DEF BeatClose, WatchInv
  <2> QED
    BY <1>8, <2>1, BeatJump DEF BeatClose, TransportClose, engineVars, BeatPcs, ClosePcs
<1>9. CASE Close(Beat(n))
  <2>1. /\ pc[Beat(n)] = "error" /\ closing'
        /\ Goto(Beat(n), IF closing THEN "beat_close" ELSE "close_stop")
        /\ UNCHANGED <<open, stop, handle, beats, joins, packet, expired, tclosing>>
    BY <1>9, ThreadNames, Zenon DEF Close, CloseReturns, linkVars
  <2> QED
    BY <2>1, BeatJump DEF BeatPcs, ClosePcs
<1>10. CASE CloseOpen(Beat(n))
  <2>1. closing
    BY <1>0, <1>10, ThreadNames, Zenon DEF CloseOpen, ShutInv, ClosePcs
  <2> QED
    BY <1>10, <2>1, BeatJump, Zenon DEF CloseOpen, linkVars, BeatPcs, ClosePcs
<1>11. CASE CloseTransport(Beat(n))
  <2>1. closing /\ CloseReturns(Beat(n)) = "beat_close"
    BY <1>0, <1>11, ThreadNames DEF CloseTransport, ShutInv, ClosePcs, CloseReturns
  <2> QED
    BY <1>11, <2>1, BeatJump DEF CloseTransport, TransportClose, engineVars, BeatPcs, ClosePcs
<1> QED
  BY <1>2, <1>3, <1>4, <1>5, <1>6, <1>7, <1>8, <1>9, <1>10, <1>11

(* The closing thread, but for the heartbeat it stops.                               *)
LEMMA ControlCloser ==
    ASSUME Control,
           Close(Closer) \/ CloseOpen(Closer) \/ CloseTransport(Closer) \/ SyncClose \/ JoinIo
    PROVE  Control'
<1>0. PcOK /\ HandleInv /\ ShutInv /\ WatchInv /\ PromptInv
  BY DEF Control
<1>1. CASE Close(Closer)
  <2>1. /\ pc[Closer] = "idle" /\ closing'
        /\ Goto(Closer, IF closing THEN "sync" ELSE "close_stop")
        /\ UNCHANGED <<open, stop, handle, beats, joins, packet, expired, tclosing>>
    BY <1>1, ThreadNames, Zenon DEF Close, CloseReturns, linkVars
  <2> QED
    BY <1>0, <2>1, CloserJump DEF ShutInv, CloserPcs, ClosePcs
<1>2. CASE CloseOpen(Closer)
  BY <1>0, <1>2, CloserJump, Zenon DEF ShutInv, CloseOpen, linkVars, CloserPcs, ClosePcs
<1>3. CASE CloseTransport(Closer)
  <2>1. CloseReturns(Closer) = "sync" /\ closing
    BY <1>0, <1>3, ThreadNames DEF CloseReturns, CloseTransport, ShutInv
  <2> QED
    BY <1>3, <2>1, CloserJump DEF CloseTransport, TransportClose, engineVars, CloserPcs, ClosePcs
<1>4. CASE SyncClose
  <2>1. /\ pc[Closer] = "sync" /\ Goto(Closer, "stop")
        /\ UNCHANGED <<open, closing, stop, handle, beats, joins, packet, expired, tclosing>>
    BY <1>4 DEF SyncClose, engineVars, linkVars
  <2>2. closing /\ (tclosing \/ pc[Io] # "unborn")
    BY <1>0, <2>1 DEF ShutInv, ClosePcs
  <2> QED
    BY <2>1, <2>2, CloserJump DEF CloserPcs, ClosePcs, StopPcs
<1>5. CASE JoinIo
  <2>1. /\ pc[Closer] = "join_io" /\ pc[Io] \in {"unborn", "exited"} /\ Goto(Closer, "synced")
        /\ UNCHANGED <<open, closing, stop, handle, beats, joins, packet, expired, tclosing>>
    BY <1>5, Zenon DEF JoinIo, engineVars, linkVars
  <2>2. closing /\ handle = None /\ (tclosing \/ pc[Io] # "unborn")
    BY <1>0, <2>1 DEF HandleInv, ShutInv, ClosePcs
  <2> QED
    BY <2>1, <2>2, CloserJump, Zenon DEF CloserPcs
<1> QED
  BY <1>1, <1>2, <1>3, <1>4, <1>5

(* The I/O thread, but for the heartbeats it stops and starts.                        *)
LEMMA ControlIo ==
    ASSUME TypeOK, Control,
           \/ Close(Io) \/ CloseOpen(Io) \/ CloseTransport(Io) \/ Opened \/ ReportClose
           \/ ListenerReturns \/ IoExit
    PROVE  Control'
<1>0. PcOK /\ HandleInv /\ ShutInv /\ WatchInv /\ PromptInv
  BY DEF Control
<1>1. CASE Close(Io)
  <2>1. /\ pc[Io] = "listen" /\ closing'
        /\ Goto(Io, IF closing THEN "idle" ELSE "close_stop")
        /\ UNCHANGED <<open, stop, handle, beats, joins, packet, expired, tclosing>>
    BY <1>1, ThreadNames, Zenon DEF Close, CloseReturns, linkVars
  <2> QED
    BY <2>1, IoJump, Zenon DEF IoPcs, ClosePcs, StopPcs
<1>2. CASE CloseOpen(Io)
  BY <1>0, <1>2, IoJump, ThreadNames, Zenon DEF ShutInv, CloseOpen, linkVars, IoPcs, ClosePcs, StopPcs
<1>3. CASE CloseTransport(Io)
  <2>1. CloseReturns(Io) = "idle" /\ closing
    BY <1>0, <1>3, ThreadNames, Zenon DEF CloseReturns, CloseTransport, ShutInv, ClosePcs
  <2> QED
    BY <1>3, <2>1, IoJump
       DEF CloseTransport, TransportClose, engineVars, IoPcs, ClosePcs, StopPcs
<1>4. CASE Opened
  BY <1>0, <1>4, IoJump, Zenon DEF HandleInv, Opened, linkVars, IoPcs, ClosePcs, StopPcs
<1>5. CASE ReportClose
  BY <1>0, <1>5, IoJump, Zenon
     DEF WatchInv, ReportClose, engineVars, linkVars, IoPcs, ClosePcs, StopPcs
<1>6. CASE ListenerReturns
  BY <1>0, <1>6, IoJump, Zenon
     DEF WatchInv, Watching, ListenerReturns, engineVars, IoPcs, ClosePcs, StopPcs
<1>7. CASE IoExit
  BY <1>7, IoJump DEF IoExit, engineVars, IoPcs, ClosePcs, StopPcs
<1> QED
  BY <1>1, <1>2, <1>3, <1>4, <1>5, <1>6, <1>7

(* Completions of the network.                                                     *)
LEMMA ControlNetwork ==
    ASSUME TypeOK, Control, Network
    PROVE  Control'
<1>0. PcOK /\ HandleInv /\ ShutInv /\ WatchInv /\ PromptInv
  BY DEF Control
<1>1. pc[Io] = "idle"
  BY Zenon DEF Network, Connected, ConnectFails, ReadOpen, ReadPing, ReadPong, ReadMessage,
         ReadClose, ReadFails, WriteDone, WriteFails, ReadPacket, Read, IoIdle
<1>2. Watching \/ ~open \/ closing
  BY <1>0, <1>1 DEF WatchInv, Watching
<1>3. ASSUME NEW l \in {"idle", "listen", "stop"}, Goto(Io, l), open' => open,
             UNCHANGED <<stop, handle, beats, joins, expired, closing, tclosing>>,
             l = "stop" => \/ packet' = "OPEN" /\ beats < MaxHandshakes
                           \/ packet' \in {"CLOSE", "lost"} /\ ~open'
      PROVE  Control'
  BY <1>1, <1>2, <1>3, IoJump DEF IoPcs, ClosePcs, StopPcs
<1>4. CASE Connected
  BY <1>4, ControlKept DEF Connected, engineVars
<1>5. CASE ConnectFails
  BY <1>3, <1>5 DEF ConnectFails, engineVars
<1>6. CASE ReadOpen
  BY <1>3, <1>6 DEF ReadOpen, ReadPacket, Read, MayOpen, engineVars
<1>7. CASE ReadPing
  BY <1>7, ControlKept DEF ReadPing
<1>8. CASE ReadPong
  BY <1>8, ControlKept, Zenon DEF ReadPong
<1>9. CASE ReadMessage
  BY <1>3, <1>9, Zenon DEF ReadMessage, ReadPacket, Read, engineVars
<1>10. CASE ReadClose
  BY <1>3, <1>10, Zenon DEF ReadClose, ReadPacket, Read
<1>11. CASE ReadFails
  BY <1>3, <1>11 DEF ReadFails, Read
<1>12. CASE WriteDone
  BY <1>12, ControlKept, Zenon DEF WriteDone, engineVars, linkVars
<1>13. CASE WriteFails
  <2>1. CASE tclosing
    BY <1>13, <2>1, ControlKept, Zenon DEF WriteFails, engineVars, linkVars
  <2>2. CASE ~tclosing
    BY <1>3, <1>13, <2>2 DEF WriteFails, engineVars, linkVars
  <2> QED
    BY <2>1, <2>2
<1> QED
  BY <1>4, <1>5, <1>6, <1>7, <1>8, <1>9, <1>10, <1>11, <1>12, <1>13, Zenon DEF Network

(* Every step keeps Control.                                                       *)
LEMMA ControlStep ==
    ASSUME TypeOK, Control, [Next]_vars
    PROVE  Control'
<1>1. ASSUME NEW t \in Threads, Close(t) PROVE Control'
  <2>1. t \in {Closer, Io} \cup Beats
    BY <1>1 DEF Close
  <2>2. t \in Beats => \E n \in Numbers : t = Beat(n)
    BY ThreadNames
  <2> QED
    BY <1>1, <2>1, <2>2, ControlBeat, ControlCloser, ControlIo
<1>2. ASSUME NEW n \in Numbers, BeatRuns(n) PROVE Control'
  <2>1. Beat(n) \in Beats
    BY ThreadNames
  <2> QED
    BY <1>2, <2>1, ControlBeat, ControlRequestStop, ControlNotify DEF BeatRuns, Closes
<1>3. CASE CloserRuns
  BY <1>3, ControlCloser, ControlRequestStop, ControlNotify, ControlTake, ControlJoin, Zenon
     DEF CloserRuns, Closes, Stops
<1>4. CASE RunPosted
  BY <1>4, ControlKept DEF RunPosted, engineVars
<1>5. CASE IoRuns
  BY <1>4, <1>5, ControlIo, ControlRequestStop, ControlNotify, ControlTake, ControlJoin,
     ControlStart DEF IoRuns, Closes, Stops
<1>6. CASE Silence
  BY <1>6, ControlKept, Zenon DEF Silence, linkVars
<1>7. CASE UNCHANGED vars
  BY <1>7, ControlKept DEF vars, engineVars, linkVars
<1> QED
  BY <1>1, <1>2, <1>3, <1>5, <1>6, <1>7, ControlApp, ControlConnect, ControlNetwork
     DEF Next, OpenerRuns, Numbers
-----------------------------------------------------------------------------
(* What Append and Tail do to a sequence of payloads.                               *)
LEMMA AppendParts ==
    ASSUME NEW s \in Seq(Nat), NEW k \in Nat
    PROVE  /\ Append(s, k) \in Seq(Nat) /\ Append(s, k) # <<>>
           /\ \A i \in DOMAIN Append(s, k) : \/ i \in DOMAIN s /\ Append(s, k)[i] = s[i]
                                             \/ i = Len(s) + 1 /\ Append(s, k)[i] = k
           /\ Len(Append(s, k)) = Len(s) + 1
           /\ \A i \in DOMAIN s : i \in 1 .. Len(s) /\ s[i] \in Nat
OBVIOUS

(* The first element goes, the others move up.                                      *)
LEMMA TailParts ==
    ASSUME NEW s \in Seq(Nat), s # <<>>
    PROVE  /\ Tail(s) \in Seq(Nat) /\ Head(s) \in Nat /\ Head(s) = s[1] /\ 1 \in DOMAIN s
           /\ \A i \in DOMAIN Tail(s) : /\ i \in Nat /\ i >= 1 /\ i + 1 \in DOMAIN s
                                        /\ Tail(s)[i] = s[i + 1]
           /\ Len(Tail(s)) = Len(s) - 1
OBVIOUS

(* A larger payload at the end keeps a sequence increasing.                         *)
LEMMA AppendOrder ==
    ASSUME NEW s \in Seq(Nat), NEW k \in Nat
    PROVE  /\ Increasing(s) /\ (\A i \in DOMAIN s : s[i] < k) => Increasing(Append(s, k))
           /\ \A r \in Seq(Nat) :
                 /\ Before(r, s) /\ (\A i \in DOMAIN r : r[i] < k) => Before(r, Append(s, k))
                 /\ Before(s, r) /\ (\A i \in DOMAIN r : k < r[i]) => Before(Append(s, k), r)
<1>1. /\ \A i \in DOMAIN Append(s, k) : \/ i \in DOMAIN s /\ Append(s, k)[i] = s[i]
                                        \/ i = Len(s) + 1 /\ Append(s, k)[i] = k
      /\ \A i \in DOMAIN s : i \in 1 .. Len(s) /\ s[i] \in Nat
      /\ Len(s) \in Nat
  BY AppendParts
<1>2. Increasing(s) /\ (\A i \in DOMAIN s : s[i] < k) => Increasing(Append(s, k))
  BY <1>1 DEF Increasing
<1>3. ASSUME NEW r \in Seq(Nat)
      PROVE  /\ Before(r, s) /\ (\A i \in DOMAIN r : r[i] < k) => Before(r, Append(s, k))
             /\ Before(s, r) /\ (\A i \in DOMAIN r : k < r[i]) => Before(Append(s, k), r)
  <2>1. Before(r, s) /\ (\A i \in DOMAIN r : r[i] < k) => Before(r, Append(s, k))
    BY <1>1 DEF Before
  <2>2. Before(s, r) /\ (\A i \in DOMAIN r : k < r[i]) => Before(Append(s, k), r)
    BY <1>1, Zenon DEF Before
  <2> QED
    BY <2>1, <2>2
<1> QED
  BY <1>2, <1>3

(* The rest of an increasing sequence comes after its head.                          *)
LEMMA TailOrder ==
    ASSUME NEW s \in Seq(Nat), s # <<>>, Increasing(s)
    PROVE  /\ Increasing(Tail(s)) /\ \A i \in DOMAIN Tail(s) : Head(s) < Tail(s)[i]
           /\ \A r \in Seq(Nat) : /\ Before(r, s) => Before(r, Tail(s))
                                  /\ Before(s, r) => Before(Tail(s), r)
<1>1. /\ Head(s) = s[1] /\ 1 \in DOMAIN s
      /\ \A i \in DOMAIN Tail(s) : /\ i \in Nat /\ i >= 1 /\ i + 1 \in DOMAIN s
                                   /\ Tail(s)[i] = s[i + 1]
  BY TailParts
<1>2. Increasing(Tail(s)) /\ \A i \in DOMAIN Tail(s) : Head(s) < Tail(s)[i]
  BY <1>1, SMTT(20) DEF Increasing
<1>3. \A r \in Seq(Nat) : /\ Before(r, s) => Before(r, Tail(s))
                          /\ Before(s, r) => Before(Tail(s), r)
  BY <1>1, Zenon DEF Before
<1> QED
  BY <1>2, <1>3

(* A sequence of at most one payload.                                              *)
LEMMA Single ==
    /\ <<>> \in Seq(Nat) /\ Len(<<>>) <= 1 /\ Increasing(<<>>)
    /\ \A r \in Seq(Nat) : Before(r, <<>>) /\ Before(<<>>, r)
    /\ \A k \in Nat : /\ Append(<<>>, k) = <<k>> /\ <<k>> \in Seq(Nat) /\ Len(<<k>>) <= 1
                      /\ Head(<<k>>) = k /\ Tail(<<k>>) = <<>>
    /\ \A s \in Seq(Nat) : s # <<>> /\ Len(s) <= 1 => s = <<Head(s)>> /\ Head(s) \in Nat
    /\ \A r \in Seq(Nat), k \in Nat : Before(r, <<k>>) <=> \A i \in DOMAIN r : r[i] < k
<1>1. /\ <<>> \in Seq(Nat) /\ Len(<<>>) <= 1 /\ Increasing(<<>>)
      /\ \A r \in Seq(Nat) : Before(r, <<>>) /\ Before(<<>>, r)
  BY DEF Increasing, Before
<1>2. \A k \in Nat : /\ Append(<<>>, k) = <<k>> /\ <<k>> \in Seq(Nat) /\ Len(<<k>>) <= 1
                     /\ Head(<<k>>) = k /\ Tail(<<k>>) = <<>>
  OBVIOUS
<1>3. \A s \in Seq(Nat) : s # <<>> /\ Len(s) <= 1 => s = <<Head(s)>> /\ Head(s) \in Nat
  OBVIOUS
<1>4. \A r \in Seq(Nat), k \in Nat : Before(r, <<k>>) <=> \A i \in DOMAIN r : r[i] < k
  BY DEF Before
<1> QED
  BY <1>1, <1>2, <1>3, <1>4

(* A step that leaves the payloads alone.                                          *)
LEMMA WriteKept ==
    ASSUME WriteInv, UNCHANGED <<wire, queue, posted, flying, inprog, sent>>,
           tclosing => tclosing', stopped' => tclosing'
    PROVE  WriteInv'
BY DEF WriteInv

(* A step that leaves all of it alone.                                             *)
LEMMA WriteUnchanged ==
    ASSUME WriteInv, UNCHANGED <<wire, queue, posted, flying, inprog, sent, tclosing, stopped>>
    PROVE  WriteInv'
BY Zenon DEF WriteInv

(* A message is posted to the strand.                                              *)
LEMMA WritePost ==
    ASSUME TypeOK, WriteInv, posted' = Append(posted, sent + 1), sent' = sent + 1,
           UNCHANGED <<wire, queue, flying, inprog, tclosing, stopped>>
    PROVE  WriteInv'
<1>1. /\ sent \in Nat /\ posted \in Seq(Nat) /\ wire \in Seq(Nat) /\ queue \in Seq(Nat)
      /\ sent + 1 \in Nat /\ sent + 1 # Shutdown
  BY SessionAssumption, SMTT(20) DEF TypeOK, WriteInv, Shutdown
<1>2. /\ \A i \in DOMAIN posted : posted[i] <= sent /\ posted[i] < sent + 1
      /\ \A i \in DOMAIN queue : queue[i] < sent + 1 /\ queue[i] \in 1 .. sent'
      /\ ~tclosing => \A i \in DOMAIN wire : wire[i] < sent + 1 /\ wire[i] <= sent'
  <2>1. /\ \A i \in DOMAIN posted : posted[i] \in Nat /\ posted[i] <= sent
        /\ \A i \in DOMAIN queue : queue[i] \in 1 .. sent
        /\ \A i \in DOMAIN wire : wire[i] \in Nat
        /\ ~tclosing => \A i \in DOMAIN wire : wire[i] <= sent
    BY <1>1, AppendParts, Zenon DEF WriteInv
  <2> QED
    BY <1>1, <2>1
<1>3. /\ posted' \in Seq(Nat)
      /\ \A i \in DOMAIN posted' : /\ posted'[i] <= sent'
                                   /\ ~tclosing => posted'[i] # Shutdown
  <2>1. ~tclosing => \A i \in DOMAIN posted : posted[i] # Shutdown
    BY Zenon DEF WriteInv
  <2>2. /\ Append(posted, sent + 1) \in Seq(Nat)
        /\ \A i \in DOMAIN Append(posted, sent + 1) :
              \/ i \in DOMAIN posted /\ Append(posted, sent + 1)[i] = posted[i]
              \/ Append(posted, sent + 1)[i] = sent + 1
        /\ \A i \in DOMAIN posted : posted[i] \in Nat
    BY <1>1, AppendParts, Zenon
  <2> QED
    BY <1>1, <1>2, <2>1, <2>2
<1>4. ~tclosing => Increasing(posted') /\ Before(wire, posted') /\ Before(queue, posted')
  BY <1>1, <1>2, AppendOrder, Zenon DEF WriteInv
<1> QED
  BY <1>2, <1>3, <1>4, Zenon DEF WriteInv

(* close() reaches the transport.                                                  *)
LEMMA WriteTransportClose ==
    ASSUME TypeOK, WriteInv, NEW t, NEW next, TransportClose(t, next)
    PROVE  WriteInv'
<1>1. tclosing' /\ UNCHANGED <<flying, sent, wire>>
  BY Zenon DEF TransportClose
<1>2. /\ queue' \in {queue, <<>>}
      /\ posted' \in {posted, Append(posted, Shutdown)}
  BY DEF TransportClose, ShutDown
<1>3. /\ queue' \in Seq(Nat) /\ \A i \in DOMAIN queue' : queue'[i] \in 1 .. sent
  <2>1. queue \in Seq(Nat) /\ \A i \in DOMAIN queue : queue[i] \in 1 .. sent
    BY DEF WriteInv
  <2>2. <<>> \in Seq(Nat) /\ DOMAIN <<>> = {}
    OBVIOUS
  <2> QED
    BY <1>2, <2>1, <2>2, Zenon
<1>4. /\ posted' \in Seq(Nat) /\ \A i \in DOMAIN posted' : posted'[i] <= sent
  <2>1. posted \in Seq(Nat) /\ \A i \in DOMAIN posted : posted[i] <= sent
    BY DEF WriteInv
  <2>2. Shutdown \in Nat /\ Shutdown <= sent
    BY SessionAssumption DEF TypeOK, Shutdown
  <2>3. /\ Append(posted, Shutdown) \in Seq(Nat)
        /\ \A i \in DOMAIN Append(posted, Shutdown) :
              \/ i \in DOMAIN posted /\ Append(posted, Shutdown)[i] = posted[i]
              \/ Append(posted, Shutdown)[i] = Shutdown
    BY <2>1, <2>2, AppendParts
  <2> QED
    BY <1>2, <2>1, <2>2, <2>3, Zenon
<1> QED
  BY <1>1, <1>3, <1>4, Zenon DEF WriteInv

(* The strand runs what was posted.                                                *)
LEMMA WriteRunPosted ==
    ASSUME TypeOK, WriteInv, RunPosted
    PROVE  WriteInv'
<1>1. /\ posted \in Seq(Nat) /\ posted # <<>> /\ posted' = Tail(posted)
      /\ UNCHANGED <<sent, wire, tclosing>>
  BY Zenon DEF RunPosted, WriteInv
<1> DEFINE k == Head(posted)
<1>2. /\ posted' \in Seq(Nat) /\ k \in Nat /\ k <= sent
      /\ \A i \in DOMAIN posted' : \E j \in DOMAIN posted : posted'[i] = posted[j]
      /\ ~tclosing => k # Shutdown
  BY <1>1, TailParts, Zenon DEF WriteInv
<1>3. \A i \in DOMAIN posted' : posted'[i] <= sent /\ (~tclosing => posted'[i] # Shutdown)
  BY <1>2, Zenon DEF WriteInv
<1>4. CASE k = Shutdown
  <2>1. tclosing /\ queue' = <<>> /\ UNCHANGED flying
    BY <1>2, <1>4, Zenon DEF RunPosted, ShutDown
  <2> QED
    BY <1>1, <1>2, <1>3, <2>1 DEF WriteInv
<1>5. CASE k # Shutdown /\ tclosing
  <2>1. UNCHANGED <<queue, inprog, flying, stopped>>
    BY <1>5, Zenon DEF RunPosted
  <2> QED
    BY <1>1, <1>2, <1>3, <1>5, <2>1 DEF WriteInv
<1>6. CASE k # Shutdown /\ ~tclosing
  <2>1. QueueWrite(k) /\ UNCHANGED stopped
    BY <1>6 DEF RunPosted
  <2>2. /\ queue \in Seq(Nat) /\ wire \in Seq(Nat) /\ flying \in Seq(Nat)
        /\ Increasing(wire) /\ Increasing(queue) /\ Increasing(posted)
        /\ Before(wire, queue) /\ Before(wire, posted) /\ Before(queue, posted)
        /\ Before(wire, flying)
        /\ \A i \in DOMAIN wire : wire[i] <= sent
    BY <1>6 DEF WriteInv
  <2>3. /\ \A i \in DOMAIN wire : wire[i] < k
        /\ \A i \in DOMAIN queue : queue[i] < k
        /\ Increasing(posted') /\ Before(wire, posted') /\ Before(queue, posted')
        /\ \A i \in DOMAIN posted' : k < posted'[i]
    <3>1. 1 \in DOMAIN posted /\ k = posted[1]
      BY <1>1, TailParts
    <3> QED
      BY <1>1, <2>2, <3>1, TailOrder, Zenon DEF Before
  <2>4. queue' = Append(queue, k)
    BY <2>1 DEF QueueWrite
  <2>5. /\ queue' \in Seq(Nat) /\ queue' # <<>> /\ Increasing(queue')
        /\ Before(wire, queue') /\ Before(queue', posted')
    <3> HIDE DEF k
    <3> QED
      BY <1>2, <2>2, <2>3, <2>4, AppendParts, AppendOrder, Zenon
  <2>6. \A i \in DOMAIN queue' : queue'[i] \in 1 .. sent
    <3>1. k \in 1 .. sent
      BY <1>2, <1>6, SessionAssumption DEF Shutdown, TypeOK
    <3>2. \A i \in DOMAIN queue : queue[i] \in 1 .. sent
      BY DEF WriteInv
    <3> HIDE DEF k
    <3> QED
      BY <1>2, <2>2, <2>4, <3>1, <3>2, AppendParts
  <2>7. inprog' /\ flying' = <<Head(queue')>>
    <3>1. CASE inprog
      <4>1. queue # <<>> /\ flying = <<Head(queue)>> /\ inprog' = inprog /\ flying' = flying
        BY <1>6, <2>1, <3>1 DEF WriteInv, QueueWrite
      <4>2. Head(queue') = Head(queue)
        BY <1>2, <2>2, <2>4, <4>1
      <4> QED
        BY <3>1, <4>1, <4>2, Zenon
    <3>2. CASE ~inprog
      <4>1. flying = <<>> /\ inprog' = TRUE /\ flying' = Append(flying, Head(queue'))
        BY <1>6, <2>1, <2>5, <3>2, Zenon DEF WriteInv, QueueWrite, Pump
      <4> QED
        BY <2>5, <4>1, TailParts, Single, Zenon
    <3> QED
      BY <3>1, <3>2
  <2>8. flying' \in Seq(Nat) /\ Len(flying') <= 1 /\ Before(wire, flying')
    <3>1. Head(queue') \in Nat /\ 1 \in DOMAIN queue' /\ Head(queue') = queue'[1]
      BY <2>5, TailParts
    <3>2. \A i \in DOMAIN wire : wire[i] < Head(queue')
      BY <2>5, <3>1 DEF Before
    <3> QED
      BY <2>2, <2>7, <3>1, <3>2, Single, Zenon
  <2> QED
    BY <1>1, <1>2, <1>3, <1>6, <2>1, <2>2, <2>3, <2>5, <2>6, <2>7, <2>8, Zenon DEF WriteInv
<1> QED
  BY <1>4, <1>5, <1>6, Zenon

(* A write ends; the payload leaves the queue.                                      *)
LEMMA WriteEnds ==
    ASSUME TypeOK, WriteInv, WriteDone \/ WriteFails
    PROVE  WriteInv'
<1>1. /\ flying # <<>> /\ UNCHANGED <<sent, posted, tclosing, stopped>>
      /\ wire' \in {wire, Append(wire, Head(flying))}
  BY DEF WriteDone, WriteFails, linkVars
<1> DEFINE k == Head(flying)
<1>2. /\ wire \in Seq(Nat) /\ queue \in Seq(Nat) /\ posted \in Seq(Nat) /\ flying \in Seq(Nat)
      /\ Increasing(wire) /\ Before(wire, flying) /\ Len(flying) <= 1
  BY Zenon DEF WriteInv
<1>3. flying = <<k>> /\ k \in Nat /\ Tail(flying) = <<>> /\ \A i \in DOMAIN wire : wire[i] < k
  BY <1>1, <1>2, Single
<1> HIDE DEF k
<1>4. wire' \in Seq(Nat) /\ Increasing(wire')
  <2>1. Append(wire, k) \in Seq(Nat) /\ Increasing(Append(wire, k))
    BY <1>2, <1>3, AppendParts, AppendOrder
  <2> QED
    BY <1>1, <1>2, <2>1, Zenon DEF k
<1>5. CASE tclosing
  <2>1. flying' = <<>> /\ UNCHANGED <<queue, inprog>>
    BY <1>3, <1>5 DEF WriteDone, WriteFails
  <2>2. Before(wire', <<>>) /\ <<>> \in Seq(Nat) /\ Len(<<>>) <= 1
    BY <1>4, Single
  <2> QED
    BY <1>1, <1>4, <1>5, <2>1, <2>2 DEF WriteInv
<1>6. CASE ~tclosing
  <2>1. /\ queue # <<>> /\ k = Head(queue)
        /\ Increasing(queue) /\ Increasing(posted)
        /\ Before(wire, queue) /\ Before(wire, posted) /\ Before(queue, posted)
        /\ \A i \in DOMAIN wire : wire[i] <= sent
        /\ \A i \in DOMAIN queue : queue[i] \in 1 .. sent
    BY <1>1, <1>6, SMTT(20) DEF WriteInv, k
  <2>2. /\ queue' = Tail(queue)
        /\ \/ inprog' = FALSE /\ flying' = <<>>
           \/ queue' # <<>> /\ inprog' = TRUE /\ flying' = Append(<<>>, Head(queue'))
    BY <1>3, <1>6, <2>1, Zenon DEF WriteDone, WriteFails, Pump, Popped
  <2>3. /\ queue' \in Seq(Nat) /\ Increasing(queue')
        /\ Before(wire, queue') /\ Before(queue', posted)
        /\ \A i \in DOMAIN queue' : k < queue'[i]
    BY <1>2, <2>1, <2>2, TailParts, TailOrder, Zenon
  <2>4. /\ k \in 1 .. sent /\ \A i \in DOMAIN posted : k < posted[i]
        /\ \A i \in DOMAIN queue' : queue'[i] \in 1 .. sent
    <3>1. 1 \in DOMAIN queue /\ k = queue[1]
      BY <1>2, <2>1, TailParts, Zenon
    <3>2. \A i \in DOMAIN queue' : \E j \in DOMAIN queue : queue'[i] = queue[j]
      BY <1>2, <2>1, <2>2, TailParts, Zenon
    <3> QED
      BY <2>1, <3>1, <3>2, Zenon DEF Before
  <2>5. Before(wire', queue') /\ Before(wire', posted)
    BY <1>1, <1>2, <1>3, <2>1, <2>3, <2>4, AppendOrder, Zenon DEF k
  <2>6. \A i \in DOMAIN wire' : wire'[i] <= sent
    <3>1. CASE wire' = wire
      BY <2>1, <3>1
    <3>2. CASE wire' = Append(wire, k)
      <4>1. \A i \in DOMAIN Append(wire, k) : \/ i \in DOMAIN wire /\ Append(wire, k)[i] = wire[i]
                                              \/ Append(wire, k)[i] = k
        BY <1>2, <1>3, AppendParts, Zenon
      <4> QED
        BY <2>1, <2>4, <3>2, <4>1
    <3> QED
      BY <1>1, <3>1, <3>2 DEF k
  <2>7. /\ inprog' => queue' # <<>>
        /\ flying' = IF inprog' THEN <<Head(queue')>> ELSE <<>>
    BY <2>2, <2>3, TailParts, Single
  <2>8. flying' \in Seq(Nat) /\ Len(flying') <= 1 /\ Before(wire', flying')
    <3>1. CASE ~inprog'
      BY <1>4, <2>7, <3>1, Single, Zenon
    <3>2. CASE inprog'
      <4>1. Head(queue') \in Nat /\ 1 \in DOMAIN queue' /\ Head(queue') = queue'[1]
        BY <2>3, <2>7, <3>2, TailParts
      <4>2. \A i \in DOMAIN wire' : wire'[i] < Head(queue')
        BY <2>5, <4>1, Zenon DEF Before
      <4> QED
        BY <1>4, <2>7, <3>2, <4>1, <4>2, Single, Zenon
    <3> QED
      BY <3>1, <3>2
  <2>9. posted' \in Seq(Nat) /\ \A i \in DOMAIN posted' : posted'[i] <= sent' /\ posted'[i] # Shutdown
    BY <1>1, <1>6, Zenon DEF WriteInv
  <2> QED
    BY <1>1, <1>4, <1>6, <2>1, <2>3, <2>4, <2>5, <2>6, <2>7, <2>8, <2>9, Zenon DEF WriteInv
<1> QED
  BY <1>5, <1>6, Zenon

(* The I/O thread ends, of a transport that is closing.                              *)
LEMMA WriteExit ==
    ASSUME WriteInv, IoExit
    PROVE  WriteInv'
<1>1. tclosing' /\ posted' = <<>> /\ flying' = <<>> /\ UNCHANGED <<wire, queue, sent>>
  BY Zenon DEF IoExit, WriteInv
<1>2. Before(wire, <<>>) /\ <<>> \in Seq(Nat) /\ Len(<<>>) <= 1 /\ DOMAIN <<>> = {}
  BY Single DEF WriteInv
<1> QED
  BY <1>1, <1>2, Zenon DEF WriteInv

(* Every step keeps WriteInv.                                                      *)
LEMMA WriteStep ==
    ASSUME TypeOK, WriteInv, [Next]_vars
    PROVE  WriteInv'
<1>1. CASE SendPost
  BY <1>1, WritePost DEF SendPost
<1>2. CASE ReadPing
  <2>1. CASE tclosing
    BY <1>2, <2>1, WriteKept, Zenon DEF ReadPing, WriteInv
  <2>2. CASE ~tclosing
    BY <1>2, <2>2, WritePost DEF ReadPing
  <2> QED
    BY <2>1, <2>2, Zenon
<1>3. ASSUME NEW t, Closes(t) PROVE WriteInv'
  <2>1. CASE RequestStop(t)
    <3>1. UNCHANGED <<wire, queue, posted, flying, inprog, sent, tclosing, stopped>>
      BY <2>1, Zenon
         DEF RequestStop, writeVars, linkVars
    <3> QED
      BY <3>1, WriteUnchanged, Zenon
  <2>2. CASE Notify(t)
    <3>1. UNCHANGED <<wire, queue, posted, flying, inprog, sent, tclosing, stopped>>
      BY <2>2, Zenon
         DEF Notify, writeVars, linkVars
    <3> QED
      BY <3>1, WriteUnchanged, Zenon
  <2>3. CASE CloseOpen(t)
    <3>1. UNCHANGED <<wire, queue, posted, flying, inprog, sent, tclosing, stopped>>
      BY <2>3, Zenon
         DEF CloseOpen, writeVars, linkVars
    <3> QED
      BY <3>1, WriteUnchanged, Zenon
  <2>4. CASE CloseTransport(t)
    BY <2>4, WriteTransportClose DEF CloseTransport
  <2> QED
    BY <1>3, <2>1, <2>2, <2>3, <2>4 DEF Closes
<1>4. ASSUME NEW t, Stops(t) \/ Close(t) PROVE WriteInv'
  <2>1. UNCHANGED <<wire, queue, posted, flying, inprog, sent, tclosing, stopped>>
    BY <1>4, Zenon
       DEF Stops, TakeHeartbeat, JoinHeartbeat, Close, writeVars, linkVars
  <2> QED
    BY <2>1, WriteUnchanged, Zenon
<1>5. ASSUME NEW n, BeatRuns(n) PROVE WriteInv'
  <2>1. CASE BeatClose(n)
    BY <2>1, WriteTransportClose DEF BeatClose
  <2>2. ASSUME NEW from, NEW to, BeatStep(n, from, to) PROVE WriteInv'
    <3>1. UNCHANGED <<wire, queue, posted, flying, inprog, sent, tclosing, stopped>>
      BY <2>2, Zenon
         DEF BeatStep, writeVars, linkVars
    <3> QED
      BY <3>1, WriteUnchanged, Zenon
  <2> QED
    BY <1>3, <1>5, <2>1, <2>2
       DEF BeatRuns, BeatCheck, BeatLock, BeatSleep, BeatWoken, BeatTick, BeatError
<1>6. CASE Open \/ Send \/ OpenReset \/ Connect
  <2>1. UNCHANGED <<wire, queue, posted, flying, inprog, sent, tclosing, stopped>>
    BY <1>6, Zenon
       DEF Open, Send, OpenReset, Connect, writeVars, linkVars
  <2> QED
    BY <2>1, WriteUnchanged, Zenon
<1>7. CASE SyncClose \/ JoinIo \/ Silence \/ UNCHANGED vars
  <2>1. UNCHANGED <<wire, queue, posted, flying, inprog, sent, tclosing, stopped>>
    BY <1>7, Zenon
       DEF SyncClose, JoinIo, Silence, vars, writeVars, linkVars
  <2> QED
    BY <2>1, WriteUnchanged, Zenon
<1>8. CASE Opened \/ StartHeartbeat \/ ReportClose \/ ListenerReturns
  <2>1. UNCHANGED <<wire, queue, posted, flying, inprog, sent, tclosing, stopped>>
    BY <1>8, Zenon
       DEF Opened, StartHeartbeat, ReportClose, ListenerReturns, writeVars, linkVars
  <2> QED
    BY <2>1, WriteUnchanged, Zenon
<1>9. CASE Connected \/ ConnectFails \/ ReadOpen \/ ReadPong
  <2>1. UNCHANGED <<wire, queue, posted, flying, inprog, sent, tclosing, stopped>>
    BY <1>9, Zenon
       DEF Connected, ConnectFails, ReadOpen, ReadPong, writeVars
  <2> QED
    BY <2>1, WriteUnchanged, Zenon
<1>10. CASE ReadMessage \/ ReadClose \/ ReadFails
  <2>1. UNCHANGED <<writeVars, posted, tclosing, stopped>>
    BY <1>10, Zenon DEF ReadMessage, ReadClose, ReadFails
  <2> QED
    BY <2>1, WriteKept, Zenon DEF writeVars, WriteInv
<1>11. CASE OpenerRuns \/ CloserRuns \/ IoRuns \/ Network
  BY <1>2, <1>3, <1>4, <1>6, <1>7, <1>8, <1>9, <1>10, <1>11, WriteRunPosted, WriteExit, WriteEnds
     DEF OpenerRuns, CloserRuns, IoRuns, Network
<1> QED
  BY <1>1, <1>4, <1>5, <1>6, <1>7, <1>11, Zenon DEF Next
-----------------------------------------------------------------------------
\* What TypeOK says beside Control and WriteInv.
Flags ==
    /\ open \in BOOLEAN /\ closing \in BOOLEAN /\ stop \in BOOLEAN /\ stale \in BOOLEAN
    /\ tclosing \in BOOLEAN /\ stopped \in BOOLEAN /\ reading \in BOOLEAN /\ inprog \in BOOLEAN
    /\ expired \in BOOLEAN /\ reported \in BOOLEAN

Counts ==
    /\ handle \in 0 .. beats /\ beats \in 0 .. MaxHandshakes /\ sent \in 0 .. MaxSends
    /\ link \in {"none", "connecting", "up", "closed"}
    /\ packet \in Packets
    /\ joins \in [Threads -> 0 .. MaxHandshakes]

(* A sequence with its elements in a set.                                          *)
LEMMA SeqOf ==
    ASSUME NEW S, NEW s \in Seq(Nat), \A i \in DOMAIN s : s[i] \in S
    PROVE  s \in Seq(S)
<1>1. s \in [1 .. Len(s) -> S] /\ Len(s) \in Nat
  OBVIOUS
<1> QED
  BY <1>1

(* The inductive invariant is these three.                                          *)
LEMMA TypeSplit == IInv <=> Flags /\ Counts /\ Control /\ WriteInv
<1>1. IInv => Flags /\ Counts
  BY Zenon DEF IInv, TypeOK, Flags, Counts
<1>2. ASSUME Flags, Counts, Control, WriteInv PROVE TypeOK
  <2>1. posted \in Seq(0 .. sent) /\ queue \in Seq(1 .. sent) /\ Len(flying) <= 1
    <3>1. /\ posted \in Seq(Nat) /\ \A i \in DOMAIN posted : posted[i] \in 0 .. sent
          /\ queue \in Seq(Nat) /\ \A i \in DOMAIN queue : queue[i] \in 1 .. sent
          /\ Len(flying) <= 1
      <4>1. /\ posted \in Seq(Nat) /\ \A i \in DOMAIN posted : posted[i] <= sent
            /\ queue \in Seq(Nat) /\ \A i \in DOMAIN queue : queue[i] \in 1 .. sent
            /\ Len(flying) <= 1 /\ sent \in Nat
        BY <1>2, SessionAssumption DEF WriteInv, Counts
      <4>2. \A i \in DOMAIN posted : posted[i] \in Nat
        BY <4>1
      <4> QED
        BY <4>1, <4>2
    <3> QED
      BY <3>1, SeqOf, Zenon
  <2> QED
    BY <1>2, <2>1 DEF TypeOK, Flags, Counts, Control
<1> QED
  BY <1>1, <1>2, Zenon DEF IInv

(* The flags stay Boolean.                                                         *)
LEMMA FlagsStep ==
    ASSUME Flags, [Next]_vars
    PROVE  Flags'
<1>1. CASE Open \/ Send \/ SendPost \/ OpenReset
  <2>1. CASE Open
    BY <2>1, Zenon DEF Open, Flags, engineVars, linkVars, writeVars
  <2>2. CASE Send
    BY <2>2, Zenon DEF Send, Flags, engineVars, linkVars, writeVars
  <2>3. CASE SendPost
    BY <2>3, Zenon DEF SendPost, Flags, engineVars
  <2>4. CASE OpenReset
    BY <2>4, Zenon DEF OpenReset, Flags, linkVars, writeVars
  <2> QED
    BY <1>1, <2>1, <2>2, <2>3, <2>4
<1>2. CASE Connect
  BY <1>2, Zenon DEF Connect, Flags, engineVars, writeVars
<1>3. ASSUME NEW t, Close(t) PROVE Flags'
  BY <1>3, Zenon DEF Close, Flags, linkVars, writeVars
<1>4. ASSUME NEW t, RequestStop(t) \/ Notify(t) \/ CloseOpen(t) PROVE Flags'
  <2>1. CASE RequestStop(t)
    BY <2>1, Zenon DEF RequestStop, Flags, linkVars, writeVars
  <2>2. CASE Notify(t)
    BY <2>2, Zenon DEF Notify, Flags, engineVars, linkVars, writeVars
  <2>3. CASE CloseOpen(t)
    BY <2>3, Zenon DEF CloseOpen, Flags, linkVars, writeVars
  <2> QED
    BY <1>4, <2>1, <2>2, <2>3
<1>5. ASSUME NEW t, NEW next, TransportClose(t, next) PROVE Flags'
  BY <1>5, Zenon DEF TransportClose, ShutDown, Flags, engineVars
<1>6. ASSUME NEW t, Stops(t) PROVE Flags'
  <2>1. CASE TakeHeartbeat(t)
    BY <2>1, Zenon DEF TakeHeartbeat, Flags, linkVars, writeVars
  <2>2. CASE JoinHeartbeat(t)
    BY <2>2, Zenon DEF JoinHeartbeat, Flags, engineVars, linkVars, writeVars
  <2> QED
    BY <1>4, <1>6, <2>1, <2>2 DEF Stops
<1>7. CASE SyncClose \/ JoinIo \/ Silence \/ UNCHANGED vars
  <2>1. CASE SyncClose
    BY <2>1, Zenon DEF SyncClose, Flags, engineVars, linkVars, writeVars
  <2>2. CASE JoinIo
    BY <2>2, Zenon DEF JoinIo, Flags, engineVars, linkVars, writeVars
  <2>3. CASE Silence
    BY <2>3, Zenon DEF Silence, Flags, linkVars, writeVars
  <2>4. CASE UNCHANGED vars
    BY <2>4, Zenon DEF vars, Flags, engineVars, linkVars, writeVars
  <2> QED
    BY <1>7, <2>1, <2>2, <2>3, <2>4
<1>8. CASE Connected \/ ConnectFails
  <2>1. CASE Connected
    BY <2>1, Zenon DEF Connected, Flags, engineVars, writeVars
  <2>2. CASE ConnectFails
    BY <2>2, Zenon DEF ConnectFails, Flags, engineVars, writeVars
  <2> QED
    BY <1>8, <2>1, <2>2
<1>9. CASE ReadOpen \/ ReadMessage
  BY <1>9, Zenon DEF ReadOpen, ReadMessage, ReadPacket, Read, Flags, engineVars, writeVars
<1>10. CASE ReadPing \/ ReadPong
  BY <1>10, Zenon DEF ReadPing, ReadPong, Flags, writeVars
<1>11. CASE ReadClose \/ ReadFails
  BY <1>11, Zenon DEF ReadClose, ReadFails, ReadPacket, Read, Flags, writeVars
<1>12. CASE StartHeartbeat
  BY <1>12, Zenon DEF StartHeartbeat, Flags, linkVars, writeVars
<1>13. CASE Opened \/ ReportClose \/ ListenerReturns
  <2>1. CASE Opened
    BY <2>1, Zenon DEF Opened, Flags, linkVars, writeVars
  <2>2. CASE ReportClose
    BY <2>2, Zenon DEF ReportClose, Flags, engineVars, linkVars, writeVars
  <2>3. CASE ListenerReturns
    BY <2>3, Zenon DEF ListenerReturns, Flags, engineVars, writeVars
  <2> QED
    BY <1>13, <2>1, <2>2, <2>3
<1>14. CASE RunPosted \/ IoExit
  <2>1. CASE RunPosted
    BY <2>1, Zenon DEF RunPosted, ShutDown, QueueWrite, Pump, Flags, engineVars
  <2>2. CASE IoExit
    BY <2>2, Zenon DEF IoExit, Flags, engineVars
  <2> QED
    BY <1>14, <2>1, <2>2
<1>15. CASE WriteDone \/ WriteFails
  <2>1. CASE WriteDone
    BY <2>1, Zenon DEF WriteDone, Pump, Flags, engineVars, linkVars
  <2>2. CASE WriteFails
    BY <2>2, Zenon DEF WriteFails, Flags, engineVars, linkVars
  <2> QED
    BY <1>15, <2>1, <2>2
<1>16. ASSUME NEW n, BeatRuns(n) PROVE Flags'
  <2>1. ASSUME NEW from, NEW to, BeatStep(n, from, to), expired' \in BOOLEAN PROVE Flags'
    BY <2>1, Zenon DEF BeatStep, Flags, engineVars, linkVars, writeVars
  <2>2. expired \in BOOLEAN
    BY DEF Flags
  <2>3. CASE BeatTick(n)
    BY <2>1, <2>3, Zenon DEF BeatTick
  <2> QED
    BY <1>4, <1>5, <1>16, <2>1, <2>2, <2>3
       DEF BeatRuns, BeatCheck, BeatLock, BeatSleep, BeatWoken, BeatError, BeatClose, Closes,
           CloseTransport
<1>17. CASE CloserRuns \/ IoRuns
  BY <1>4, <1>5, <1>6, <1>7, <1>12, <1>13, <1>14, <1>17, Zenon
     DEF CloserRuns, IoRuns, Closes, CloseTransport
<1> QED
  BY <1>1, <1>2, <1>3, <1>7, <1>8, <1>9, <1>10, <1>11, <1>15, <1>16, <1>17
     DEF Next, OpenerRuns, Network

(* The counters, the handles and the link keep their types.                          *)
LEMMA CountsStep ==
    ASSUME Counts, Control, [Next]_vars
    PROVE  Counts'
<1> USE SessionAssumption
<1>1. CASE Open \/ Send \/ SendPost \/ OpenReset
  <2>1. CASE Open
    BY <2>1 DEF Open, Counts, engineVars, linkVars, writeVars
  <2>2. CASE Send
    BY <2>2 DEF Send, Counts, engineVars, linkVars, writeVars
  <2>3. CASE SendPost
    BY <2>3 DEF SendPost, MaySend, Counts, engineVars
  <2>4. CASE OpenReset
    BY <2>4 DEF OpenReset, Counts, linkVars, writeVars
  <2> QED
    BY <1>1, <2>1, <2>2, <2>3, <2>4, Zenon
<1>2. CASE Connect
  BY <1>2 DEF Connect, Counts, engineVars, writeVars
<1>3. ASSUME NEW t, Close(t) PROVE Counts'
  BY <1>3, Zenon DEF Close, Counts, linkVars, writeVars
<1>4. ASSUME NEW t, RequestStop(t) \/ Notify(t) \/ CloseOpen(t) PROVE Counts'
  BY <1>4, Zenon DEF RequestStop, Notify, CloseOpen, Counts, engineVars, linkVars, writeVars
<1>5. ASSUME NEW t, NEW next, TransportClose(t, next) PROVE Counts'
  BY <1>5 DEF TransportClose, ShutDown, Counts, engineVars
<1>6. ASSUME NEW t, Stops(t) PROVE Counts'
  <2>1. CASE TakeHeartbeat(t)
    <3>1. handle \in 0 .. MaxHandshakes /\ None \in 0 .. beats /\ beats' = beats
      BY <2>1 DEF TakeHeartbeat, Counts, None
    <3>2. joins' \in [Threads -> 0 .. MaxHandshakes] /\ handle' \in 0 .. beats'
      BY <2>1, <3>1, Zenon DEF TakeHeartbeat, Counts
    <3> QED
      BY <2>1, <3>1, <3>2, Zenon DEF TakeHeartbeat, Counts, linkVars, writeVars
  <2>2. CASE JoinHeartbeat(t)
    <3>1. None \in 0 .. MaxHandshakes
      BY DEF None
    <3>2. joins' \in [Threads -> 0 .. MaxHandshakes]
      BY <2>2, <3>1, Zenon DEF JoinHeartbeat, Counts
    <3> QED
      BY <2>2, <3>2 DEF JoinHeartbeat, Counts, engineVars, linkVars, writeVars
  <2> QED
    BY <1>6, <2>1, <2>2, Zenon DEF Stops
<1>7. CASE SyncClose \/ JoinIo \/ Silence \/ UNCHANGED vars
  BY <1>7, Zenon DEF SyncClose, JoinIo, Silence, vars, Counts, engineVars, linkVars, writeVars
<1>8. CASE Connected \/ ConnectFails
  BY <1>8, Zenon DEF Connected, ConnectFails, Counts, Packets, engineVars, writeVars
<1>9. CASE ReadOpen \/ ReadMessage
  BY <1>9, Zenon DEF ReadOpen, ReadMessage, ReadPacket, Read, Counts, Packets, engineVars, writeVars
<1>10. CASE ReadPing \/ ReadPong
  BY <1>10 DEF ReadPing, ReadPong, MaySend, Counts, writeVars
<1>11. CASE ReadClose \/ ReadFails
  BY <1>11, Zenon DEF ReadClose, ReadFails, ReadPacket, Read, Counts, Packets, writeVars
<1>12. CASE StartHeartbeat
  <2>1. beats < MaxHandshakes
    BY <1>12 DEF StartHeartbeat, Control, HandleInv
  <2> QED
    BY <1>12, <2>1 DEF StartHeartbeat, Started, Counts, linkVars, writeVars
<1>13. CASE Opened \/ ReportClose \/ ListenerReturns
  BY <1>13, Zenon DEF Opened, ReportClose, ListenerReturns, Counts, Packets, engineVars, linkVars,
               writeVars
<1>14. CASE RunPosted \/ IoExit
  BY <1>14, Zenon DEF RunPosted, IoExit, ShutDown, Counts, engineVars
<1>15. CASE WriteDone \/ WriteFails
  BY <1>15, Zenon DEF WriteDone, WriteFails, Counts, Packets, engineVars, linkVars
<1>16. ASSUME NEW n, BeatRuns(n) PROVE Counts'
  <2>1. ASSUME NEW from, NEW to, BeatStep(n, from, to) PROVE Counts'
    BY <2>1, Zenon DEF BeatStep, Counts, engineVars, linkVars, writeVars
  <2> QED
    BY <1>4, <1>5, <1>16, <2>1, Zenon
       DEF BeatRuns, BeatCheck, BeatLock, BeatSleep, BeatWoken, BeatTick, BeatError, BeatClose,
           Closes, CloseTransport
<1>17. CASE CloserRuns \/ IoRuns
  BY <1>4, <1>5, <1>6, <1>7, <1>12, <1>13, <1>14, <1>17
     DEF CloserRuns, IoRuns, Closes, CloseTransport
<1> QED
  BY <1>1, <1>2, <1>3, <1>7, <1>8, <1>9, <1>10, <1>11, <1>15, <1>16, <1>17, Zenon
     DEF Next, OpenerRuns, Network

(* The inductive invariant holds initially ...                                      *)
LEMMA InitIInv == Init => IInv
<1> SUFFICES ASSUME Init PROVE Flags /\ Counts /\ Control /\ WriteInv
  BY TypeSplit
<1>1. Flags
  BY Zenon DEF Init, Flags
<1>2. Counts
  BY SessionAssumption DEF Init, Counts, Packets, None
<1>3. /\ pc[Opener] = "idle" /\ pc[Closer] = "idle" /\ pc[Sender] = "idle"
      /\ pc[Io] = "unborn" /\ \A n \in Numbers : pc[Beat(n)] = "unborn"
      /\ \A t \in Threads : pc[t] \in {"idle", "unborn"} /\ joins[t] = None
  BY ThreadNames, Zenon DEF Init
<1>4. PcOK
  <2>1. pc \in [Threads -> {"idle", "unborn"}]
    BY DEF Init
  <2> QED
    BY <1>3, <2>1 DEF PcOK, OpenerPcs, SenderPcs, CloserPcs, IoPcs, BeatPcs, Numbers
<1>5. HandleInv /\ ShutInv
  <2>1. handle = None /\ beats = 0 /\ ~open /\ ~closing
    BY Zenon DEF Init
  <2>2. \A n \in Numbers : ~Beating(n)
    BY <1>3, Zenon DEF Beating
  <2>3. HandleInv
    BY <1>3, <2>1, <2>2, Zenon DEF HandleInv, StopPcs
  <2>4. ShutInv
    BY <1>3, <2>1, Zenon DEF ShutInv, ClosePcs
  <2> QED
    BY <2>3, <2>4
<1>6. WatchInv /\ PromptInv
  BY <1>3, Zenon DEF Init, WatchInv, PromptInv, PromptStop, Locked, StopPcs, Numbers
<1>7. WriteInv
  <2>1. <<>> \in Seq(Nat) /\ DOMAIN <<>> = {} /\ Len(<<>>) <= 1
    OBVIOUS
  <2>2. Increasing(<<>>) /\ Before(<<>>, <<>>)
    BY <2>1 DEF Increasing, Before
  <2>3. /\ wire = <<>> /\ queue = <<>> /\ posted = <<>> /\ flying = <<>>
        /\ ~inprog /\ ~stopped
    BY DEF Init
  <2> QED
    BY <2>1, <2>2, <2>3 DEF WriteInv
<1> QED
  BY <1>1, <1>2, <1>4, <1>5, <1>6, <1>7 DEF Control

(* ... and every step keeps it.                                                    *)
LEMMA StepIInv == IInv /\ [Next]_vars => IInv'
<1>1. Flags' /\ Counts' /\ Control' /\ WriteInv' => IInv'
  BY TypeSplit, PTL
<1>2. ASSUME IInv, [Next]_vars PROVE Flags' /\ Counts' /\ Control' /\ WriteInv'
  <2>1. TypeOK /\ Flags /\ Counts /\ Control /\ WriteInv
    BY <1>2, TypeSplit DEF IInv
  <2> QED
    BY <1>2, <2>1, FlagsStep, CountsStep, ControlStep, WriteStep
<1> QED
  BY <1>1, <1>2
-----------------------------------------------------------------------------
(* The inductive invariant of the session: types, who holds the handle of a running     *)
(* heartbeat, how a shutdown, a stop request and the payloads stand.                  *)
THEOREM InductiveInvariant == Spec => []IInv
  BY InitIInv, StepIInv, PTL DEF Spec

(* Every variable of engineio_client and websocket_transport keeps its type, and at most *)
(* one async_write of pump_write_queue() is outstanding.                              *)
THEOREM TypeAlways == Spec => []TypeOK
<1>1. IInv => TypeOK
  BY Zenon DEF IInv
<1> QED
  BY <1>1, InductiveInvariant, PTL

(* What queue_write() posted reaches the server once and in the order of the posts.     *)
THEOREM WritesInOrderAlways == Spec => []WritesInOrder
<1>1. IInv => WritesInOrder
  BY Zenon DEF IInv, WriteInv, Increasing, WritesInOrder
<1> QED
  BY <1>1, InductiveInvariant, PTL

(* start_heartbeat_timer() assigns to an empty heartbeat_thread_, when no heartbeat      *)
(* thread runs.                                                                     *)
THEOREM OneHeartbeatAlways == Spec => []OneHeartbeat
<1>1. ASSUME IInv, pc[Io] = "start", ~closing
      PROVE  handle = None /\ \A n \in Numbers : ~Beating(n)
  <2>1. HandleInv /\ pc[Closer] = "idle"
    BY <1>1, Zenon DEF IInv, Control, ShutInv
  <2>2. handle = None /\ joins[Io] = None /\ joins[Closer] = None
    BY <1>1, <2>1, ThreadNames DEF HandleInv
  <2>3. \A n \in Numbers : n # None
    BY SessionAssumption DEF Numbers, None
  <2> QED
    BY <2>1, <2>2, <2>3 DEF HandleInv
<1>2. IInv => OneHeartbeat
  BY <1>1 DEF OneHeartbeat, Numbers
<1> QED
  BY <1>2, InductiveInvariant, PTL

(* An open session whose I/O thread waits has a heartbeat thread that nobody has told    *)
(* to stop, or that met the ping timeout.                                            *)
THEOREM WatchedAlways == Spec => []Watched
<1>1. IInv => Watched
  BY DEF IInv, Control, WatchInv, Watched, Numbers
<1> QED
  BY <1>1, InductiveInvariant, PTL

(* No heartbeat thread sleeps through request_heartbeat_stop(): no wake-up is lost.       *)
THEOREM PromptStopAlways == Spec => []PromptStop
<1>1. IInv => PromptStop
  BY Zenon DEF IInv, Control, PromptInv
<1> QED
  BY <1>1, InductiveInvariant, PTL

(* When sync_close() has returned, the I/O thread and every heartbeat thread have ended. *)
THEOREM SyncCloseStopsSessionAlways == Spec => []SyncCloseStopsSession
<1>1. ASSUME IInv, pc[Closer] = "synced"
      PROVE  pc[Io] \in {"unborn", "exited"} /\ \A n \in Numbers : ~Beating(n)
  <2>1. HandleInv /\ pc[Io] \in {"unborn", "exited"}
    BY <1>1, Zenon DEF IInv, Control, ShutInv
  <2>2. handle = None /\ joins[Io] = None /\ joins[Closer] = None
    BY <1>1, <2>1, ThreadNames DEF HandleInv
  <2>3. \A n \in Numbers : n # None
    BY SessionAssumption DEF Numbers, None
  <2> QED
    BY <2>1, <2>2, <2>3 DEF HandleInv
<1>2. IInv => SyncCloseStopsSession
  BY <1>1 DEF SyncCloseStopsSession, Numbers
<1> QED
  BY <1>2, InductiveInvariant, PTL
=============================================================================
