------------------------------ MODULE TimedAck ------------------------------
(***************************************************************************)
(* What a timed emission promises (include/sioxx/socket.hpp, the third     *)
(* overload of emit): every accepted emission is resolved at most once, as *)
(* acknowledged strictly before its deadline or as timed out at or after   *)
(* it; an explicit shutdown cancels everything pending in one step without *)
(* running a callback, and nothing is accepted until the next connect.     *)
(* Module Socket is shown to implement this specification.                 *)
(***************************************************************************)
EXTENDS Naturals

CONSTANTS Ids,       \* the acknowledgement ids
          Times      \* the readings of the steady clock

VARIABLES now,       \* the steady clock
          deadline,  \* the deadline fixed when an id was accepted
          status,    \* where each id stands
          calls,     \* how often the callback of each id was started
          closed     \* TRUE between a shutdown and the next connect

vars == <<now, deadline, status, calls, closed>>

Statuses == {"unused", "pending", "acknowledged", "timeout", "cancelled"}

Init == /\ now = 0
        /\ deadline = [id \in Ids |-> 0]
        /\ status = [id \in Ids |-> "unused"]
        /\ calls = [id \in Ids |-> 0]
        /\ closed = FALSE

\* Any later time may be read next.
Tick == /\ now' \in Times /\ now' > now
        /\ UNCHANGED <<deadline, status, calls, closed>>

Accept(id, d) == /\ ~closed
                 /\ status[id] = "unused"
                 /\ calls[id] = 0
                 /\ status' = [status EXCEPT ![id] = "pending"]
                 /\ deadline' = [deadline EXCEPT ![id] = d]
                 /\ UNCHANGED <<now, calls, closed>>

Resolve(id, verdict) ==
    /\ status[id] = "pending"
    /\ verdict = IF deadline[id] <= now THEN "timeout" ELSE "acknowledged"
    /\ status' = [status EXCEPT ![id] = verdict]
    /\ calls' = [calls EXCEPT ![id] = @ + 1]
    /\ UNCHANGED <<now, deadline, closed>>

\* An untimed emission: its callback runs at most once too, without deadline.
Reply(id) == /\ status[id] = "unused"
             /\ calls[id] = 0
             /\ calls' = [calls EXCEPT ![id] = 1]
             /\ UNCHANGED <<now, deadline, status, closed>>

Shutdown == /\ closed' = TRUE
            /\ status' = [id \in Ids |-> IF status[id] = "pending"
                                           THEN "cancelled" ELSE status[id]]
            /\ UNCHANGED <<now, deadline, calls>>

Connect == /\ closed' = FALSE
           /\ UNCHANGED <<now, deadline, status, calls>>

Next == \/ Tick
        \/ \E id \in Ids : \/ \E d \in Times : Accept(id, d)
                           \/ \E v \in {"timeout", "acknowledged"} : Resolve(id, v)
                           \/ Reply(id)
        \/ Shutdown
        \/ Connect

Spec == Init /\ [][Next]_vars
=============================================================================
