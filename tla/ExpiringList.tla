---------------------------- MODULE ExpiringList ----------------------------
(***************************************************************************)
(* What the delta list promises its users, with no pointer in sight: a     *)
(* queue of distinct elements, oldest refresh first, each with the ticks   *)
(* it has left.  An element leaves on exactly the tick that brings it to   *)
(* zero, unless it is refreshed or removed before.                         *)
(*                                                                         *)
(* The promise is void (inForce = FALSE) from the moment the last of       *)
(* several elements is unlinked, and nothing is promised after that.       *)
(***************************************************************************)
EXTENDS Naturals, Sequences

CONSTANTS Data, interval

VARIABLES queue, ttl, inForce

evars == <<queue, ttl, inForce>>

Listed == {queue[i] : i \in 1 .. Len(queue)}

\* No expired element is waiting to be dropped: the lock is free.
Settled == \A d \in Listed : ttl[d] > 0

\* q without its element d.
Without(q, d) ==
    IF \E i \in 1 .. Len(q) : q[i] = d
    THEN LET k == CHOOSE i \in 1 .. Len(q) : q[i] = d
         IN  [i \in 1 .. Len(q) - 1 |-> IF i < k THEN q[i] ELSE q[i + 1]]
    ELSE q

\* The element at the end of a longer queue: the one the code mishandles.
LastOfSeveral(d) == Len(queue) > 1 /\ queue[Len(queue)] = d

Init == queue = <<>> /\ ttl = [d \in Data |-> 0] /\ inForce = TRUE

Refresh(d) ==
    /\ Settled
    /\ ~LastOfSeveral(d)
    /\ queue' = Append(Without(queue, d), d)
    /\ ttl' = [ttl EXCEPT ![d] = interval]

Remove(d) ==
    /\ Settled
    /\ d \in Listed
    /\ ~LastOfSeveral(d)
    /\ queue' = Without(queue, d)
    /\ ttl' = [ttl EXCEPT ![d] = 0]

Tick ==
    /\ Settled
    /\ queue' = queue
    /\ ttl' = [d \in Data |-> IF ttl[d] > 0 THEN ttl[d] - 1 ELSE 0]

Expire ==
    /\ queue # <<>>
    /\ ttl[queue[1]] = 0
    /\ queue' = Without(queue, queue[1])
    /\ UNCHANGED ttl

Clear == Settled /\ queue' = <<>> /\ ttl' = [d \in Data |-> 0]

\* The last of several elements is unlinked: whatever follows is allowed.
Void == Settled /\ Len(queue) > 1 /\ inForce' = FALSE

Next ==
    \/ /\ inForce /\ inForce'
       /\ (\E d \in Data : Refresh(d) \/ Remove(d)) \/ Tick \/ Expire \/ Clear
    \/ inForce /\ Void
    \/ ~inForce /\ inForce' = FALSE

Spec == Init /\ [][Next]_evars
=============================================================================
