----------------------------- MODULE DeltaList -----------------------------
(***************************************************************************)
(* The delta list of common/deltalist.c: the table of expiring elements    *)
(* behind the client list (client.c) and the message cache (msgcache.c).   *)
(*                                                                         *)
(* Elements hang on a doubly linked list in the order of their last        *)
(* refresh.  A node stores the number of ticks by which it expires after   *)
(* its predecessor, so a tick touches only the head.  The list is modelled *)
(* pointer by pointer, on a heap of node addresses that free() gives back  *)
(* and malloc() hands out again; unsigned counters wrap at UINT.           *)
(*                                                                         *)
(* The hash table is represented by the lookup map that its bucket chains  *)
(* implement (ht).                                                         *)
(*                                                                         *)
(* A definition named Mut... is the next one with a plausible mistake in   *)
(* it: the properties must notice when it takes that definition's place.   *)
(***************************************************************************)
EXTENDS Naturals

CONSTANTS
    Data,      \* elements, up to the table's `equals'
    Addr,      \* addresses malloc() can return for a struct delta_node
    NULL,
    interval,  \* table->interval, in ticks
    UINT       \* 2^(width of unsigned int)

ASSUME ConstantsAssumption ==
    /\ interval \in Nat \ {0}
    /\ UINT \in Nat
    /\ interval < UINT
    /\ NULL \notin Addr
    /\ NULL \notin Data

VARIABLES
    dl,      \* the list fields of struct delta_list, and nd (delta), next
             \* (dl_next) and prev (dl_prev) of every struct delta_node
    ht,      \* element -> its node in the hash table, or NULL
    data,    \* address -> node->data of an allocated node, NULL when free
    op,      \* the call that holds table->lock across several steps
    it,      \* the cursor of that call
    fault    \* a node was used that is not allocated: no further promise

vars == <<dl, ht, data, op, it, fault>>

AddrOrNull == Addr \cup {NULL}

Live == {a \in Addr : data[a] # NULL}

(***************************************************************************)
(* Arithmetic of unsigned int, for operands below UINT.                    *)
(***************************************************************************)
Add(a, b) == IF a + b < UINT THEN a + b ELSE a + b - UINT

\* The counters are int, not unsigned.
MutSubSigned(a, b) == IF a >= b THEN a - b ELSE 0 - (b - a)

Sub(a, b) == IF a >= b THEN a - b ELSE a + UINT - b

-----------------------------------------------------------------------------
(***************************************************************************)
(* The two list primitives.  dl_remove_node does not touch delta_tail:     *)
(* neither does this definition.                                           *)
(***************************************************************************)
dl_insert_node(t, n) ==
    IF t.head = NULL
    THEN [t EXCEPT !.head = n, !.tail = n, !.delta = interval,
                   !.nd[n] = interval, !.prev[n] = NULL, !.next[n] = NULL]
    ELSE [t EXCEPT !.tail = n, !.delta = interval,
                   !.nd[n] = Sub(interval, t.delta), !.prev[n] = t.tail,
                   !.next = [t.next EXCEPT ![t.tail] = n, ![n] = NULL]]

\* The successor does not take over the removed node's ticks.
MutRemoveDropsDelta(t, n) ==
    LET nx == t.next[n]
        pv == t.prev[n]
    IN  [t EXCEPT
           !.delta = IF nx = NULL THEN Sub(t.delta, t.nd[n]) ELSE t.delta,
           !.prev  = IF nx = NULL THEN t.prev ELSE [t.prev EXCEPT ![nx] = pv],
           !.next  = IF pv = NULL THEN t.next ELSE [t.next EXCEPT ![pv] = nx],
           !.head  = IF pv = NULL THEN nx ELSE t.head]

\* delta_head still names a removed head.
MutRemoveKeepsHead(t, n) ==
    LET nx == t.next[n]
        pv == t.prev[n]
    IN  [t EXCEPT
           !.delta = IF nx = NULL THEN Sub(t.delta, t.nd[n]) ELSE t.delta,
           !.prev  = IF nx = NULL THEN t.prev ELSE [t.prev EXCEPT ![nx] = pv],
           !.next  = IF pv = NULL THEN t.next ELSE [t.next EXCEPT ![pv] = nx]]

dl_remove_node(t, n) ==
    LET nx == t.next[n]
        pv == t.prev[n]
    IN  [t EXCEPT
           !.delta = IF nx = NULL THEN Sub(t.delta, t.nd[n]) ELSE t.delta,
           !.nd    = IF nx = NULL THEN t.nd
                     ELSE [t.nd EXCEPT ![nx] = Add(t.nd[nx], t.nd[n])],
           !.prev  = IF nx = NULL THEN t.prev ELSE [t.prev EXCEPT ![nx] = pv],
           !.next  = IF pv = NULL THEN t.next ELSE [t.next EXCEPT ![pv] = nx],
           !.head  = IF pv = NULL THEN nx ELSE t.head]

\* The nodes, other than the argument, that each primitive dereferences.
InsertDerefs(t) == IF t.head = NULL THEN {} ELSE {t.tail}

RemoveDerefs(t, n) == {t.next[n], t.prev[n]} \ {NULL}

\* What free() leaves of a node: nothing anyone may read.
Scrub(t, n) == [t EXCEPT !.nd[n] = 0, !.next[n] = NULL, !.prev[n] = NULL]

\* A freed node was dereferenced: C promises nothing from here on.
Crash == fault' = TRUE /\ UNCHANGED <<dl, ht, data, op, it>>

Idle == op = "idle" /\ ~fault

-----------------------------------------------------------------------------
(***************************************************************************)
(* Operations that finish within one critical section.                     *)
(***************************************************************************)
\* A node for d is allocated, entered in the hash table and appended.
AddNode(d) ==
    \E n \in Addr \ Live :
        IF InsertDerefs(dl) \subseteq Live \cup {n}
        THEN /\ dl' = [dl_insert_node(dl, n) EXCEPT !.size = Add(@, 1)]
             /\ ht' = [ht EXCEPT ![d] = n]
             /\ data' = [data EXCEPT ![n] = d]
             /\ UNCHANGED <<op, it, fault>>
        ELSE Crash

\* The node n already in the list is unlinked and appended again.
Relocate(n) ==
    LET t == dl_remove_node(dl, n)
    IN  IF RemoveDerefs(dl, n) \cup InsertDerefs(t) \subseteq Live
        THEN dl' = dl_insert_node(t, n) /\ UNCHANGED <<ht, data, op, it, fault>>
        ELSE Crash

delta_insert(d) == Idle /\ ht[d] = NULL /\ AddNode(d)

delta_update(d) ==
    /\ Idle
    /\ \/ ht[d] # NULL /\ Relocate(ht[d])
       \/ ht[d] = NULL /\ AddNode(d)

\* The hash table still leads to the freed node.
MutDeleteKeepsHash(d) ==
    LET n == ht[d]
    IN  /\ n # NULL
        /\ IF RemoveDerefs(dl, n) \subseteq Live
           THEN /\ dl' = [Scrub(dl_remove_node(dl, n), n)
                            EXCEPT !.size = Sub(@, 1)]
                /\ data' = [data EXCEPT ![n] = NULL]
                /\ UNCHANGED <<ht, op, it, fault>>
           ELSE Crash

\* Takes d out of the hash table and the list, and frees its node.
delta_delete(d) ==
    LET n == ht[d]
    IN  /\ n # NULL
        /\ IF RemoveDerefs(dl, n) \subseteq Live
           THEN /\ dl' = [Scrub(dl_remove_node(dl, n), n)
                            EXCEPT !.size = Sub(@, 1)]
                /\ ht' = [ht EXCEPT ![d] = NULL]
                /\ data' = [data EXCEPT ![n] = NULL]
                /\ UNCHANGED <<op, it, fault>>
           ELSE Crash

delta_remove(d) == Idle /\ delta_delete(d)

-----------------------------------------------------------------------------
(***************************************************************************)
(* delta_tick: called by clock_thread every `resolution' seconds.          *)
(***************************************************************************)
TickEmpty == Idle /\ dl.head = NULL /\ UNCHANGED vars

\* The clock looks for expired nodes but counts no tick.
MutTickCountsNothing ==
    /\ Idle
    /\ dl.head # NULL
    /\ IF dl.head \in Live
       THEN op' = "tick" /\ UNCHANGED <<dl, ht, data, it, fault>>
       ELSE Crash

TickStart ==
    /\ Idle
    /\ dl.head # NULL
    /\ IF dl.head \in Live
       THEN /\ dl' = [dl EXCEPT !.delta = Sub(@, 1), !.nd[dl.head] = Sub(@, 1)]
            /\ op' = "tick"
            /\ UNCHANGED <<ht, data, it, fault>>
       ELSE Crash

\* One round of the loop that removes the expired head.
Expire ==
    /\ op = "tick"
    /\ ~fault
    /\ dl.head # NULL
    /\ IF dl.head \in Live
       THEN dl.nd[dl.head] = 0 /\ delta_delete(data[dl.head])
       ELSE Crash

\* The loop stops before all expired nodes are gone.
MutTickStopsEarly ==
    /\ op = "tick"
    /\ ~fault
    /\ op' = "idle"
    /\ UNCHANGED <<dl, ht, data, it, fault>>

TickEnd ==
    /\ op = "tick"
    /\ ~fault
    /\ dl.head # NULL => dl.head \in Live /\ dl.nd[dl.head] # 0
    /\ op' = "idle"
    /\ UNCHANGED <<dl, ht, data, it, fault>>

-----------------------------------------------------------------------------
(***************************************************************************)
(* delta_foreach: the callback runs on one node per step; it ends the      *)
(* iteration by returning non-zero (make_list does, at its limit).         *)
(***************************************************************************)
ForeachStart ==
    /\ Idle
    /\ op' = "foreach"
    /\ it' = dl.head
    /\ UNCHANGED <<dl, ht, data, fault>>

ForeachCall ==
    /\ op = "foreach"
    /\ ~fault
    /\ it # NULL
    /\ IF it \in Live
       THEN it' = dl.next[it] /\ UNCHANGED <<dl, ht, data, op, fault>>
       ELSE Crash

ForeachBreak ==
    /\ op = "foreach"
    /\ ~fault
    /\ it \in Live
    /\ op' = "idle"
    /\ it' = NULL
    /\ UNCHANGED <<dl, ht, data, fault>>

ForeachEnd ==
    /\ op = "foreach"
    /\ ~fault
    /\ it = NULL
    /\ op' = "idle"
    /\ UNCHANGED <<dl, ht, data, it, fault>>

(***************************************************************************)
(* delta_clear: frees the nodes on the list, then resets the table.        *)
(***************************************************************************)
EmptyList ==
    [head |-> NULL, tail |-> NULL, delta |-> 0, size |-> 0,
     nd   |-> [a \in Addr |-> 0],
     next |-> [a \in Addr |-> NULL],
     prev |-> [a \in Addr |-> NULL]]

ClearStart ==
    /\ Idle
    /\ op' = "clear"
    /\ it' = dl.head
    /\ UNCHANGED <<dl, ht, data, fault>>

ClearFree ==
    /\ op = "clear"
    /\ ~fault
    /\ it # NULL
    /\ IF it \in Live
       THEN /\ it' = dl.next[it]
            /\ data' = [data EXCEPT ![it] = NULL]
            /\ UNCHANGED <<dl, ht, op, fault>>
       ELSE Crash

\* A node that was not on the list is leaked, with what it held: nothing
\* points to it any more, so its fields no longer matter.
ClearEnd ==
    /\ op = "clear"
    /\ ~fault
    /\ it = NULL
    /\ op' = "idle"
    /\ dl' = EmptyList
    /\ ht' = [d \in Data |-> NULL]
    /\ UNCHANGED <<data, it, fault>>

-----------------------------------------------------------------------------
Init ==
    /\ dl = EmptyList
    /\ ht = [d \in Data |-> NULL]
    /\ data = [a \in Addr |-> NULL]
    /\ op = "idle"
    /\ it = NULL
    /\ fault = FALSE

ListType ==
    [head : AddrOrNull, tail : AddrOrNull, delta : 0 .. UINT - 1,
     size : 0 .. UINT - 1,
     nd   : [Addr -> 0 .. UINT - 1],
     next : [Addr -> AddrOrNull],
     prev : [Addr -> AddrOrNull]]

(***************************************************************************)
(* Type invariant: every field stays in its C type.                        *)
(***************************************************************************)
TypeOK ==
    /\ dl \in ListType
    /\ ht \in [Data -> AddrOrNull]
    /\ data \in [Addr -> Data \cup {NULL}]
    /\ op \in {"idle", "tick", "foreach", "clear"}
    /\ it \in AddrOrNull
    /\ fault \in BOOLEAN
=============================================================================
