----------------------------- MODULE DeltaListH -----------------------------
(***************************************************************************)
(* The delta list with history variables that record what its comments     *)
(* promise: the refresh order, the ticks every element has left, and the   *)
(* elements a running delta_foreach has called back.  They never influence *)
(* the code; the properties compare them with the pointers.                *)
(*                                                                         *)
(* inForce becomes FALSE when the last of several nodes is unlinked, the   *)
(* one case in which dl_remove_node leaves delta_tail behind.              *)
(***************************************************************************)
EXTENDS DeltaList, Sequences, FiniteSets

VARIABLES
    queue,    \* elements, oldest refresh first
    ttl,      \* ticks until the element should expire, 0 once due or absent
    inForce,  \* no node was unlinked from the end of a longer list
    visited   \* elements called back, in order, by the delta_foreach running

hist  == <<queue, ttl, inForce, visited>>
hvars == <<vars, hist>>

\* What the list stands for: the refinement mapping takes the refresh order
\* and the ticks left from the history.
Contract == INSTANCE ExpiringList
    WITH Data <- Data, interval <- interval,
         queue <- queue, ttl <- ttl, inForce <- inForce

Without(q, d) == Contract!Without(q, d)

\* d is the node that delta_tail names, and not the only one.
AtTail(d) == ht[d] # NULL /\ dl.head # NULL /\ dl.tail = ht[d] /\ dl.head # ht[d]

HAdd(d) ==
    /\ queue' = Append(Without(queue, d), d)
    /\ ttl' = [ttl EXCEPT ![d] = interval]
    /\ inForce' = (inForce /\ ~AtTail(d))
    /\ UNCHANGED visited

HDrop(d) ==
    /\ queue' = Without(queue, d)
    /\ ttl' = [ttl EXCEPT ![d] = 0]
    /\ inForce' = (inForce /\ ~AtTail(d))
    /\ UNCHANGED visited

HTick ==
    /\ ttl' = [d \in Data |-> IF ttl[d] > 0 THEN ttl[d] - 1 ELSE 0]
    /\ UNCHANGED <<queue, inForce, visited>>

HVisit(v) == visited' = v /\ UNCHANGED <<queue, ttl, inForce>>

-----------------------------------------------------------------------------
HInsert(d)    == delta_insert(d) /\ HAdd(d)
HUpdate(d)    == delta_update(d) /\ HAdd(d)
HRemove(d)    == delta_remove(d) /\ HDrop(d)
HTickEmpty    == TickEmpty /\ HTick
HTickStart    == TickStart /\ HTick
HExpire       == Expire /\ (IF dl.head \in Live THEN HDrop(data[dl.head])
                                                ELSE UNCHANGED hist)
HTickEnd      == TickEnd /\ UNCHANGED hist
HForeachStart == ForeachStart /\ HVisit(<<>>)
HForeachCall  == ForeachCall /\ HVisit(IF it \in Live THEN Append(visited, data[it])
                                                      ELSE visited)
HForeachBreak == ForeachBreak /\ HVisit(<<>>)
HForeachEnd   == ForeachEnd /\ HVisit(<<>>)
HClearStart   == ClearStart /\ UNCHANGED hist
HClearFree    == ClearFree /\ UNCHANGED hist
HClearEnd     == /\ ClearEnd
                 /\ queue' = <<>>
                 /\ ttl' = [d \in Data |-> 0]
                 /\ UNCHANGED <<inForce, visited>>

HInit ==
    /\ Init
    /\ queue = <<>>
    /\ ttl = [d \in Data |-> 0]
    /\ inForce = TRUE
    /\ visited = <<>>

\* The calls the two daemons make: add_client and cache_msg (delta_update),
\* remove_client (delta_remove), clients_to_json and flood_to_clients
\* (delta_foreach), and the clock thread.
DaemonNext ==
    \/ \E d \in Data : HUpdate(d) \/ HRemove(d)
    \/ HTickEmpty \/ HTickStart \/ HExpire \/ HTickEnd
    \/ HForeachStart \/ HForeachCall \/ HForeachBreak \/ HForeachEnd

\* ... and the rest of the interface.
HNext ==
    \/ DaemonNext
    \/ \E d \in Data : HInsert(d)
    \/ HClearStart \/ HClearFree \/ HClearEnd

HSpec == HInit /\ [][HNext]_hvars

-----------------------------------------------------------------------------
(***************************************************************************)
(* Type invariant: every field stays in its C type, and no element is      *)
(* given more than `interval' ticks.                                       *)
(***************************************************************************)
HTypeOK ==
    /\ TypeOK
    /\ queue \in Seq(Data)
    /\ ttl \in [Data -> 0 .. interval]
    /\ inForce \in BOOLEAN
    /\ visited \in Seq(Data)

Injective(q) == \A i, j \in 1 .. Len(q) : i # j => q[i] # q[j]

Holds(q, e) == \E i \in 1 .. Len(q) : q[i] = e

(***************************************************************************)
(* Whatever state the list pointers are in, the hash table finds exactly   *)
(* the elements that were inserted and neither removed nor expired, each   *)
(* at a node that is allocated and holds it.                               *)
(***************************************************************************)
Indexed == ~fault =>
    /\ Injective(queue)
    /\ \A d \in Data : ht[d] # NULL <=> Holds(queue, d)
    /\ op # "clear" => \A d \in Data : ht[d] # NULL => data[ht[d]] = d

(***************************************************************************)
(* The pointers of t spell out the n nodes N[1], ..., N[n], which expire   *)
(* after L[1] <= ... <= L[n] ticks: every delta is the distance in ticks   *)
(* to the predecessor's expiry, and table->delta is the time left to the   *)
(* last element ("sum of all individual deltas", include/deltalist.h).     *)
(***************************************************************************)
Chain(t, n, N, L) ==
    /\ t.head = IF n = 0 THEN NULL ELSE N[1]
    /\ n > 0 => t.tail = N[n]
    /\ t.delta = IF n = 0 THEN 0 ELSE L[n]
    /\ \A i \in 1 .. n :
          /\ t.next[N[i]] = IF i = n THEN NULL ELSE N[i + 1]
          /\ t.prev[N[i]] = IF i = 1 THEN NULL ELSE N[i - 1]
          /\ t.nd[N[i]] = IF i = 1 THEN L[1] ELSE L[i] - L[i - 1]
    /\ \A i, j \in 1 .. n : i < j => L[i] <= L[j]

NodesOf(q) == [i \in 1 .. Len(q) |-> ht[q[i]]]

TicksOf(q) == [i \in 1 .. Len(q) |-> ttl[q[i]]]

\* No element is due, except while delta_tick is dropping the due ones.
NoneDue == op # "tick" => \A i \in 1 .. Len(queue) : ttl[queue[i]] > 0

\* Where the cursor of a running call may be.
CursorOK ==
    /\ op = "foreach" => it = NULL \/ \E k \in 1 .. Len(queue) : it = ht[queue[k]]
    /\ op = "clear" =>
         \/ it = NULL
         \/ \E k \in 1 .. Len(queue) :
               /\ it = ht[queue[k]]
               /\ \A i \in k .. Len(queue) : data[ht[queue[i]]] = queue[i]

(***************************************************************************)
(* While the promise is in force no freed node is used, the list of        *)
(* common/deltalist.c is exactly the refresh order with the ticks each     *)
(* element has left, and a running call stands on a node of it.            *)
(***************************************************************************)
Represents ==
    inForce => /\ ~fault
               /\ Chain(dl, Len(queue), NodesOf(queue), TicksOf(queue))
               /\ NoneDue
               /\ CursorOK

(***************************************************************************)
(* While its promise is in force the code does what ExpiringList says:     *)
(* delta_tick drops exactly the element whose time is up, on time.         *)
(***************************************************************************)
ContractSpec == Contract!Spec

(***************************************************************************)
(* However corrupt the pointers are, delta_foreach, delta_clear and the    *)
(* expiry loop of delta_tick only ever walk over allocated nodes, and      *)
(* delta_foreach calls `fun' on no element twice, so it ends: the list     *)
(* reached from delta_head never closes into a ring, though nodes do come  *)
(* to point at themselves.                                                 *)
(***************************************************************************)
WalkSafe ==
    /\ ~fault /\ op = "foreach" /\ it # NULL => it \in Live
    /\ ~fault /\ op = "clear" /\ it # NULL => it \in Live
    /\ ~fault /\ op \in {"idle", "tick"} /\ dl.head # NULL => dl.head \in Live
    /\ \A i, j \in 1 .. Len(visited) : i # j => visited[i] # visited[j]

(***************************************************************************)
(* While the promise is in force the head's delta is not zero between      *)
(* calls: the next delta_tick would take it to UINT - 1 and nothing would  *)
(* expire again.                                                           *)
(***************************************************************************)
HeadPositive == inForce /\ op = "idle" /\ dl.head # NULL => dl.nd[dl.head] # 0

(***************************************************************************)
(* While the promise is in force delta_tick drops no element before        *)
(* `interval' ticks have passed since its last refresh.                    *)
(***************************************************************************)
NoEarlyExpiry ==
    [][\A d \in Data : inForce /\ op = "tick" /\ ht[d] # NULL /\ ht'[d] = NULL => ttl[d] = 0]_hvars
=============================================================================
