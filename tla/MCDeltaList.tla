---------------------------- MODULE MCDeltaList ----------------------------
(***************************************************************************)
(* Model checking of the delta list.                                       *)
(***************************************************************************)
EXTENDS DeltaListH, TLC

CONSTANT MaxSkew

(***************************************************************************)
(* Bound.  Once the list is corrupt its deltas drift by a few ticks with   *)
(* every further call; a step that would take one of them more than        *)
(* MaxSkew away from zero is not explored.                                 *)
(***************************************************************************)
Near(x) == x <= MaxSkew \/ x >= UINT - MaxSkew
Bounded == Near(dl.delta) /\ \A a \in Addr : Near(dl.nd[a])

MCDaemonNext == DaemonNext /\ Bounded'

MCDaemonSpec == HInit /\ [][MCDaemonNext]_hvars

-----------------------------------------------------------------------------
(***************************************************************************)
(* delta_foreach: "Calls the function `fun' on each element in the list."  *)
(***************************************************************************)
ForeachVisitsAll ==
    [][ForeachEnd => \A d \in Data : ht[d] # NULL => \E i \in 1 .. Len(visited) : visited[i] = d]_hvars
=============================================================================
