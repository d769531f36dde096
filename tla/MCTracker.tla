------------------------------ MODULE MCTracker ------------------------------
(***************************************************************************)
(* Model checking of the tracker's client table: the handlers' requests    *)
(* over the delta list and its hash table, interleaved with the calls of   *)
(* the delta list's interface that neither daemon makes.                   *)
(***************************************************************************)
EXTENDS Tracker, MCDeltaList

\* With 20 bits to an int the largest of each wraps round, to 1 and to 2.
MCRawPort == {1, 65537, 700000, 1048577}
MCNum == {-1, 0, 2, 700000, 1048578}
MCData == Host \X {1}

CONSTANTS x1, x2, x3

\* Two of the three hosts share a bucket.
MCHash == [d \in MCData |-> IF d[1] = x3 THEN 1 ELSE 2]

OtherCalls ==
    /\ \/ \E d \in Data : KInsert(d)
       \/ KClear \/ KClearEnd
    /\ UNCHANGED req

TableNext == (TNext \/ OtherCalls) /\ Bounded'

TableSpec == TInit /\ [][TableNext]_tvars

TableSymmetry == Permutations(Addr) \cup Permutations({x1, x2})
=============================================================================
