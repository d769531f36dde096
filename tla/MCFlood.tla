------------------------------ MODULE MCFlood ------------------------------
(***************************************************************************)
(* Model checking of broadcasts among three routers, or two, one of them   *)
(* on the host of a client.                                                *)
(***************************************************************************)
EXTENDS Flood, TLC

CONSTANTS r1, r2, c1, i1, i2

\* The client runs on the host of router r1.
MCip == [x \in Router \cup Client |-> IF x = r2 THEN i2 ELSE i1]

\* A claimed 0, 10 and 7, and a first character that is below '0'.
MCStartHops == {0, 1, 7, -3}

Symmetry == Permutations(Slot)
=============================================================================
