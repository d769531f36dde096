------------------------------ MODULE MCOverlay ------------------------------
(***************************************************************************)
(* Model checking of the overlay.                                          *)
(***************************************************************************)
EXTENDS Overlay

MCPort == {1}
MCNum == {0}
MCData == Host \X {1}
MCHash == [d \in MCData |-> 0]

\* Bound: nothing is claimed once the list is corrupt, so nothing is explored.
InForceNext == inForce /\ ONext

InForceSpec == OInit /\ [][InForceNext]_ovars /\ OFairness
=============================================================================
