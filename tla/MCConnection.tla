---------------------------- MODULE MCConnection ----------------------------
(***************************************************************************)
(* Model checking of a connection.                                         *)
(***************************************************************************)
EXTENDS Connection
=============================================================================
