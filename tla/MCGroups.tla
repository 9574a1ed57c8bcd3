------------------------------ MODULE MCGroups ------------------------------
(***************************************************************************)
(* The instance of Groups for TLC.                                         *)
(***************************************************************************)
EXTENDS Groups

CONSTANTS h1, h2, o1, o2, g1, g2
=============================================================================
