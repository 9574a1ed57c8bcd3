------------------------------ MODULE MCAccess ------------------------------
(***************************************************************************)
(* The instance of Access for TLC.                                         *)
(***************************************************************************)
EXTENDS Access

CONSTANTS h1, h2
=============================================================================
