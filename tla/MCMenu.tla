------------------------------- MODULE MCMenu -------------------------------
(***************************************************************************)
(* The instance of Menu for TLC.                                           *)
(***************************************************************************)
EXTENDS Menu

CONSTANTS h1, h2, p1, c1

OneProduct == <<p1>>
OneCombo == <<c1>>
=============================================================================
