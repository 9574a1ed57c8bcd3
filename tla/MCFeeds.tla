------------------------------ MODULE MCFeeds -------------------------------
(***************************************************************************)
(* The instance of Feeds for TLC.                                          *)
(***************************************************************************)
EXTENDS Feeds

CONSTANTS h1, h2, d1, s1, g1, t1
=============================================================================
