----------------------------- MODULE MCPayments -----------------------------
(***************************************************************************)
(* Instances of Payments for TLC.                                          *)
(***************************************************************************)
EXTENDS Payments, TLC

CONSTANTS l1

OnePortion == {[l \in {l1} |-> 1]}
HandlerSymmetry == Permutations(Handlers) \cup Permutations(PayHandlers)
=============================================================================
