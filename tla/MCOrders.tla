------------------------------ MODULE MCOrders ------------------------------
(***************************************************************************)
(* Instances of Orders for TLC.                                            *)
(***************************************************************************)
EXTENDS Orders, TLC

CONSTANTS o1, o2, l1, l2, h1, h2, h3

\* Ten portions on two lines: serving the second line reaches exactly the 3/10 of
\* the cancellation rule.
SevenAndThree == {[l \in {l1, l2} |-> IF l = l1 THEN 7 ELSE 3]}

\* The same boundary with one line, for the instance with two orders.
TenPortions == {[l \in {l1} |-> 10]}

HandlerSymmetry == Permutations(Handlers)
=============================================================================
