--------------------------- MODULE OrderLifecycle ---------------------------
(***************************************************************************)
(* The life of an order as Spec_4_Orders_API.md describes it, without the  *)
(* service's handlers: every change is one step.  An order is opened on a  *)
(* table that has no active order, moves forward one status at a time, and *)
(* may be given up until it is ready, as long as less than 30% of it is    *)
(* served.                                                                 *)
(*                                                                         *)
(* The document states the 30% for every cancellation; the code asks for   *)
(* it in DELETE alone.  ByHand says which of the two is meant: FALSE is    *)
(* the document, TRUE lets staff set an order to "cancelled" at any time.  *)
(* That an order is paid for before it is delivered is not said here:      *)
(* orders know nothing of payments, and Payments states it.                *)
(* Who takes each step is left open, and a ready order cannot be cancelled *)
(* (the document's diagram; its table of transitions says "any").          *)
(***************************************************************************)
CONSTANTS
    Orders,     \* the order ids
    Tables,     \* the tables a customer can sit at
    NoTable,    \* the table of an online order (orders.table_id is NULL)
    ByHand      \* may staff cancel an order of which 30% or more is served?

VARIABLES
    stage,      \* stage[o]: where the order is in its life
    seat,       \* seat[o]: the table it was opened on
    gone,       \* gone[o]: the order was removed, not only cancelled
    late        \* the orders of which at least 30% is served

absVars == <<stage, seat, gone, late>>

Live == {"pending", "confirmed", "preparing", "ready"}
Withdrawable == Live \ {"ready"}
Stages == Live \cup {"none", "delivered", "cancelled"}

Following == [pending   |-> "confirmed", confirmed |-> "preparing",
              preparing |-> "ready",     ready     |-> "delivered"]

LiveOn(t) == {o \in Orders : stage[o] \in Live /\ seat[o] = t}

Init ==
    /\ stage = [o \in Orders |-> "none"]
    /\ seat = [o \in Orders |-> NoTable]
    /\ gone = [o \in Orders |-> FALSE]
    /\ late = {}

Open(o, t) ==
    /\ stage[o] = "none"
    /\ t = NoTable \/ LiveOn(t) = {}
    /\ stage' = [stage EXCEPT ![o] = "pending"]
    /\ seat' = [seat EXCEPT ![o] = t]
    /\ UNCHANGED <<gone, late>>

Advance(o) ==
    /\ stage[o] \in Live
    /\ stage' = [stage EXCEPT ![o] = Following[stage[o]]]
    /\ UNCHANGED <<seat, gone, late>>

\* The kitchen counts portions, up or down, of an order that has been opened.
Count(o) ==
    /\ stage[o] # "none"
    /\ late' \in {late \cup {o}, late \ {o}}
    /\ UNCHANGED <<stage, seat, gone>>

\* The customer or the staff withdraw the order: it is cancelled and removed.
Withdraw(o) ==
    /\ stage[o] \in Withdrawable
    /\ o \notin late
    /\ stage' = [stage EXCEPT ![o] = "cancelled"]
    /\ gone' = [gone EXCEPT ![o] = TRUE]
    /\ UNCHANGED <<seat, late>>

\* The staff set it to "cancelled"; it can still be looked at.
Strike(o) ==
    /\ stage[o] \in Withdrawable
    /\ o \notin late \/ ByHand
    /\ stage' = [stage EXCEPT ![o] = "cancelled"]
    /\ UNCHANGED <<seat, gone, late>>

Next ==
    \E o \in Orders :
        \/ \E t \in Tables \cup {NoTable} : Open(o, t)
        \/ Advance(o)
        \/ Count(o)
        \/ Withdraw(o)
        \/ Strike(o)

Spec == Init /\ [][Next]_absVars
=============================================================================
