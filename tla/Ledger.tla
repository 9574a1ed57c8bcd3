------------------------------- MODULE Ledger -------------------------------
(***************************************************************************)
(* What the payment service promises, without its handlers, its queries    *)
(* and the order service around it.  An order falls due when it is ready;  *)
(* a due order is billed once, in cash or online; an online bill is        *)
(* settled or declined on the gateway's word only, and lapses only while   *)
(* it is pending.  The gateway speaks of online bills only.  Every change  *)
(* is one step.                                                            *)
(***************************************************************************)
CONSTANT Orders     \* the order ids

VARIABLES
    due,        \* the orders that have been ready
    bill,       \* bill[o]: the state of the order's bill, "none" without one
    online,     \* online[o]: the bill is paid through a gateway
    word        \* what gateways have said of bills

ledgerVars == <<due, bill, online, word>>

Accepting == {"paid", "paid, no amount"}
Word == [order : Orders, outcome : Accepting \cup {"paid, other amount", "declined"}]

Accepted(o) == \E w \in word : w.order = o /\ w.outcome \in Accepting
Declined(o) == \E w \in word : w.order = o /\ w.outcome = "declined"

Init ==
    /\ due = {}
    /\ bill = [o \in Orders |-> "none"]
    /\ online = [o \in Orders |-> FALSE]
    /\ word = {}

FallDue(o) ==
    /\ due' = due \cup {o}
    /\ UNCHANGED <<bill, online, word>>

Bill(o, viaGateway) ==
    /\ o \in due /\ bill[o] = "none"
    /\ bill' = [bill EXCEPT ![o] = "pending"]
    /\ online' = [online EXCEPT ![o] = viaGateway]
    /\ UNCHANGED <<due, word>>

Hear(w) ==
    /\ bill[w.order] # "none" /\ online[w.order]
    /\ word' = word \cup {w}
    /\ UNCHANGED <<due, bill, online>>

\* A bill once declined may still be settled, and the other way round: gateways
\* contradict themselves.
Settle(o) ==
    /\ bill[o] # "none"
    /\ online[o] => Accepted(o)
    /\ bill' = [bill EXCEPT ![o] = "completed"]
    /\ UNCHANGED <<due, online, word>>

Decline(o) ==
    /\ bill[o] # "none"
    /\ Declined(o)
    /\ bill' = [bill EXCEPT ![o] = "failed"]
    /\ UNCHANGED <<due, online, word>>

Lapse(late) ==
    /\ \A o \in late : bill[o] = "pending" /\ online[o]
    /\ bill' = [o \in Orders |-> IF o \in late THEN "failed" ELSE bill[o]]
    /\ UNCHANGED <<due, online, word>>

Next ==
    \/ \E o \in Orders :
           \/ FallDue(o)
           \/ \E viaGateway \in BOOLEAN : Bill(o, viaGateway)
           \/ Settle(o)
           \/ Decline(o)
    \/ \E w \in Word : Hear(w)
    \/ \E late \in SUBSET Orders : Lapse(late)

Spec == Init /\ [][Next]_ledgerVars
=============================================================================
