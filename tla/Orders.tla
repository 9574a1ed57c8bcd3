------------------------------- MODULE Orders -------------------------------
(***************************************************************************)
(* The order service (internal/service/order_service.go) over its MySQL    *)
(* rows.  A request handler is a goroutine that reads, decides in memory   *)
(* and then writes, each database statement a step of its own: no row is   *)
(* locked and no write repeats the check it rests on, so other handlers    *)
(* run between a read and the write it justifies.                          *)
(*                                                                         *)
(* The first statement of a handler is the action that starts it; what the *)
(* handler remembers is req[h].  A request refused at its first statement  *)
(* changes nothing and is not a step.                                      *)
(***************************************************************************)
EXTENDS Integers, Functions

CONSTANTS
    Orders,     \* order ids (uuids) that requests may create
    Tables,     \* rows of the tables table
    NoTable,    \* orders.table_id is NULL: an online order
    Lines,      \* positions of an order's rows in order_items
    Carts,      \* the carts customers send: quantity per line, 0 for no row
    ServedInputs, \* the qty_served values the kitchen sends
    Handlers,   \* request goroutines that may run at the same time
    Overlap,    \* FALSE: clients take turns, see Exclusive, Shared and TurnAt
    Faults      \* may a statement fail, or the client hang up, between two statements?

ASSUME OrdersAssumption ==
    /\ NoTable \notin Tables
    /\ Carts \subseteq [Lines -> Nat]
    /\ ServedInputs \subseteq Nat
    /\ Overlap \in BOOLEAN
    /\ Faults \in BOOLEAN

(***************************************************************************)
(* The order handler accepts a cart only with an item of quantity >= 1.    *)
(***************************************************************************)
ASSUME CartsAssumption == \A cart \in Carts : \E l \in Lines : cart[l] > 0

VARIABLES
    status,     \* status[o]: orders.status, "none" while no row exists
    deleted,    \* deleted[o]: orders.deleted_at is not NULL
    table,      \* table[o]: orders.table_id
    quantity,   \* quantity[o][l]: order_items.quantity, 0 while no row exists
    served,     \* served[o][l]: order_items.qty_served
    req         \* req[h]: what handler h does next and what it has read

orderRows == <<status, deleted, table, quantity, served>>
orderVars == <<status, deleted, table, quantity, served, req>>

-----------------------------------------------------------------------------
(* Statuses and the transition table.                                      *)

Active == {"pending", "confirmed", "preparing", "ready"}
Terminal == {"delivered", "cancelled"}
Statuses == Active \cup Terminal

\* A bug: the kitchen may skip "preparing".
Bug_SkipPreparing(s) ==
    CASE s = "pending"   -> {"confirmed", "cancelled"}
      [] s = "confirmed" -> {"preparing", "ready", "cancelled"}
      [] s = "preparing" -> {"ready", "cancelled"}
      [] s = "ready"     -> {"delivered"}
      [] OTHER           -> {}

ValidTransitions(s) ==
    CASE s = "pending"   -> {"confirmed", "cancelled"}
      [] s = "confirmed" -> {"preparing", "cancelled"}
      [] s = "preparing" -> {"ready", "cancelled"}
      [] s = "ready"     -> {"delivered"}
      [] OTHER           -> {}

Cancellable == {"pending", "confirmed", "preparing"}

-----------------------------------------------------------------------------
(* What the queries return.                                                *)

\* GetOrderByID finds the row.
Found(o) == status[o] # "none" /\ ~deleted[o]

\* The rows GetActiveOrderByTable chooses from.
ActiveOnTable(t) ==
    {o \in Orders : Found(o) /\ table[o] = t /\ status[o] \in Active}

SumServed(o) == SumFunction(served[o])
SumQuantity(o) == SumFunction(quantity[o])

\* A bug: 30% itself still counts as below the threshold.
Bug_ThresholdInclusive(o) ==
    SumQuantity(o) > 0 /\ 10 * SumServed(o) > 3 * SumQuantity(o)

\* At least 30% served: too late to cancel.  The quotient of two int64 sums is
\* correctly rounded, so comparing it with 0.30 is this exact comparison.
AboveCancelThreshold(o) ==
    SumQuantity(o) > 0 /\ 10 * SumServed(o) >= 3 * SumQuantity(o)

\* Every item of the order is done.
AllServed(o) ==
    SumQuantity(o) # 0 /\ SumServed(o) >= SumQuantity(o)

-----------------------------------------------------------------------------
(* Handlers in flight: the statement to execute next, and what was read.   *)

Idle == [at |-> "idle"]

Continuation ==
    {Idle}
    \cup [at : {"create.insert"}, order : Orders, table : Tables \cup {NoTable}]
    \cup [at : {"status.write"}, order : Orders, next : Statuses]
    \cup [at : {"cancel.sum"}, order : Orders]
    \cup [at : {"cancel.write"}, order : Orders, summed : [Lines -> Nat]]
    \cup [at : {"item.write"}, order : Orders, line : Lines, qty : Nat]
    \cup [at : {"ready.sum", "ready.read", "ready.write"}, order : Orders]

InFlight(h) == req[h].at # "idle"
OnOrder(h, o) == InFlight(h) /\ req[h].order = o

\* newUUID gives an id that no row and no other request has.
Fresh(o) == status[o] = "none" /\ \A h \in Handlers : ~OnOrder(h, o)

\* The clients' side.  With Overlap = FALSE, PATCH status and DELETE wait until no
\* other request on the order is in flight, item updates wait only for those two,
\* and only one order at a time is being created for a table.
Exclusive(o) == Overlap \/ \A h \in Handlers : ~OnOrder(h, o)
Shared(o) == Overlap \/ \A h \in Handlers :
                 OnOrder(h, o) => req[h].at \notin {"status.write", "cancel.sum", "cancel.write"}
TurnAt(t) == Overlap \/ t = NoTable
                     \/ \A h \in Handlers : req[h].at = "create.insert" => req[h].table # t

Continue(h, k) == req' = [req EXCEPT ![h] = k]
Done(h) == Continue(h, Idle)

SetStatus(o, s) == status' = [status EXCEPT ![o] = s]

\* A bug: UPDATE orders SET status without "AND deleted_at IS NULL".
Bug_WriteDeletedRow(o, s) == SetStatus(o, s)

\* UPDATE orders SET status = s WHERE id = o AND deleted_at IS NULL.
WriteStatus(o, s) ==
    IF deleted[o] THEN UNCHANGED status ELSE SetStatus(o, s)

-----------------------------------------------------------------------------
(* CreateOrder.                                                            *)

\* GetActiveOrderByTable found nothing; or it failed, and the service, which
\* looks for err == nil, goes on as if it had found nothing.
CreateCheck(h, o, t) ==
    /\ req[h] = Idle
    /\ Fresh(o)
    /\ TurnAt(t)
    /\ t = NoTable \/ ActiveOnTable(t) = {} \/ Faults
    /\ Continue(h, [at |-> "create.insert", order |-> o, table |-> t])
    /\ UNCHANGED orderRows

\* One transaction: the order, its items and its total commit together.
\* (A cart naming a product that is gone ends the handler before it, as in Fail.)
CreateInsert(h, cart) ==
    /\ req[h].at = "create.insert"
    /\ SetStatus(req[h].order, "pending")
    /\ table' = [table EXCEPT ![req[h].order] = req[h].table]
    /\ quantity' = [quantity EXCEPT ![req[h].order] = cart]
    /\ Done(h)
    /\ UNCHANGED <<deleted, served>>

-----------------------------------------------------------------------------
(* UpdateOrderStatus.                                                      *)

StatusRead(h, o, s) ==
    /\ req[h] = Idle
    /\ Exclusive(o)
    /\ Found(o)
    /\ s \in ValidTransitions(status[o])
    /\ Continue(h, [at |-> "status.write", order |-> o, next |-> s])
    /\ UNCHANGED orderRows

StatusWrite(h) ==
    /\ req[h].at = "status.write"
    /\ WriteStatus(req[h].order, req[h].next)
    /\ Done(h)
    /\ UNCHANGED <<deleted, table, quantity, served>>

-----------------------------------------------------------------------------
(* CancelOrder.                                                            *)

\* The caller is staff, or the customer who created the order.
CancelRead(h, o) ==
    /\ req[h] = Idle
    /\ Exclusive(o)
    /\ Found(o)
    /\ status[o] \in Cancellable
    /\ Continue(h, [at |-> "cancel.sum", order |-> o])
    /\ UNCHANGED orderRows

\* The SELECT sums the items' counts; summed is what it saw of them.
CancelSum(h) ==
    /\ req[h].at = "cancel.sum"
    /\ LET o == req[h].order IN
       \/ /\ AboveCancelThreshold(o)
          /\ Done(h)
       \/ /\ ~AboveCancelThreshold(o)
          /\ Continue(h, [at |-> "cancel.write", order |-> o, summed |-> served[o]])
    /\ UNCHANGED orderRows

\* SoftDeleteOrder: deleted_at and status change in one statement.
CancelWrite(h) ==
    /\ req[h].at = "cancel.write"
    /\ WriteStatus(req[h].order, "cancelled")
    /\ deleted' = [deleted EXCEPT ![req[h].order] = TRUE]
    /\ Done(h)
    /\ UNCHANGED <<table, quantity, served>>

-----------------------------------------------------------------------------
(* UpdateItemServed and the auto-ready check it ends with.                 *)

\* A bug: the count is not compared with the quantity.
Bug_UncheckedCount(h, o, l, q) ==
    /\ req[h] = Idle
    /\ Shared(o)
    /\ quantity[o][l] > 0
    /\ Continue(h, [at |-> "item.write", order |-> o, line |-> l, qty |-> q])
    /\ UNCHANGED orderRows

\* Neither the order's status nor its deletion is looked at.
ItemRead(h, o, l, q) ==
    /\ req[h] = Idle
    /\ Shared(o)
    /\ quantity[o][l] > 0
    /\ q <= quantity[o][l]
    /\ Continue(h, [at |-> "item.write", order |-> o, line |-> l, qty |-> q])
    /\ UNCHANGED orderRows

\* A bug: the items are summed before the write instead of after it.
Bug_SumBeforeWrite(h) ==
    /\ req[h].at = "item.write"
    /\ served' = [served EXCEPT ![req[h].order][req[h].line] = req[h].qty]
    /\ \/ ~AllServed(req[h].order) /\ Done(h)
       \/ /\ AllServed(req[h].order)
          /\ Continue(h, [at |-> "ready.read", order |-> req[h].order])
    /\ UNCHANGED <<status, deleted, table, quantity>>

ItemWrite(h) ==
    /\ req[h].at = "item.write"
    /\ served' = [served EXCEPT ![req[h].order][req[h].line] = req[h].qty]
    /\ Continue(h, [at |-> "ready.sum", order |-> req[h].order])
    /\ UNCHANGED <<status, deleted, table, quantity>>

\* A bug: the sums are compared with <= where < is meant.
Bug_SumOffByOne(h) ==
    /\ req[h].at = "ready.sum"
    /\ \/ /\ SumServed(req[h].order) <= SumQuantity(req[h].order)
          /\ Done(h)
       \/ /\ SumServed(req[h].order) > SumQuantity(req[h].order)
          /\ Continue(h, [at |-> "ready.read", order |-> req[h].order])
    /\ UNCHANGED orderRows

ReadySum(h) ==
    /\ req[h].at = "ready.sum"
    /\ \/ /\ ~AllServed(req[h].order)
          /\ Done(h)
       \/ /\ AllServed(req[h].order)
          /\ Continue(h, [at |-> "ready.read", order |-> req[h].order])
    /\ UNCHANGED orderRows

\* A bug: any order whose items are all done becomes ready, whatever its status.
Bug_ReadyFromAnyStatus(h) ==
    /\ req[h].at = "ready.read"
    /\ Found(req[h].order)
    /\ Continue(h, [at |-> "ready.write", order |-> req[h].order])
    /\ UNCHANGED orderRows

ReadyRead(h) ==
    /\ req[h].at = "ready.read"
    /\ LET o == req[h].order IN
       \/ /\ Found(o) /\ status[o] = "preparing"
          /\ Continue(h, [at |-> "ready.write", order |-> o])
       \/ /\ ~(Found(o) /\ status[o] = "preparing")
          /\ Done(h)
    /\ UNCHANGED orderRows

ReadyWrite(h) ==
    /\ req[h].at = "ready.write"
    /\ WriteStatus(req[h].order, "ready")
    /\ Done(h)
    /\ UNCHANGED <<deleted, table, quantity, served>>

-----------------------------------------------------------------------------
(* A handler returns early: a statement failed, its context was cancelled  *)
(* with the client's connection, or the process stopped.                   *)
Fail(h) ==
    /\ Faults
    /\ InFlight(h)
    /\ Done(h)
    /\ UNCHANGED orderRows

-----------------------------------------------------------------------------
OrdersInit ==
    /\ status = [o \in Orders |-> "none"]
    /\ deleted = [o \in Orders |-> FALSE]
    /\ table = [o \in Orders |-> NoTable]
    /\ quantity = [o \in Orders |-> [l \in Lines |-> 0]]
    /\ served = [o \in Orders |-> [l \in Lines |-> 0]]
    /\ req = [h \in Handlers |-> Idle]

Start(h) ==
    \/ \E o \in Orders, t \in Tables \cup {NoTable} : CreateCheck(h, o, t)
    \/ \E o \in Orders, s \in Statuses : StatusRead(h, o, s)
    \/ \E o \in Orders : CancelRead(h, o)
    \/ \E o \in Orders, l \in Lines, q \in ServedInputs : ItemRead(h, o, l, q)

\* The next statement of a handler that has started.
Proceed(h) ==
    \/ \E cart \in Carts : CreateInsert(h, cart)
    \/ StatusWrite(h)
    \/ CancelSum(h)
    \/ CancelWrite(h)
    \/ ItemWrite(h)
    \/ ReadySum(h)
    \/ ReadyRead(h)
    \/ ReadyWrite(h)

OrdersNext == \E h \in Handlers : Start(h) \/ Proceed(h) \/ Fail(h)

OrdersSpec == OrdersInit /\ [][OrdersNext]_orderVars

\* net/http runs every accepted request on a goroutine of its own, which the
\* Go scheduler keeps running: a handler that has started goes on.  Whether a
\* client sends another request is not promised.
OrdersFairness == \A h \in Handlers : WF_orderVars(Proceed(h))
OrdersFairSpec == OrdersSpec /\ OrdersFairness

-----------------------------------------------------------------------------
(* Properties.                                                             *)

\* The rows keep the shape the schema gives them; in particular no item is
\* served more often than it was ordered, although UpdateQtyServed writes an
\* absolute count that was compared with the quantity one statement earlier.
OrdersTypeOK ==
    /\ status \in [Orders -> Statuses \cup {"none"}]
    /\ deleted \in [Orders -> BOOLEAN]
    /\ table \in [Orders -> Tables \cup {NoTable}]
    /\ quantity \in [Orders -> [Lines -> Nat]]
    /\ served \in [Orders -> [Lines -> Nat]]
    /\ req \in [Handlers -> Continuation]
    /\ \A o \in Orders, l \in Lines : served[o][l] <= quantity[o][l]

\* DELETE /orders/:id is final.  Whatever the handlers in flight read before it
\* (a PATCH about to write "preparing", an auto-ready about to write "ready"), a
\* soft-deleted order stays deleted and cancelled.
CancelIsFinal ==
    [][\A o \in Orders : deleted[o] => deleted'[o] /\ status'[o] = "cancelled"]_orderVars

\* An order whose last item is done must not be left in "preparing".  When the
\* items are finished by concurrent UpdateItemServed requests, each of which sees
\* some of the others' writes, at least one of them still has the auto-ready
\* check in front of it.
ReadyCheckAhead(o) ==
    \E h \in Handlers :
        req[h].at \in {"ready.sum", "ready.read", "ready.write"} /\ req[h].order = o
Stranded(o) == Found(o) /\ status[o] = "preparing" /\ AllServed(o) /\ ~ReadyCheckAhead(o)

\* An order becomes stranded only if the handler that owed it the check failed, or
\* if it enters "preparing" with every item already done.
NoOrderStranded ==
    [][\A o \in Orders : ~Stranded(o) /\ Stranded(o)' =>
          \/ status[o] # "preparing"
          \/ \E h \in Handlers : OnOrder(h, o) /\ Fail(h)]_orderVars

\* A delivered or cancelled order is final once no handler that passed its status
\* check earlier is still about to write: item updates on it (which check no
\* status) and new requests leave it alone.
StatusWritePending(o) ==
    \E h \in Handlers :
        req[h].at \in {"status.write", "cancel.sum", "cancel.write", "ready.write"}
        /\ req[h].order = o
Settled(o) == status[o] \in Terminal /\ ~StatusWritePending(o)
SettledStaysSettled ==
    [][\A o \in Orders : Settled(o) => Settled(o)' /\ status'[o] = status[o]]_orderVars

\* At least 30% of the order's portions are served.
ThirtyServed(o) == SumQuantity(o) > 0 /\ 10 * SumServed(o) >= 3 * SumQuantity(o)

\* DELETE /orders/:id never removes an order of which 30% or more is served.  The
\* sums are read one statement before the row is written, and an item update may
\* count more portions in between: nothing but such a count can break the rule.
CancelRule ==
    [][\A o \in Orders :
          ~deleted[o] /\ deleted'[o] /\ ThirtyServed(o) =>
              \E h \in Handlers : CancelWrite(h) /\ OnOrder(h, o)
                                 /\ req[h].summed # served[o]]_orderVars

\* A table never has two active orders.
LiveOnTable(t) == {o \in Orders : status[o] \in Active /\ table[o] = t}
OneActiveOrderPerTable ==
    \A t \in Tables : \A o1, o2 \in LiveOnTable(t) : o1 = o2

\* "State machine in the right order, no skipping": an order changes status along
\* the transition table only.
FollowsStateMachine ==
    [][\A o \in Orders : status'[o] # status[o] =>
          \/ status[o] = "none" /\ status'[o] = "pending"
          \/ status'[o] \in ValidTransitions(status[o])]_orderVars

\* The orders too late to cancel.  (Some portion of them is served: that follows
\* from the sums, and saves the proofs from adding them up.)
LateOrders ==
    {o \in Orders : ThirtyServed(o) /\ \E l \in Lines : served[o][l] > 0}

Lifecycle == INSTANCE OrderLifecycle WITH
                 stage <- status, seat <- table, gone <- deleted, late <- LateOrders,
                 ByHand <- TRUE
Documented == INSTANCE OrderLifecycle WITH
                 stage <- status, seat <- table, gone <- deleted, late <- LateOrders,
                 ByHand <- FALSE

\* The order service implements the documented lifecycle, but for staff setting the
\* status to "cancelled": PATCH does not look at what is served, DELETE does.
ImplementsLifecycle == Lifecycle!Spec

\* "cancelled | < 30% items served": the lifecycle to the letter.
KeepsDocumentedLifecycle == Documented!Spec

\* The auto-ready check that is ahead of an order takes effect.
AutoReadyHappens ==
    \A o \in Orders :
        (Found(o) /\ status[o] = "preparing" /\ AllServed(o) /\ ReadyCheckAhead(o))
            ~> (status[o] # "preparing" \/ ~AllServed(o))
=============================================================================
