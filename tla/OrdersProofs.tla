---------------------------- MODULE OrdersProofs ----------------------------
(***************************************************************************)
(* Theorems about Orders, for every set of orders, tables, carts and       *)
(* handlers, with overlapping requests and failing statements.             *)
(***************************************************************************)
EXTENDS Orders, FiniteSetTheorems, TLAPS

(***************************************************************************)
(* What every handler in flight relies on.  An order about to be inserted  *)
(* has no row and only one handler; every other handler works on a row     *)
(* that exists, and rows never disappear; the count an item update is      *)
(* about to write was compared with a quantity that does not change.  Only *)
(* an order with a row has items, and only cancelled orders are deleted.   *)
(***************************************************************************)
InsertsAreFresh ==
    \A h \in Handlers : req[h].at = "create.insert" =>
        /\ status[req[h].order] = "none"
        /\ \A g \in Handlers : OnOrder(g, req[h].order) => g = h

OthersHaveRows ==
    \A h \in Handlers : req[h].at \notin {"idle", "create.insert"} =>
        status[req[h].order] # "none"

CountsAreChecked ==
    \A h \in Handlers : req[h].at = "item.write" =>
        req[h].qty <= quantity[req[h].order][req[h].line]

ItemsHaveOrders ==
    \A o \in Orders : status[o] = "none" => \A l \in Lines : quantity[o][l] = 0

DeletedAreCancelled == \A o \in Orders : deleted[o] => status[o] = "cancelled"

Inv ==
    /\ OrdersTypeOK
    /\ InsertsAreFresh
    /\ OthersHaveRows
    /\ CountsAreChecked
    /\ ItemsHaveOrders
    /\ DeletedAreCancelled

-----------------------------------------------------------------------------
(* The fields a continuation has.                                          *)
LEMMA ContinuationFields ==
    ASSUME NEW k \in Continuation
    PROVE  /\ k.at \in {"idle", "create.insert", "status.write", "cancel.sum", "cancel.write",
                        "item.write", "ready.sum", "ready.read", "ready.write"}
           /\ k.at = "idle" <=> k = Idle
           /\ k.at # "idle" => k.order \in Orders
           /\ k.at = "create.insert" => k.table \in Tables \cup {NoTable}
           /\ k.at = "status.write" => k.next \in Statuses
           /\ k.at = "cancel.write" => k.summed \in [Lines -> Nat]
           /\ k.at = "item.write" => k.line \in Lines /\ k.qty \in Nat
BY DEF Continuation, Idle

LEMMA ContinuationSteps ==
    ASSUME NEW o \in Orders
    PROVE  /\ Idle \in Continuation
           /\ \A t \in Tables \cup {NoTable} :
                  [at |-> "create.insert", order |-> o, table |-> t] \in Continuation
           /\ \A s \in Statuses : [at |-> "status.write", order |-> o, next |-> s] \in Continuation
           /\ \A l \in Lines, q \in Nat :
                  [at |-> "item.write", order |-> o, line |-> l, qty |-> q] \in Continuation
           /\ \A c \in [Lines -> Nat] :
                  [at |-> "cancel.write", order |-> o, summed |-> c] \in Continuation
           /\ \A a \in {"cancel.sum", "ready.sum", "ready.read", "ready.write"} :
                  [at |-> a, order |-> o] \in Continuation
BY DEF Continuation

-----------------------------------------------------------------------------
(* What a step does to the invariant depends only on what it does to the   *)
(* rows and on the continuation it leaves its own handler with.            *)

\* A step that changes no row keeps the invariant when the handler's next
\* continuation k is justified: by the rows, or by what the handler knew.
LEMMA ReadStep ==
    ASSUME Inv, NEW h \in Handlers, NEW k \in Continuation,
           Continue(h, k), UNCHANGED orderRows,
           k.at = "create.insert" =>
               status[k.order] = "none" /\ \A g \in Handlers : g # h => ~OnOrder(g, k.order),
           k.at \notin {"idle", "create.insert"} => status[k.order] # "none",
           k.at = "item.write" => k.qty <= quantity[k.order][k.line]
    PROVE  Inv'
<1> USE DEF Inv, Continue, orderRows
<1>1. OrdersTypeOK'
  BY DEF OrdersTypeOK
<1>2. InsertsAreFresh'
  BY DEF OrdersTypeOK, InsertsAreFresh, OnOrder, InFlight
<1>3. OthersHaveRows'
  BY DEF OrdersTypeOK, OthersHaveRows
<1>4. CountsAreChecked'
  BY DEF OrdersTypeOK, CountsAreChecked
<1>5. ItemsHaveOrders' /\ DeletedAreCancelled'
  BY DEF ItemsHaveOrders, DeletedAreCancelled
<1> QED
  BY <1>1, <1>2, <1>3, <1>4, <1>5

\* So does a guarded write of the status of an existing order, with or without
\* its deletion, after which the handler is done.
LEMMA StatusStep ==
    ASSUME Inv, NEW h \in Handlers, NEW o \in Orders, NEW s \in Statuses,
           status[o] # "none", WriteStatus(o, s), Done(h),
           UNCHANGED <<table, quantity, served>>,
           \/ UNCHANGED deleted
           \/ s = "cancelled" /\ deleted' = [deleted EXCEPT ![o] = TRUE]
    PROVE  Inv'
<1> USE DEF Inv, WriteStatus, SetStatus, Continue, Done, OrdersTypeOK
<1>1. \A p \in Orders : status'[p] = "none" <=> status[p] = "none"
  BY DEF Statuses, Active, Terminal
<1>2. OrdersTypeOK'
  BY ContinuationSteps DEF Statuses, Active, Terminal
<1>3. InsertsAreFresh'
  BY <1>1, ContinuationFields DEF InsertsAreFresh, OnOrder, InFlight, Idle
<1>4. OthersHaveRows'
  BY <1>1, ContinuationFields DEF OthersHaveRows, Idle
<1>5. CountsAreChecked'
  BY DEF CountsAreChecked, Idle
<1>6. ItemsHaveOrders'
  BY <1>1 DEF ItemsHaveOrders
<1>7. DeletedAreCancelled'
  BY DEF DeletedAreCancelled
<1> QED
  BY <1>2, <1>3, <1>4, <1>5, <1>6, <1>7

-----------------------------------------------------------------------------
LEMMA InitInv == OrdersInit => Inv
BY DEF OrdersInit, Inv, OrdersTypeOK, InsertsAreFresh, OthersHaveRows, CountsAreChecked,
       ItemsHaveOrders, DeletedAreCancelled, Continuation, Idle

LEMMA StartInv ==
    ASSUME Inv, NEW h \in Handlers, Start(h)
    PROVE  Inv'
<1> USE DEF Inv
<1>1. CASE \E o \in Orders, t \in Tables \cup {NoTable} : CreateCheck(h, o, t)
  <2>1. PICK o \in Orders, t \in Tables \cup {NoTable} : CreateCheck(h, o, t)
    BY <1>1
  <2> DEFINE k == [at |-> "create.insert", order |-> o, table |-> t]
  <2>2. k \in Continuation
    BY ContinuationSteps
  <2>3. status[o] = "none" /\ \A g \in Handlers : ~OnOrder(g, o)
    BY <2>1 DEF CreateCheck, Fresh
  <2> QED
    BY <2>1, <2>2, <2>3, ReadStep DEF CreateCheck
<1>2. CASE \E o \in Orders, s \in Statuses : StatusRead(h, o, s)
  <2>1. PICK o \in Orders, s \in Statuses : StatusRead(h, o, s)
    BY <1>2
  <2>2. [at |-> "status.write", order |-> o, next |-> s] \in Continuation
    BY ContinuationSteps
  <2> QED
    BY <2>1, <2>2, ReadStep DEF StatusRead, Found
<1>3. CASE \E o \in Orders : CancelRead(h, o)
  <2>1. PICK o \in Orders : CancelRead(h, o)
    BY <1>3
  <2>2. [at |-> "cancel.sum", order |-> o] \in Continuation
    BY ContinuationSteps
  <2> QED
    BY <2>1, <2>2, ReadStep DEF CancelRead, Found
<1>4. CASE \E o \in Orders, l \in Lines, q \in ServedInputs : ItemRead(h, o, l, q)
  <2>1. PICK o \in Orders, l \in Lines, q \in ServedInputs : ItemRead(h, o, l, q)
    BY <1>4
  <2>2. [at |-> "item.write", order |-> o, line |-> l, qty |-> q] \in Continuation
    BY ContinuationSteps, OrdersAssumption
  <2>3. status[o] # "none"
    BY <2>1 DEF ItemRead, ItemsHaveOrders
  <2> QED
    BY <2>1, <2>2, <2>3, ReadStep DEF ItemRead
<1> QED
  BY <1>1, <1>2, <1>3, <1>4 DEF Start

LEMMA InsertInv ==
    ASSUME Inv, NEW h \in Handlers, NEW cart \in Carts, CreateInsert(h, cart)
    PROVE  Inv'
<1> DEFINE o == req[h].order
<1> USE DEF Inv, CreateInsert, SetStatus, Continue, Done, OrdersTypeOK
<1>1. o \in Orders /\ req[h].table \in Tables \cup {NoTable} /\ status[o] = "none"
  BY ContinuationFields DEF InsertsAreFresh
<1>2. \A g \in Handlers : g # h => req'[g] = req[g] /\ ~OnOrder(g, o)
  BY DEF InsertsAreFresh
<1>3. \A p \in Orders : p # o =>
          status'[p] = status[p] /\ quantity'[p] = quantity[p]
  BY <1>1
<1>4. OrdersTypeOK'
  <2>1. cart \in [Lines -> Nat]
    BY OrdersAssumption
  <2>2. \A l \in Lines : served'[o][l] <= quantity'[o][l]
    BY <1>1, <2>1 DEF ItemsHaveOrders
  <2> QED
    BY <1>1, <2>1, <2>2, ContinuationSteps DEF Statuses, Active
<1>5. InsertsAreFresh'
  BY <1>1, <1>2, <1>3, ContinuationFields DEF InsertsAreFresh, OnOrder, InFlight, Idle
<1>6. OthersHaveRows'
  BY <1>1, <1>2, <1>3, ContinuationFields DEF OthersHaveRows, Idle
<1>7. CountsAreChecked'
  BY <1>1, <1>2, <1>3, ContinuationFields DEF CountsAreChecked, OnOrder, InFlight, Idle
<1>8. ItemsHaveOrders' /\ DeletedAreCancelled'
  BY <1>1, <1>3 DEF ItemsHaveOrders, DeletedAreCancelled
<1> QED
  BY <1>4, <1>5, <1>6, <1>7, <1>8

LEMMA ItemWriteInv ==
    ASSUME Inv, NEW h \in Handlers, ItemWrite(h)
    PROVE  Inv'
<1> DEFINE o == req[h].order
<1> USE DEF Inv, ItemWrite, Continue, OrdersTypeOK
<1>1. /\ o \in Orders /\ req[h].line \in Lines /\ req[h].qty \in Nat
      /\ status[o] # "none" /\ req[h].qty <= quantity[o][req[h].line]
  BY ContinuationFields DEF OthersHaveRows, CountsAreChecked
<1>2. OrdersTypeOK'
  BY <1>1, ContinuationSteps
<1>3. InsertsAreFresh'
  BY <1>1, ContinuationFields DEF InsertsAreFresh, OnOrder, InFlight
<1>4. OthersHaveRows'
  BY <1>1, ContinuationFields DEF OthersHaveRows
<1>5. CountsAreChecked'
  BY DEF CountsAreChecked
<1>6. ItemsHaveOrders' /\ DeletedAreCancelled'
  BY DEF ItemsHaveOrders, DeletedAreCancelled
<1> QED
  BY <1>2, <1>3, <1>4, <1>5, <1>6

LEMMA ProceedInv ==
    ASSUME Inv, NEW h \in Handlers, Proceed(h)
    PROVE  Inv'
<1> DEFINE o == req[h].order
<1>1. req[h] \in Continuation
  BY DEF Inv, OrdersTypeOK
<1>2. req[h].at \notin {"idle", "create.insert"} => o \in Orders /\ status[o] # "none"
  BY <1>1, ContinuationFields DEF Inv, OthersHaveRows
<1>3. CASE \E cart \in Carts : CreateInsert(h, cart)
  BY <1>3, InsertInv
<1>4. CASE StatusWrite(h)
  BY <1>1, <1>2, <1>4, StatusStep, ContinuationFields DEF StatusWrite
<1>5. CASE CancelSum(h)
  <2> DEFINE w == [at |-> "cancel.write", order |-> o, summed |-> served[o]]
  <2>1. PICK k \in {Idle, w} : Continue(h, k)
    BY <1>5 DEF CancelSum, Done
  <2>2. w \in Continuation /\ Idle \in Continuation
    BY <1>2, <1>5, ContinuationSteps DEF CancelSum, Inv, OrdersTypeOK
  <2>3. k \in Continuation /\ k.at \in {"idle", "cancel.write"} /\ (k.at # "idle" => k.order = o)
    BY <2>2 DEF Idle
  <2> QED
    BY <1>2, <1>5, <2>1, <2>3, ReadStep DEF CancelSum
<1>6. CASE CancelWrite(h)
  BY <1>2, <1>6, StatusStep DEF CancelWrite, Statuses, Terminal
<1>7. CASE ItemWrite(h)
  BY <1>7, ItemWriteInv
<1>8. CASE ReadySum(h)
  <2>1. PICK k \in {Idle, [at |-> "ready.read", order |-> o]} : Continue(h, k)
    BY <1>8 DEF ReadySum, Done
  <2>2. k \in Continuation /\ k.at \in {"idle", "ready.read"} /\ (k.at # "idle" => k.order = o)
    BY <1>2, <1>8, <2>1, ContinuationSteps DEF ReadySum, Idle, Continuation
  <2> QED
    BY <1>2, <1>8, <2>1, <2>2, ReadStep DEF ReadySum
<1>9. CASE ReadyRead(h)
  <2>1. PICK k \in {Idle, [at |-> "ready.write", order |-> o]} : Continue(h, k)
    BY <1>9 DEF ReadyRead, Done
  <2>2. k \in Continuation /\ k.at \in {"idle", "ready.write"} /\ (k.at # "idle" => k.order = o)
    BY <1>2, <1>9, <2>1, ContinuationSteps DEF ReadyRead, Idle, Continuation
  <2> QED
    BY <1>2, <1>9, <2>1, <2>2, ReadStep DEF ReadyRead
<1>10. CASE ReadyWrite(h)
  BY <1>2, <1>10, StatusStep DEF ReadyWrite, Statuses, Active
<1> QED
  BY <1>3, <1>4, <1>5, <1>6, <1>7, <1>8, <1>9, <1>10 DEF Proceed

LEMMA NextInv == Inv /\ [OrdersNext]_orderVars => Inv'
<1> SUFFICES ASSUME Inv, [OrdersNext]_orderVars PROVE Inv'
  OBVIOUS
<1>1. CASE UNCHANGED orderVars
  BY <1>1 DEF orderVars, Inv, OrdersTypeOK, InsertsAreFresh, OthersHaveRows, CountsAreChecked,
              ItemsHaveOrders, DeletedAreCancelled, OnOrder, InFlight
<1>2. ASSUME NEW h \in Handlers, Start(h) \/ Proceed(h) PROVE Inv'
  BY <1>2, StartInv, ProceedInv
<1>3. ASSUME NEW h \in Handlers, Fail(h) PROVE Inv'
  <2>1. Idle \in Continuation /\ Idle.at = "idle"
    BY DEF Continuation, Idle
  <2> QED
    BY <1>3, <2>1, ReadStep DEF Fail, Done
<1> QED
  BY <1>1, <1>2, <1>3 DEF OrdersNext

LEMMA AlwaysInv == OrdersSpec => []Inv
BY InitInv, NextInv, PTL DEF OrdersSpec

\* The rows keep their shape, and no item is ever served more often than it was
\* ordered, however UpdateItemServed requests overlap and fail.
THEOREM TypeCorrect == OrdersSpec => []OrdersTypeOK
BY AlwaysInv, PTL DEF Inv

-----------------------------------------------------------------------------
(* Every step is a step of one handler, and only five of its statements    *)
(* write rows.                                                             *)
Writes(h) ==
    \/ \E cart \in Carts : CreateInsert(h, cart)
    \/ StatusWrite(h)
    \/ CancelWrite(h)
    \/ ItemWrite(h)
    \/ ReadyWrite(h)

LEMMA ReadsOrWrites ==
    ASSUME NEW h \in Handlers, Start(h) \/ Proceed(h) \/ Fail(h)
    PROVE  UNCHANGED orderRows \/ Writes(h)
BY DEF Start, Proceed, Writes, Fail, CreateCheck, StatusRead, CancelRead, ItemRead, CancelSum,
       ReadySum, ReadyRead

LEMMA OneHandlerMoves ==
    ASSUME Inv, NEW h \in Handlers, Start(h) \/ Proceed(h) \/ Fail(h)
    PROVE  \A g \in Handlers : g # h => req'[g] = req[g]
BY DEF Inv, OrdersTypeOK, Start, Proceed, Fail, CreateCheck, StatusRead, CancelRead, ItemRead,
       CreateInsert, StatusWrite, CancelSum, CancelWrite, ItemWrite, ReadySum, ReadyRead,
       ReadyWrite, Continue, Done

\* No step takes a deleted order out of that state.
LEMMA DeletedStays ==
    ASSUME Inv, OrdersNext, NEW o \in Orders, deleted[o]
    PROVE  deleted'[o] /\ status'[o] = "cancelled"
<1>1. PICK h \in Handlers : Start(h) \/ Proceed(h) \/ Fail(h)
  BY DEF OrdersNext
<1>2. status[o] = "cancelled"
  BY DEF Inv, DeletedAreCancelled
<1>3. CASE UNCHANGED orderRows
  BY <1>2, <1>3 DEF orderRows
<1>4. CASE \E cart \in Carts : CreateInsert(h, cart)
  BY <1>2, <1>4 DEF CreateInsert, SetStatus, Inv, OrdersTypeOK, InsertsAreFresh
<1>5. CASE StatusWrite(h) \/ CancelWrite(h) \/ ReadyWrite(h)
  BY <1>2, <1>5 DEF StatusWrite, CancelWrite, ReadyWrite, WriteStatus, SetStatus,
                          Inv, OrdersTypeOK
<1>6. CASE ItemWrite(h)
  BY <1>2, <1>6 DEF ItemWrite
<1> QED
  BY <1>1, <1>3, <1>4, <1>5, <1>6, ReadsOrWrites DEF Writes

\* DELETE is final: whatever the handlers in flight read before it, a deleted order
\* stays deleted and cancelled.
THEOREM CancelFinal == OrdersSpec => CancelIsFinal
<1>1. Inv /\ [OrdersNext]_orderVars =>
          [\A o \in Orders : deleted[o] => deleted'[o] /\ status'[o] = "cancelled"]_orderVars
  BY DeletedStays
<1> QED
  BY <1>1, AlwaysInv, PTL DEF OrdersSpec, CancelIsFinal

-----------------------------------------------------------------------------
(* The 30% rule.  A cancellation that got past the sums still has them when*)
(* it writes, and an order's quantities do not change once it has a row.   *)
SumsAllowCancel ==
    \A h \in Handlers : req[h].at = "cancel.write" =>
        LET q == SumQuantity(req[h].order) IN
        ~(q > 0 /\ 10 * SumFunction(req[h].summed) >= 3 * q)

LEMMA QuantitiesStay ==
    ASSUME Inv, NEW h \in Handlers, Start(h) \/ Proceed(h) \/ Fail(h),
           NEW o \in Orders, status[o] # "none"
    PROVE  quantity'[o] = quantity[o]
<1>1. CASE UNCHANGED orderRows
  BY <1>1 DEF orderRows
<1>2. CASE \E cart \in Carts : CreateInsert(h, cart)
  <2>1. req[h].order # o
    BY <1>2 DEF CreateInsert, Inv, InsertsAreFresh
  <2> QED
    BY <1>2, <2>1 DEF CreateInsert, Inv, OrdersTypeOK
<1> QED
  BY <1>1, <1>2, ReadsOrWrites DEF Writes, StatusWrite, CancelWrite, ItemWrite, ReadyWrite

LEMMA SumsStep ==
    ASSUME Inv, SumsAllowCancel, OrdersNext
    PROVE  SumsAllowCancel'
<1>1. PICK h \in Handlers : Start(h) \/ Proceed(h) \/ Fail(h)
  BY DEF OrdersNext
<1>2. req \in [Handlers -> Continuation]
  BY DEF Inv, OrdersTypeOK
<1>3. ASSUME NEW g \in Handlers, g # h, req'[g].at = "cancel.write"
      PROVE  (LET q == SumQuantity(req[g].order) IN
              ~(q > 0 /\ 10 * SumFunction(req[g].summed) >= 3 * q))'
  <2>1. req'[g] = req[g] /\ req[g].order \in Orders /\ status[req[g].order] # "none"
    BY <1>1, <1>2, <1>3, OneHandlerMoves, ContinuationFields DEF Inv, OthersHaveRows
  <2>2. SumQuantity(req[g].order)' = SumQuantity(req[g].order)
    BY <1>1, <2>1, QuantitiesStay DEF SumQuantity
  <2> QED
    BY <1>3, <2>1, <2>2 DEF SumsAllowCancel
<1>4. ASSUME req'[h].at = "cancel.write"
      PROVE  (LET q == SumQuantity(req[h].order) IN
              ~(q > 0 /\ 10 * SumFunction(req[h].summed) >= 3 * q))'
  <2>1. CancelSum(h)
    BY <1>1, <1>2, <1>4 DEF Start, Proceed, Fail, CreateCheck, StatusRead, CancelRead, ItemRead,
                      CreateInsert, StatusWrite, CancelWrite, ItemWrite, ReadySum, ReadyRead,
                      ReadyWrite, Continue, Done, Idle
  <2> DEFINE o == req[h].order
  <2>2. /\ req'[h] = [at |-> "cancel.write", order |-> o, summed |-> served[o]]
        /\ ~AboveCancelThreshold(o) /\ UNCHANGED quantity
    BY <1>2, <1>4, <2>1 DEF CancelSum, Continue, Done, Idle, orderRows
  <2>3. SumQuantity(o)' = SumQuantity(o)
    BY <2>2 DEF SumQuantity
  <2> QED
    BY <2>2, <2>3 DEF AboveCancelThreshold, SumServed
<1>5. \A g \in Handlers : g # h => req'[g] = req[g]
  BY <1>1, OneHandlerMoves
<1> QED
  BY <1>3, <1>4, <1>5 DEF SumsAllowCancel

\* Whoever removes an order of which 30% is served had summed other counts.
LEMMA DeletesBelowThreshold ==
    ASSUME Inv, SumsAllowCancel, OrdersNext, NEW o \in Orders,
           ~deleted[o], deleted'[o], ThirtyServed(o)
    PROVE  \E h \in Handlers : CancelWrite(h) /\ OnOrder(h, o) /\ req[h].summed # served[o]
<1>1. PICK h \in Handlers : Start(h) \/ Proceed(h) \/ Fail(h)
  BY DEF OrdersNext
<1>2. CancelWrite(h)
  BY <1>1, ReadsOrWrites DEF Writes, orderRows, CreateInsert, StatusWrite, ItemWrite, ReadyWrite
<1>3. req[h].order = o
  BY <1>2 DEF CancelWrite, Inv, OrdersTypeOK
<1>4. req[h].summed # served[o]
  BY <1>2, <1>3 DEF CancelWrite, SumsAllowCancel, ThirtyServed, SumServed
<1> QED
  BY <1>2, <1>3, <1>4 DEF CancelWrite, OnOrder, InFlight

LEMMA SumsInit == OrdersInit => SumsAllowCancel
BY DEF OrdersInit, SumsAllowCancel, Idle

\* The 30% rule, however requests overlap and fail: DELETE removes an order of which 30%
\* is served only if portions were counted between its sum and its write.
THEOREM CancelRuleKept == OrdersSpec => CancelRule
<1>1. Inv /\ SumsAllowCancel /\ [OrdersNext]_orderVars => SumsAllowCancel'
  <2>1. ASSUME SumsAllowCancel, UNCHANGED orderVars PROVE SumsAllowCancel'
    BY <2>1 DEF orderVars, SumsAllowCancel, SumQuantity
  <2> QED
    BY <2>1, SumsStep
<1>2. Inv /\ SumsAllowCancel /\ [OrdersNext]_orderVars =>
          [\A o \in Orders : ~deleted[o] /\ deleted'[o] /\ ThirtyServed(o) =>
              \E h \in Handlers : CancelWrite(h) /\ OnOrder(h, o)
                                 /\ req[h].summed # served[o]]_orderVars
  BY DeletesBelowThreshold
<1> QED
  BY <1>1, <1>2, SumsInit, AlwaysInv, PTL DEF OrdersSpec, CancelRule

-----------------------------------------------------------------------------
\* A step of the order service leaves a settled order settled.
LEMMA SettledStep ==
    ASSUME Inv, OrdersNext, NEW o \in Orders, Settled(o)
    PROVE  Settled(o)' /\ status'[o] = status[o]
<1>1. PICK h \in Handlers : Start(h) \/ Proceed(h) \/ Fail(h)
  BY DEF OrdersNext
<1>2. status[o] \in Terminal /\ ~StatusWritePending(o)
  BY DEF Settled
<1>3. status'[o] = status[o]
  <2>1. CASE UNCHANGED orderRows
    BY <2>1 DEF orderRows
  <2>2. CASE \E cart \in Carts : CreateInsert(h, cart)
    BY <1>2, <2>2 DEF CreateInsert, SetStatus, Inv, OrdersTypeOK, InsertsAreFresh, Terminal
  <2>3. CASE StatusWrite(h) \/ CancelWrite(h) \/ ReadyWrite(h)
    BY <1>2, <2>3 DEF StatusWrite, CancelWrite, ReadyWrite, WriteStatus, SetStatus,
                            StatusWritePending, Inv, OrdersTypeOK
  <2>4. CASE ItemWrite(h)
    BY <2>4 DEF ItemWrite
  <2> QED
    BY <1>1, <2>1, <2>2, <2>3, <2>4, ReadsOrWrites DEF Writes
<1>4. ~(req'[h].at \in {"status.write", "cancel.sum", "cancel.write", "ready.write"}
        /\ req'[h].order = o)
  <2> USE DEF Continue, Done, Idle, Inv, OrdersTypeOK
  <2>1. CASE Start(h)
    BY <1>2, <2>1 DEF Start, CreateCheck, StatusRead, CancelRead, ItemRead, Terminal,
                            ValidTransitions, Cancellable
  <2>2. CASE CancelSum(h) \/ ReadyRead(h)
    BY <1>2, <2>2 DEF CancelSum, ReadyRead, StatusWritePending, Terminal
  <2>3. CASE ItemWrite(h) \/ ReadySum(h)
    BY <2>3 DEF ItemWrite, ReadySum
  <2>4. CASE (Writes(h) /\ ~ItemWrite(h)) \/ Fail(h)
    BY <2>4 DEF Writes, CreateInsert, StatusWrite, CancelWrite, ReadyWrite, Fail
  <2> QED
    BY <1>1, <2>1, <2>2, <2>3, <2>4 DEF Proceed, Writes
<1>5. ~StatusWritePending(o)'
  BY <1>1, <1>2, <1>4, OneHandlerMoves DEF StatusWritePending
<1> QED
  BY <1>2, <1>3, <1>5 DEF Settled

\* Delivered and cancelled orders are final once no handler that read them earlier
\* is about to write: no later request, and no item update, changes their status.
THEOREM SettledIsFinal == OrdersSpec => SettledStaysSettled
<1>1. Inv /\ [OrdersNext]_orderVars =>
          [\A o \in Orders : Settled(o) => Settled(o)' /\ status'[o] = status[o]]_orderVars
  BY SettledStep
<1> QED
  BY <1>1, AlwaysInv, PTL DEF OrdersSpec, SettledStaysSettled

\* No statement of the order service strands an order.
LEMMA StatementsStrandNone ==
    ASSUME Inv, OrdersNext, NEW o \in Orders, ~Stranded(o), Stranded(o)', status[o] = "preparing",
           NEW h \in Handlers, Start(h) \/ Proceed(h)
    PROVE  FALSE
<1> USE DEF Inv, OrdersTypeOK
<1>1. /\ status'[o] = "preparing" /\ ~deleted'[o] /\ AllServed(o)'
      /\ ~ReadyCheckAhead(o)'
  BY DEF Stranded, Found
<1>2. ~deleted[o]
  \* no statement clears deleted_at
  BY <1>1, ReadsOrWrites DEF Writes, orderRows, CreateInsert, StatusWrite, CancelWrite,
                                   ItemWrite, ReadyWrite
<1>3. ~(ItemWrite(h) /\ req[h].order = o)
  <2> SUFFICES ASSUME ItemWrite(h), req[h].order = o PROVE FALSE
    OBVIOUS
  <2>1. req'[h] = [at |-> "ready.sum", order |-> o]
    BY DEF ItemWrite, Continue
  <2> QED
    BY <1>1, <2>1 DEF ReadyCheckAhead
<1>4. served'[o] = served[o] /\ quantity'[o] = quantity[o]
  <2>1. CASE \E cart \in Carts : CreateInsert(h, cart)
    BY <2>1 DEF CreateInsert, InsertsAreFresh
  <2>2. CASE ItemWrite(h)
    BY <1>3, <2>2 DEF ItemWrite
  <2> QED
    BY <2>1, <2>2, ReadsOrWrites DEF Writes, orderRows, StatusWrite, CancelWrite, ReadyWrite
<1>5. AllServed(o)
  BY <1>1, <1>4 DEF AllServed, SumServed, SumQuantity
<1>6. PICK g \in Handlers :
          req[g].at \in {"ready.sum", "ready.read", "ready.write"} /\ req[g].order = o
  BY <1>2, <1>5 DEF Stranded, Found, ReadyCheckAhead
<1>7. g = h
  BY <1>1, <1>6, OneHandlerMoves DEF ReadyCheckAhead
<1>8. CASE ReadySum(h)
  BY <1>1, <1>5, <1>6, <1>7, <1>8 DEF ReadySum, Continue, ReadyCheckAhead
<1>9. CASE ReadyRead(h)
  BY <1>1, <1>2, <1>6, <1>7, <1>9 DEF ReadyRead, Found, Continue, ReadyCheckAhead
<1>10. CASE ReadyWrite(h)
  BY <1>1, <1>2, <1>6, <1>7, <1>10 DEF ReadyWrite, WriteStatus, SetStatus
<1>11. ~Start(h)
  <2>1. req[h] # Idle
    BY <1>6, <1>7 DEF Idle
  <2> QED
    BY <2>1 DEF Start, CreateCheck, StatusRead, CancelRead, ItemRead
<1> QED
  BY <1>6, <1>7, <1>8, <1>9, <1>10, <1>11
     DEF Proceed, CreateInsert, StatusWrite, CancelSum, CancelWrite, ItemWrite

\* It is left to a failing handler.
LEMMA StrandedByFailure ==
    ASSUME Inv, OrdersNext, NEW o \in Orders, ~Stranded(o), Stranded(o)', status[o] = "preparing"
    PROVE  \E h \in Handlers : OnOrder(h, o) /\ Fail(h)
<1>1. PICK h \in Handlers : Fail(h)
  BY StatementsStrandNone DEF OrdersNext
<1>2. PICK g \in Handlers :
          req[g].at \in {"ready.sum", "ready.read", "ready.write"} /\ req[g].order = o
  BY <1>1 DEF Fail, orderRows, Stranded, Found, AllServed, SumServed, SumQuantity,
                    ReadyCheckAhead
<1>3. g = h
  BY <1>1, <1>2, OneHandlerMoves DEF Stranded, ReadyCheckAhead
<1> QED
  BY <1>1, <1>2, <1>3 DEF OnOrder, InFlight

\* An order that is being prepared is never left with all its items done and no
\* auto-ready check to come, unless the handler that owed the check failed.
THEOREM ReadyCheckKept == OrdersSpec => NoOrderStranded
<1>1. Inv /\ [OrdersNext]_orderVars =>
          [\A o \in Orders : ~Stranded(o) /\ Stranded(o)' =>
              \/ status[o] # "preparing"
              \/ \E h \in Handlers : OnOrder(h, o) /\ Fail(h)]_orderVars
  BY StrandedByFailure
<1> QED
  BY <1>1, AlwaysInv, PTL DEF OrdersSpec, NoOrderStranded

-----------------------------------------------------------------------------
(* How many active orders a table can have.  The lookup and the insertion  *)
(* are apart, so overlapping requests break "one"; but a request adds a    *)
(* contender for the table only when it finds no active order there, and   *)
(* then every contender there is belongs to another request in flight.     *)

\* A handler about to make the order active on the table, or active again.
MayEnliven(h, o, t) ==
    /\ OnOrder(h, o)
    /\ \/ req[h].at = "create.insert" /\ req[h].table = t
       \/ req[h].at \in {"status.write", "ready.write"} /\ table[o] = t

Contenders(t) ==
    LiveOnTable(t) \cup {o \in Orders : \E h \in Handlers : MayEnliven(h, o, t)}

\* With no active order on the table, handlers other than an idle one account for all
\* its contenders.
LEMMA ContendersInFlight ==
    ASSUME NEW t \in Tables, NEW h \in Handlers, req[h] = Idle, LiveOnTable(t) = {},
           IsFiniteSet(Handlers)
    PROVE  /\ IsFiniteSet(Contenders(t))
           /\ Cardinality(Contenders(t)) < Cardinality(Handlers)
<1> DEFINE busy == {g \in Handlers : \E o \in Orders : MayEnliven(g, o, t)}
<1> DEFINE f == [g \in busy |-> req[g].order]
<1>1. busy \in SUBSET (Handlers \ {h})
  BY DEF MayEnliven, OnOrder, InFlight, Idle
<1>2. IsFiniteSet(Handlers \ {h}) /\ Cardinality(Handlers \ {h}) = Cardinality(Handlers) - 1
  BY FS_RemoveElement
<1>3. IsFiniteSet(busy) /\ Cardinality(busy) <= Cardinality(Handlers \ {h})
  BY <1>1, <1>2, FS_Subset
<1>4. f \in Surjection(busy, Contenders(t))
  <2>1. \A g \in busy : f[g] \in Contenders(t)
    BY DEF Contenders, MayEnliven, OnOrder
  <2>2. \A o \in Contenders(t) : \E g \in busy : f[g] = o
    BY DEF Contenders, MayEnliven, OnOrder
  <2> QED
    BY <2>1, <2>2 DEF Surjection
<1>5. IsFiniteSet(Contenders(t)) /\ Cardinality(Contenders(t)) <= Cardinality(busy)
  BY <1>3, <1>4, FS_Surjection
<1>6. Cardinality(Handlers) \in Nat /\ Cardinality(busy) \in Nat /\ Cardinality(Contenders(t)) \in Nat
  BY <1>3, <1>5, FS_CardinalityType
<1> QED
  BY <1>2, <1>3, <1>5, <1>6

\* A write of the status makes active no order that was not contending.
LEMMA WritesEnliven ==
    ASSUME Inv, NEW h \in Handlers, Start(h) \/ Proceed(h) \/ Fail(h), NEW t \in Tables,
           NEW o \in LiveOnTable(t)'
    PROVE  o \in Contenders(t)
<1> USE DEF Inv, OrdersTypeOK
<1>1. o \in Orders /\ status'[o] \in Active /\ table'[o] = t
  BY DEF LiveOnTable
<1>2. CASE status'[o] = status[o] /\ table'[o] = table[o]
  BY <1>1, <1>2 DEF Contenders, LiveOnTable
<1>3. CASE \E cart \in Carts : CreateInsert(h, cart)
  <2>1. CASE req[h].order = o
    BY <1>1, <1>3, <2>1 DEF CreateInsert, Contenders, MayEnliven, OnOrder, InFlight
  <2>2. CASE req[h].order # o
    BY <1>2, <1>3, <2>2 DEF CreateInsert, SetStatus
  <2> QED
    BY <2>1, <2>2
<1>4. CASE StatusWrite(h) \/ ReadyWrite(h)
  <2>1. CASE req[h].order = o
    BY <1>1, <1>4, <2>1 DEF StatusWrite, ReadyWrite, Contenders, MayEnliven, OnOrder, InFlight
  <2>2. CASE req[h].order # o
    <3>1. table'[o] = table[o]
      BY <1>4 DEF StatusWrite, ReadyWrite
    <3>2. status'[o] = status[o]
      BY <1>1, <1>4, <2>2 DEF StatusWrite, ReadyWrite, WriteStatus, SetStatus
    <3> QED
      BY <1>2, <3>1, <3>2
  <2> QED
    BY <2>1, <2>2
<1>5. CASE CancelWrite(h)
  BY <1>1, <1>2, <1>5 DEF CancelWrite, WriteStatus, SetStatus, Active
<1>6. CASE ItemWrite(h) \/ UNCHANGED orderRows
  BY <1>2, <1>6 DEF ItemWrite, orderRows
<1> QED
  BY <1>3, <1>4, <1>5, <1>6, ReadsOrWrites DEF Writes

\* A request comes to contend for a table with an order that is active there already,
\* or by having found the table free.
LEMMA ReadsContend ==
    ASSUME Inv, ~Faults, NEW h \in Handlers, Start(h) \/ Proceed(h) \/ Fail(h), NEW t \in Tables,
           NEW o \in Orders, NEW g \in Handlers, MayEnliven(g, o, t)'
    PROVE  \/ o \in Contenders(t)
           \/ CreateCheck(h, o, t) /\ LiveOnTable(t) = {} /\ req[h] = Idle
<1> USE DEF Inv, OrdersTypeOK
<1>1. CASE g # h
  <2>1. req'[g] = req[g]
    BY <1>1, OneHandlerMoves
  <2>2. CASE table'[o] = table[o]
    BY <2>1, <2>2 DEF MayEnliven, OnOrder, InFlight, Contenders
  <2>3. CASE table'[o] # table[o]
    <3>1. \E cart \in Carts : CreateInsert(h, cart)
      BY <2>3, ReadsOrWrites DEF Writes, orderRows, StatusWrite, CancelWrite, ItemWrite, ReadyWrite
    <3>2. req[h].order = o
      BY <2>3, <3>1 DEF CreateInsert
    <3>3. ~OnOrder(g, o)
      BY <1>1, <3>1, <3>2 DEF CreateInsert, InsertsAreFresh
    <3> QED
      BY <2>1, <3>3 DEF MayEnliven, OnOrder, InFlight
  <2> QED
    BY <2>2, <2>3
<1>2. CASE g = h
  <2>1. req'[h].order = o
    BY <1>2 DEF MayEnliven, OnOrder
  <2>2. CASE req'[h].at = "create.insert"
    <3>1. PICK p \in Orders, u \in Tables \cup {NoTable} : CreateCheck(h, p, u)
      BY <2>2 DEF Start, Proceed, Fail, StatusRead, CancelRead, ItemRead, CreateInsert, StatusWrite,
                  CancelSum, CancelWrite, ItemWrite, ReadySum, ReadyRead, ReadyWrite, Continue, Done,
                  Idle
    <3>2. req'[h] = [at |-> "create.insert", order |-> p, table |-> u]
      BY <3>1 DEF CreateCheck, Continue
    <3>3. p = o /\ u = t
      BY <1>2, <2>1, <3>2 DEF MayEnliven
    <3>4. ActiveOnTable(t) = {} /\ req[h] = Idle
      BY <3>1, <3>3, OrdersAssumption DEF CreateCheck
    <3>5. LiveOnTable(t) = {}
      BY <3>4 DEF ActiveOnTable, Found, LiveOnTable, DeletedAreCancelled, Active
    <3> QED
      BY <3>1, <3>3, <3>4, <3>5
  <2>3. CASE req'[h].at = "status.write"
    <3>1. PICK p \in Orders, s \in Statuses : StatusRead(h, p, s)
      BY <2>3 DEF Start, Proceed, Fail, CreateCheck, CancelRead, ItemRead, CreateInsert, StatusWrite,
                  CancelSum, CancelWrite, ItemWrite, ReadySum, ReadyRead, ReadyWrite, Continue, Done,
                  Idle
    <3>2. p = o
      BY <2>1, <3>1 DEF StatusRead, Continue
    <3>3. status[o] \in Active /\ UNCHANGED table
      BY <3>1, <3>2 DEF StatusRead, ValidTransitions, Active, orderRows
    <3> QED
      BY <1>2, <2>3, <3>3 DEF MayEnliven, Contenders, LiveOnTable
  <2>4. CASE req'[h].at = "ready.write"
    <3>1. ReadyRead(h)
      BY <2>4 DEF Start, Proceed, Fail, CreateCheck, StatusRead, CancelRead, ItemRead, CreateInsert,
                  StatusWrite, CancelSum, CancelWrite, ItemWrite, ReadySum, ReadyWrite, Continue,
                  Done, Idle
    <3>2. status[o] = "preparing" /\ UNCHANGED table
      BY <2>1, <2>4, <3>1 DEF ReadyRead, Continue, Done, Idle, orderRows
    <3> QED
      BY <1>2, <2>4, <3>2 DEF MayEnliven, Contenders, LiveOnTable, Active
  <2> QED
    BY <1>2, <2>2, <2>3, <2>4 DEF MayEnliven
<1> QED
  BY <1>1, <1>2

ContendersBounded ==
    \A t \in Tables :
        /\ IsFiniteSet(Contenders(t))
        /\ Cardinality(Contenders(t)) <= Cardinality(Handlers)

LEMMA ContendersStep ==
    ASSUME Inv, ContendersBounded, OrdersNext, ~Faults, IsFiniteSet(Handlers)
    PROVE  ContendersBounded'
<1>1. PICK h \in Handlers : Start(h) \/ Proceed(h) \/ Fail(h)
  BY DEF OrdersNext
<1>2. Cardinality(Handlers) \in Nat
  BY FS_CardinalityType
<1>3. ASSUME NEW t \in Tables
      PROVE  /\ IsFiniteSet(Contenders(t)')
             /\ Cardinality(Contenders(t)') <= Cardinality(Handlers)
  <2>1. \A o \in Contenders(t)' :
            \/ o \in LiveOnTable(t)'
            \/ o \in Orders /\ (\E g \in Handlers : MayEnliven(g, o, t)')
    BY DEF Contenders
  <2>2. CASE \E o \in Orders : CreateCheck(h, o, t) /\ LiveOnTable(t) = {} /\ req[h] = Idle
    <3>1. PICK o \in Orders : CreateCheck(h, o, t) /\ LiveOnTable(t) = {} /\ req[h] = Idle
      BY <2>2
    <3>2. IsFiniteSet(Contenders(t)) /\ Cardinality(Contenders(t)) < Cardinality(Handlers)
      BY <3>1, ContendersInFlight
    <3>3. \A p \in Orders : CreateCheck(h, p, t) => p = o
      BY <3>1 DEF CreateCheck, Continue, Inv, OrdersTypeOK
    <3>4. Contenders(t)' \in SUBSET (Contenders(t) \cup {o})
      BY <1>1, <2>1, <3>3, WritesEnliven, ReadsContend
    <3>5. /\ IsFiniteSet(Contenders(t) \cup {o})
          /\ Cardinality(Contenders(t) \cup {o}) <= Cardinality(Contenders(t)) + 1
          /\ Cardinality(Contenders(t)) \in Nat /\ Cardinality(Contenders(t) \cup {o}) \in Nat
      <4>1. Cardinality(Contenders(t)) \in Nat
        BY <3>2, FS_CardinalityType
      <4>2. /\ IsFiniteSet(Contenders(t) \cup {o})
            /\ Cardinality(Contenders(t) \cup {o}) =
                   IF o \in Contenders(t) THEN Cardinality(Contenders(t))
                                          ELSE Cardinality(Contenders(t)) + 1
        BY <3>2, FS_AddElement
      <4> HIDE DEF Contenders
      <4> QED
        BY <4>1, <4>2
    <3>6. /\ IsFiniteSet(Contenders(t)')
          /\ Cardinality(Contenders(t)') <= Cardinality(Contenders(t) \cup {o})
      BY <3>4, <3>5, FS_Subset
    <3>7. Cardinality(Contenders(t)') \in Nat
      BY <3>6, FS_CardinalityType
    <3> QED
      BY <1>2, <3>2, <3>5, <3>6, <3>7
  <2>3. CASE ~\E o \in Orders : CreateCheck(h, o, t) /\ LiveOnTable(t) = {} /\ req[h] = Idle
    <3>1. Contenders(t)' \in SUBSET Contenders(t)
      BY <1>1, <2>1, <2>3, WritesEnliven, ReadsContend
    <3>2. IsFiniteSet(Contenders(t)) /\ Cardinality(Contenders(t)) <= Cardinality(Handlers)
      BY DEF ContendersBounded
    <3>3. IsFiniteSet(Contenders(t)') /\ Cardinality(Contenders(t)') <= Cardinality(Contenders(t))
      BY <3>1, <3>2, FS_Subset
    <3>4. Cardinality(Contenders(t)) \in Nat /\ Cardinality(Contenders(t)') \in Nat
      BY <3>2, <3>3, FS_CardinalityType
    <3> QED
      BY <1>2, <3>2, <3>3, <3>4
  <2> QED
    BY <2>2, <2>3
<1> QED
  BY <1>3 DEF ContendersBounded

LEMMA ContendersInit ==
    ASSUME IsFiniteSet(Handlers), OrdersInit
    PROVE  ContendersBounded
<1>1. Cardinality(Handlers) \in Nat
  BY FS_CardinalityType
<1>2. ASSUME NEW t \in Tables PROVE Contenders(t) = {}
  BY DEF OrdersInit, Contenders, LiveOnTable, MayEnliven, OnOrder, InFlight, Active, Idle
<1> QED
  BY <1>1, <1>2, FS_EmptySet DEF ContendersBounded

\* What is left of "1 table = 1 active order" when requests overlap: while no lookup fails,
\* a table has at most as many active orders as requests the server handles at a time.
THEOREM TablesBounded ==
    ASSUME ~Faults, IsFiniteSet(Handlers)
    PROVE  OrdersSpec => [](\A t \in Tables :
                                Cardinality(LiveOnTable(t)) <= Cardinality(Handlers))
<1>1. Inv /\ ContendersBounded /\ [OrdersNext]_orderVars => ContendersBounded'
  <2>1. ASSUME ContendersBounded, UNCHANGED orderVars PROVE ContendersBounded'
    BY <2>1 DEF orderVars, ContendersBounded, Contenders, LiveOnTable, MayEnliven, OnOrder, InFlight
  <2> QED
    BY <2>1, ContendersStep
<1>2. ContendersBounded =>
          \A t \in Tables : Cardinality(LiveOnTable(t)) <= Cardinality(Handlers)
  <2> SUFFICES ASSUME ContendersBounded, NEW t \in Tables
               PROVE  Cardinality(LiveOnTable(t)) <= Cardinality(Handlers)
    OBVIOUS
  <2>1. IsFiniteSet(Contenders(t)) /\ Cardinality(Contenders(t)) <= Cardinality(Handlers)
    BY DEF ContendersBounded
  <2>2. LiveOnTable(t) \in SUBSET Contenders(t)
    BY DEF Contenders
  <2>3. IsFiniteSet(LiveOnTable(t)) /\ Cardinality(LiveOnTable(t)) <= Cardinality(Contenders(t))
    BY <2>1, <2>2, FS_Subset
  <2> QED
    BY <2>1, <2>3, FS_CardinalityType
<1>3. OrdersInit => ContendersBounded
  BY ContendersInit
<1> QED
  BY <1>1, <1>2, <1>3, AlwaysInv, PTL DEF OrdersSpec
=============================================================================
