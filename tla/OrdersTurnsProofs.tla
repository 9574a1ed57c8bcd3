------------------------- MODULE OrdersTurnsProofs --------------------------
(***************************************************************************)
(* What the order service guarantees when requests on the same order, and  *)
(* creations for the same table, do not overlap: the lifecycle of          *)
(* OrderLifecycle.  Each theorem names the assumption it needs; without it *)
(* TLC finds a counterexample (runs orders_table_race, orders_stale_write).*)
(***************************************************************************)
EXTENDS OrdersProofs

Alone(h) == \A g \in Handlers : OnOrder(g, req[h].order) => g = h

(***************************************************************************)
(* What a handler read is still true when it writes.                       *)
(***************************************************************************)
StatusFresh ==
    \A h \in Handlers : req[h].at = "status.write" =>
        Alone(h) /\ req[h].next \in ValidTransitions(status[req[h].order])

CancelFresh ==
    \A h \in Handlers : req[h].at \in {"cancel.sum", "cancel.write"} =>
        /\ Alone(h)
        /\ status[req[h].order] \in Cancellable
        /\ req[h].at = "cancel.write" => ~AboveCancelThreshold(req[h].order)

\* Two handlers may both find the last item done: the second writes "ready" again.
ReadyFresh ==
    \A h \in Handlers : req[h].at = "ready.write" =>
        status[req[h].order] \in {"preparing", "ready"}

TurnInv ==
    /\ Inv
    /\ StatusFresh
    /\ CancelFresh
    /\ ReadyFresh

-----------------------------------------------------------------------------
(* How a step looks to the other handlers.                                 *)

\* A handler touches no other order than its own.
LEMMA OthersUntouched ==
    ASSUME Inv, NEW h \in Handlers, Writes(h), NEW o \in Orders, req[h].order # o
    PROVE  /\ status'[o] = status[o] /\ deleted'[o] = deleted[o] /\ table'[o] = table[o]
           /\ quantity'[o] = quantity[o] /\ served'[o] = served[o]
<1> USE DEF Inv, OrdersTypeOK
<1>1. CASE \E cart \in Carts : CreateInsert(h, cart)
  BY <1>1 DEF CreateInsert, SetStatus
<1>2. CASE StatusWrite(h) \/ ReadyWrite(h)
  BY <1>2 DEF StatusWrite, ReadyWrite, WriteStatus, SetStatus
<1>3. CASE CancelWrite(h)
  BY <1>3 DEF CancelWrite, WriteStatus, SetStatus
<1>4. CASE ItemWrite(h)
  BY <1>4 DEF ItemWrite
<1> QED
  BY <1>1, <1>2, <1>3, <1>4 DEF Writes

\* Every write is a step along the transition table.
LEMMA WritesAreTransitions ==
    ASSUME TurnInv, NEW h \in Handlers, Writes(h), NEW o \in Orders
    PROVE  \/ status'[o] = status[o]
           \/ status[o] = "none" /\ status'[o] = "pending"
           \/ status'[o] \in ValidTransitions(status[o])
<1> SUFFICES ASSUME req[h].order = o PROVE
        \/ status'[o] = status[o]
        \/ status[o] = "none" /\ status'[o] = "pending"
        \/ status'[o] \in ValidTransitions(status[o])
  BY OthersUntouched DEF TurnInv
<1> USE DEF TurnInv, Inv, OrdersTypeOK
<1>1. CASE \E cart \in Carts : CreateInsert(h, cart)
  BY <1>1 DEF CreateInsert, SetStatus, InsertsAreFresh
<1>2. CASE StatusWrite(h)
  BY <1>2 DEF StatusWrite, WriteStatus, SetStatus, StatusFresh
<1>3. CASE CancelWrite(h)
  <2>1. "cancelled" \in ValidTransitions(status[o])
    BY <1>3 DEF CancelWrite, CancelFresh, Cancellable, ValidTransitions
  <2> QED
    BY <1>3, <2>1 DEF CancelWrite, WriteStatus, SetStatus
<1>4. CASE ItemWrite(h)
  BY <1>4 DEF ItemWrite
<1>5. CASE ReadyWrite(h)
  <2>1. status[o] \in {"preparing", "ready"}
    BY <1>5 DEF ReadyWrite, ReadyFresh
  <2>2. "ready" \in ValidTransitions("preparing")
    BY DEF ValidTransitions
  <2> QED
    BY <1>5, <2>1, <2>2 DEF ReadyWrite, WriteStatus, SetStatus
<1> QED
  BY <1>1, <1>2, <1>3, <1>4, <1>5 DEF Writes

-----------------------------------------------------------------------------
LEMMA TurnInit == OrdersInit => TurnInv
BY InitInv DEF OrdersInit, TurnInv, StatusFresh, CancelFresh, ReadyFresh, Idle

LEMMA KeepsOrder ==
    ASSUME Inv, NEW h \in Handlers, Proceed(h)
    PROVE  req'[h] = Idle \/ (req[h].at # "idle" /\ req'[h].order = req[h].order)
<1> USE DEF Inv, OrdersTypeOK, Continue, Done
<1>1. CASE (\E cart \in Carts : CreateInsert(h, cart)) \/ StatusWrite(h) \/ CancelWrite(h) \/ ReadyWrite(h)
  BY <1>1 DEF CreateInsert, StatusWrite, CancelWrite, ReadyWrite
<1>2. CASE CancelSum(h)
  BY <1>2 DEF CancelSum
<1>3. CASE ItemWrite(h)
  BY <1>3 DEF ItemWrite
<1>4. CASE ReadySum(h)
  BY <1>4 DEF ReadySum
<1>5. CASE ReadyRead(h)
  BY <1>5 DEF ReadyRead
<1> QED
  BY <1>1, <1>2, <1>3, <1>4, <1>5 DEF Proceed

\* A handler keeps its order until it is done, and starts only when the turns of
\* the others allow it: whoever is alone on an order stays alone.
LEMMA StaysAlone ==
    ASSUME ~Overlap, Inv, NEW h \in Handlers, Start(h) \/ Proceed(h) \/ Fail(h),
           NEW g \in Handlers, g # h, Alone(g),
           req[g].at \in {"status.write", "cancel.sum", "cancel.write"}
    PROVE  Alone(g)'
<1> DEFINE p == req[g].order
<1> USE DEF Inv, OrdersTypeOK, OnOrder, InFlight
<1>1. p \in Orders /\ OnOrder(g, p)
  BY ContinuationFields
<1>2. ~OnOrder(h, p)
  BY <1>1 DEF Alone
<1>3. \A i \in Handlers : i # h => req'[i] = req[i]
  BY OneHandlerMoves
<1>4. ~OnOrder(h, p)'
  <2>1. CASE Start(h)
    <3>1. ~Exclusive(p) /\ ~Shared(p) /\ ~Fresh(p)
      BY <1>1 DEF Exclusive, Shared, Fresh
    <3> QED
      BY <2>1, <3>1 DEF Start, CreateCheck, StatusRead, CancelRead, ItemRead, Continue
  <2>2. CASE Fail(h)
    BY <2>2 DEF Fail, Continue, Done, Idle
  <2>3. CASE Proceed(h)
    <3>1. req'[h] = Idle \/ (req[h].at # "idle" /\ req'[h].order = req[h].order)
      BY <2>3, KeepsOrder
    <3>2. req'[h] = Idle => ~OnOrder(h, p)'
      BY DEF Idle
    <3>3. req[h].at # "idle" => req[h].order # p
      BY <1>2
    <3> QED
      BY <1>3, <3>1, <3>2, <3>3
  <2> QED
    BY <2>1, <2>2, <2>3
<1> QED
  BY <1>3, <1>4 DEF Alone

\* Nothing an order's sole handler relies on changes under it.
LEMMA RowsStay ==
    ASSUME Inv, NEW h \in Handlers, Start(h) \/ Proceed(h) \/ Fail(h),
           NEW g \in Handlers, g # h, Alone(g), req[g].at # "idle"
    PROVE  LET p == req[g].order IN
           status'[p] = status[p] /\ quantity'[p] = quantity[p] /\ served'[p] = served[p]
<1> DEFINE p == req[g].order
<1>1. p \in Orders
  BY ContinuationFields DEF Inv, OrdersTypeOK
<1>2. CASE UNCHANGED orderRows
  BY <1>2 DEF orderRows
<1>3. CASE Writes(h)
  <2>1. req[h].at # "idle"
    BY <1>3 DEF Writes, CreateInsert, StatusWrite, CancelWrite, ItemWrite, ReadyWrite
  <2>2. req[h].order # p
    BY <2>1 DEF Alone, OnOrder, InFlight
  <2> QED
    BY <1>1, <1>3, <2>2, OthersUntouched
<1> QED
  BY <1>2, <1>3, ReadsOrWrites

\* A cancellation still deletes what it read: an order that may be cancelled, below the
\* threshold.
LEMMA CancelFreshStep ==
    ASSUME ~Overlap, Inv, CancelFresh, NEW h \in Handlers, Start(h) \/ Proceed(h) \/ Fail(h)
    PROVE  CancelFresh'
<1>1. \A g \in Handlers : g # h => req'[g] = req[g]
  BY OneHandlerMoves
<1>2. \A o \in Orders : Exclusive(o) <=> \A g \in Handlers : ~OnOrder(g, o)
  BY DEF Exclusive
<1>3. req \in [Handlers -> Continuation]
  BY DEF Inv, OrdersTypeOK
<1>4. ASSUME NEW g \in Handlers, g # h, req'[g].at \in {"cancel.sum", "cancel.write"}
      PROVE  /\ Alone(g)'
             /\ status'[req'[g].order] \in Cancellable
             /\ req'[g].at = "cancel.write" => ~AboveCancelThreshold(req[g].order)'
  BY <1>1, <1>4, StaysAlone, RowsStay
     DEF CancelFresh, AboveCancelThreshold, SumServed, SumQuantity
<1>5. ASSUME req'[h].at = "cancel.sum"
      PROVE  Alone(h)' /\ status'[req'[h].order] \in Cancellable
  <2>1. PICK o \in Orders : CancelRead(h, o)
    BY <1>3, <1>5 DEF Start, Proceed, Fail, CreateCheck, StatusRead, ItemRead, CreateInsert,
                      StatusWrite, CancelSum, CancelWrite, ItemWrite, ReadySum, ReadyRead,
                      ReadyWrite, Continue, Done, Idle
  <2>2. req'[h] = [at |-> "cancel.sum", order |-> o]
    BY <1>3, <2>1 DEF CancelRead, Continue
  <2>3. status' = status /\ status[o] \in Cancellable
    BY <2>1 DEF CancelRead, orderRows
  <2>4. \A g \in Handlers : OnOrder(g, o)' => g = h
    BY <1>1, <1>2, <2>1 DEF CancelRead, OnOrder, InFlight
  <2> QED
    BY <2>2, <2>3, <2>4 DEF Alone
<1>6. ASSUME req'[h].at = "cancel.write"
      PROVE  /\ Alone(h)'
             /\ status'[req'[h].order] \in Cancellable
             /\ ~AboveCancelThreshold(req[h].order)'
  <2>1. CancelSum(h)
    BY <1>3, <1>6 DEF Start, Proceed, Fail, CreateCheck, StatusRead, CancelRead, ItemRead,
                      CreateInsert, StatusWrite, CancelWrite, ItemWrite, ReadySum, ReadyRead,
                      ReadyWrite, Continue, Done, Idle
  <2> DEFINE o == req[h].order
  <2>2. req'[h] = [at |-> "cancel.write", order |-> o, summed |-> served[o]] /\ ~AboveCancelThreshold(o)
    BY <1>3, <1>6, <2>1 DEF CancelSum, Continue, Done, Idle
  <2>3. UNCHANGED orderRows
    BY <2>1 DEF CancelSum
  <2>4. ~AboveCancelThreshold(o)' /\ status' = status
    BY <2>2, <2>3 DEF orderRows, AboveCancelThreshold, SumServed, SumQuantity
  <2>5. Alone(h) /\ status[o] \in Cancellable
    BY <2>1 DEF CancelSum, CancelFresh
  <2>6. \A g \in Handlers : OnOrder(g, o)' => g = h
    BY <1>1, <2>2, <2>5 DEF Alone, OnOrder, InFlight
  <2> QED
    BY <2>2, <2>4, <2>5, <2>6 DEF Alone
<1> QED
  BY <1>4, <1>5, <1>6 DEF CancelFresh

LEMMA TurnStep ==
    ASSUME ~Overlap, TurnInv, NEW h \in Handlers, Start(h) \/ Proceed(h) \/ Fail(h)
    PROVE  TurnInv'
<1> USE DEF TurnInv
<1>1. Inv'
  BY NextInv DEF OrdersNext
<1>2. \A g \in Handlers : g # h => req'[g] = req[g]
  BY OneHandlerMoves
<1>3. \A o \in Orders : Exclusive(o) <=> \A g \in Handlers : ~OnOrder(g, o)
  BY DEF Exclusive
<1>4. req \in [Handlers -> Continuation]
  BY DEF Inv, OrdersTypeOK
<1>5. StatusFresh'
  <2>1. ASSUME NEW g \in Handlers, g # h, req'[g].at = "status.write"
        PROVE  Alone(g)' /\ req'[g].next \in ValidTransitions(status'[req'[g].order])
    BY <1>2, <2>1, StaysAlone, RowsStay DEF StatusFresh
  <2>2. ASSUME req'[h].at = "status.write"
        PROVE  Alone(h)' /\ req'[h].next \in ValidTransitions(status'[req'[h].order])
    <3>1. PICK o \in Orders, s \in Statuses : StatusRead(h, o, s)
      BY <1>4, <2>2 DEF Start, Proceed, Fail, CreateCheck, CancelRead, ItemRead, CreateInsert,
                        StatusWrite, CancelSum, CancelWrite, ItemWrite, ReadySum, ReadyRead,
                        ReadyWrite, Continue, Done, Idle
    <3>2. req'[h] = [at |-> "status.write", order |-> o, next |-> s]
      BY <1>4, <3>1 DEF StatusRead, Continue
    <3>3. status' = status /\ s \in ValidTransitions(status[o])
      BY <3>1 DEF StatusRead, orderRows
    <3>4. \A g \in Handlers : OnOrder(g, o)' => g = h
      BY <1>2, <1>3, <3>1 DEF StatusRead, OnOrder, InFlight
    <3> QED
      BY <3>2, <3>3, <3>4 DEF Alone
  <2> QED
    BY <2>1, <2>2 DEF StatusFresh
<1>6. CancelFresh'
  BY CancelFreshStep
<1>7. ReadyFresh'
  <2>1. ASSUME NEW g \in Handlers, g # h, req'[g].at = "ready.write"
        PROVE  status'[req'[g].order] \in {"preparing", "ready"}
    <3> DEFINE p == req[g].order
    <3>1. /\ req'[g] = req[g] /\ p \in Orders /\ OnOrder(g, p)
          /\ status[p] \in {"preparing", "ready"}
      BY <1>2, <1>4, <2>1, ContinuationFields DEF ReadyFresh, OnOrder, InFlight
    <3>2. CASE UNCHANGED orderRows
      BY <3>1, <3>2 DEF orderRows
    <3>3. CASE Writes(h) /\ req[h].order # p
      BY <3>1, <3>3, OthersUntouched
    <3>4. CASE Writes(h) /\ req[h].order = p
      <4>1. ItemWrite(h) \/ ReadyWrite(h)
        BY <2>1, <3>1, <3>4 DEF Writes, CreateInsert, StatusWrite, CancelWrite, Inv, InsertsAreFresh,
                                StatusFresh, CancelFresh, Alone
      <4> QED
        BY <3>1, <3>4, <4>1 DEF ItemWrite, ReadyWrite, WriteStatus, SetStatus, Inv, OrdersTypeOK
    <3> QED
      BY <3>1, <3>2, <3>3, <3>4, ReadsOrWrites
  <2>2. ASSUME req'[h].at = "ready.write"
        PROVE  status'[req'[h].order] \in {"preparing", "ready"}
    <3>1. ReadyRead(h)
      BY <1>4, <2>2 DEF Start, Proceed, Fail, CreateCheck, StatusRead, CancelRead, ItemRead,
                        CreateInsert, StatusWrite, CancelSum, CancelWrite, ItemWrite, ReadySum,
                        ReadyWrite, Continue, Done, Idle
    <3> QED
      BY <1>4, <2>2, <3>1 DEF ReadyRead, Continue, Done, Idle, orderRows
  <2> QED
    BY <2>1, <2>2 DEF ReadyFresh
<1> QED
  BY <1>1, <1>5, <1>6, <1>7

LEMMA TurnNext == ~Overlap /\ TurnInv /\ [OrdersNext]_orderVars => TurnInv'
<1>1. ASSUME TurnInv, UNCHANGED orderVars PROVE TurnInv'
  <2>1. Inv'
    BY <1>1, NextInv DEF TurnInv
  <2> QED
    BY <1>1, <2>1 DEF orderVars, TurnInv, StatusFresh, CancelFresh, ReadyFresh, Alone, OnOrder,
       InFlight, AboveCancelThreshold, SumServed, SumQuantity
<1> QED
  BY <1>1, TurnStep DEF OrdersNext

LEMMA AlwaysTurnInv == ASSUME ~Overlap PROVE OrdersSpec => []TurnInv
<1>1. TurnInv /\ [OrdersNext]_orderVars => TurnInv'
  BY TurnNext
<1> QED
  BY <1>1, TurnInit, PTL DEF OrdersSpec

-----------------------------------------------------------------------------
\* An order follows the transition table, without skipping a status, when requests
\* take turns on it.
THEOREM StateMachineFollowed == ASSUME ~Overlap PROVE OrdersSpec => FollowsStateMachine
<1>1. ASSUME TurnInv, OrdersNext, NEW o \in Orders, status'[o] # status[o]
      PROVE  \/ status[o] = "none" /\ status'[o] = "pending"
             \/ status'[o] \in ValidTransitions(status[o])
  <2>1. PICK h \in Handlers : Start(h) \/ Proceed(h) \/ Fail(h)
    BY <1>1 DEF OrdersNext
  <2>2. Writes(h)
    BY <1>1, <2>1, ReadsOrWrites DEF orderRows
  <2> QED
    BY <1>1, <2>2, WritesAreTransitions
<1>2. TurnInv /\ [OrdersNext]_orderVars =>
          [\A o \in Orders : status'[o] # status[o] =>
              \/ status[o] = "none" /\ status'[o] = "pending"
              \/ status'[o] \in ValidTransitions(status[o])]_orderVars
  BY <1>1
<1> QED
  BY <1>2, AlwaysTurnInv, PTL DEF OrdersSpec, FollowsStateMachine

-----------------------------------------------------------------------------
(* One order a table.  Besides the turns this needs the lookup before the  *)
(* insertion to work (~Faults): CreateOrder goes on when it fails.         *)

\* A table an order is about to be inserted on is free and has no other taker.
InsertsFindTableFree ==
    \A h \in Handlers : req[h].at = "create.insert" /\ req[h].table # NoTable =>
        /\ LiveOnTable(req[h].table) = {}
        /\ \A g \in Handlers :
               req[g].at = "create.insert" /\ req[g].table = req[h].table => g = h

TableInv ==
    /\ TurnInv
    /\ OneActiveOrderPerTable
    /\ InsertsFindTableFree

\* Only an insertion brings a table an active order.
LEMMA LiveShrinks ==
    ASSUME TurnInv, NEW h \in Handlers, Start(h) \/ Proceed(h) \/ Fail(h),
           ~\E cart \in Carts : CreateInsert(h, cart)
    PROVE  /\ UNCHANGED table
           /\ \A t \in Tables : LiveOnTable(t)' \subseteq LiveOnTable(t)
<1>1. CASE UNCHANGED orderRows
  BY <1>1 DEF orderRows, LiveOnTable
<1>2. CASE Writes(h)
  <2>1. UNCHANGED table
    BY <1>2 DEF Writes, StatusWrite, CancelWrite, ItemWrite, ReadyWrite
  <2>2. ASSUME NEW o \in Orders, status'[o] \in Active PROVE status[o] \in Active
    <3>1. CASE status'[o] = status[o]
      BY <2>2, <3>1
    <3>2. CASE status'[o] \in ValidTransitions(status[o])
      BY <3>2 DEF ValidTransitions, Active
    <3>3. CASE status[o] = "none"
      <4>1. req[h].at \notin {"idle", "create.insert"}
        BY <1>2 DEF Writes, StatusWrite, CancelWrite, ItemWrite, ReadyWrite
      <4>2. req[h].order # o
        BY <3>3, <4>1 DEF TurnInv, Inv, OthersHaveRows
      <4> QED
        BY <1>2, <2>2, <3>3, <4>2, OthersUntouched DEF TurnInv
    <3> QED
      BY <1>2, <3>1, <3>2, <3>3, WritesAreTransitions
  <2> QED
    BY <2>1, <2>2 DEF LiveOnTable, Active
<1> QED
  BY <1>1, <1>2, ReadsOrWrites

\* What an insertion does to the tables.
LEMMA InsertTakesTable ==
    ASSUME TableInv, NEW h \in Handlers, NEW cart \in Carts, CreateInsert(h, cart)
    PROVE  LET o == req[h].order IN
           /\ o \in Orders /\ status[o] = "none" /\ status'[o] = "pending"
           /\ req[h].table \in Tables \cup {NoTable} /\ table'[o] = req[h].table
           /\ \A t \in Tables : LiveOnTable(t)' =
                  LiveOnTable(t) \cup (IF t = req[h].table THEN {o} ELSE {})
<1> DEFINE o == req[h].order
<1> USE DEF TableInv, TurnInv, Inv, OrdersTypeOK
<1>1. o \in Orders /\ status[o] = "none" /\ req[h].table \in Tables \cup {NoTable}
  BY ContinuationFields DEF CreateInsert, InsertsAreFresh
<1>2. status' = [status EXCEPT ![o] = "pending"] /\ table' = [table EXCEPT ![o] = req[h].table]
  BY DEF CreateInsert, SetStatus
<1>3. ASSUME NEW t \in Tables
      PROVE  LiveOnTable(t)' =
                 LiveOnTable(t) \cup (IF t = req[h].table THEN {o} ELSE {})
  BY <1>1, <1>2 DEF LiveOnTable, Active
<1> QED
  BY <1>1, <1>2, <1>3

LEMMA TableStep ==
    ASSUME ~Overlap, ~Faults, TableInv, NEW h \in Handlers, Start(h) \/ Proceed(h) \/ Fail(h)
    PROVE  TableInv'
<1>1. TurnInv'
  BY TurnStep DEF TableInv
<1>2. req \in [Handlers -> Continuation] /\ \A g \in Handlers : g # h => req'[g] = req[g]
  BY OneHandlerMoves DEF TableInv, TurnInv, Inv, OrdersTypeOK
<1>3. CASE \E cart \in Carts : CreateInsert(h, cart)
  <2>1. PICK cart \in Carts : CreateInsert(h, cart)
    BY <1>3
  <2>2. req'[h] = Idle
    BY <1>2, <2>1 DEF CreateInsert, Continue, Done
  <2>3. OneActiveOrderPerTable'
    <3> SUFFICES ASSUME NEW t \in Tables,
                        NEW a \in LiveOnTable(t)', NEW b \in LiveOnTable(t)'
                 PROVE  a = b
      BY DEF OneActiveOrderPerTable
    <3>1. CASE t = req[h].table
      <4>1. LiveOnTable(t) = {}
        BY <2>1, <3>1, OrdersAssumption DEF CreateInsert, TableInv, InsertsFindTableFree
      <4> QED
        BY <2>1, <3>1, <4>1, InsertTakesTable
    <3>2. CASE t # req[h].table
      BY <2>1, <3>2, InsertTakesTable DEF TableInv, OneActiveOrderPerTable
    <3> QED
      BY <3>1, <3>2
  <2>4. InsertsFindTableFree'
    <3> SUFFICES ASSUME NEW i \in Handlers, req'[i].at = "create.insert", req'[i].table # NoTable
                 PROVE  /\ LiveOnTable(req[i].table)' = {}
                        /\ \A g \in Handlers :
                               req'[g].at = "create.insert" /\ req'[g].table = req'[i].table => g = i
      BY DEF InsertsFindTableFree
    <3>1. i # h /\ req'[i] = req[i]
      BY <1>2, <2>2 DEF Idle
    <3>2. req[i].table \in Tables
      BY <1>2, <3>1, ContinuationFields
    <3>3. req[i].table # req[h].table
      BY <2>1, <3>1 DEF CreateInsert, TableInv, InsertsFindTableFree
    <3>4. /\ LiveOnTable(req[i].table) = {}
          /\ \A g \in Handlers :
                 req[g].at = "create.insert" /\ req[g].table = req[i].table => g = i
      BY <3>1 DEF TableInv, InsertsFindTableFree
    <3>5. \A t \in Tables : t # req[h].table => LiveOnTable(t)' = LiveOnTable(t)
      BY <2>1, InsertTakesTable
    <3>6. LiveOnTable(req[i].table)' = {}
      BY <3>1, <3>2, <3>3, <3>4, <3>5 DEF LiveOnTable
    <3> QED
      BY <1>2, <2>2, <3>1, <3>4, <3>6 DEF Idle
  <2> QED
    BY <1>1, <2>3, <2>4 DEF TableInv
<1>4. CASE ~\E cart \in Carts : CreateInsert(h, cart)
  <2>1. \A t \in Tables : LiveOnTable(t)' \subseteq LiveOnTable(t)
    BY <1>4, LiveShrinks DEF TableInv
  <2>2. OneActiveOrderPerTable'
    BY <2>1 DEF TableInv, OneActiveOrderPerTable
  <2>3. ASSUME req'[h].at = "create.insert", req'[h].table # NoTable
        PROVE  /\ LiveOnTable(req'[h].table) = {}
               /\ \A g \in Handlers : g # h =>
                      ~(req[g].at = "create.insert" /\ req[g].table = req'[h].table)
    <3>1. PICK o \in Orders, t \in Tables \cup {NoTable} : CreateCheck(h, o, t)
      BY <1>2, <2>3 DEF Start, Proceed, Fail, StatusRead, CancelRead, ItemRead, CreateInsert,
                        StatusWrite, CancelSum, CancelWrite, ItemWrite, ReadySum, ReadyRead,
                        ReadyWrite, Continue, Done, Idle
    <3>2. req'[h].table = t
      BY <1>2, <3>1 DEF CreateCheck, Continue
    <3>3. ActiveOnTable(t) = {}
      BY <2>3, <3>1, <3>2 DEF CreateCheck
    <3>4. LiveOnTable(t) = {}
      BY <3>3 DEF ActiveOnTable, Found, LiveOnTable, Active, TableInv, TurnInv,
                  Inv, DeletedAreCancelled
    <3> QED
      BY <2>3, <3>1, <3>2, <3>4 DEF CreateCheck, TurnAt
  <2>4. InsertsFindTableFree'
    <3> SUFFICES ASSUME NEW i \in Handlers, req'[i].at = "create.insert", req'[i].table # NoTable
                 PROVE  /\ LiveOnTable(req[i].table)' = {}
                        /\ \A g \in Handlers :
                               req'[g].at = "create.insert" /\ req'[g].table = req'[i].table => g = i
      BY DEF InsertsFindTableFree
    <3>1. req'[i] \in Continuation /\ req'[i].table \in Tables
      BY <1>1, ContinuationFields DEF TurnInv, Inv, OrdersTypeOK
    <3>2. LiveOnTable(req[i].table)' \subseteq LiveOnTable(req'[i].table)
      BY <2>1, <3>1 DEF LiveOnTable
    <3>3. CASE i = h
      BY <1>2, <2>3, <3>2, <3>3
    <3>4. CASE i # h
      BY <1>2, <2>3, <3>2, <3>4 DEF TableInv, InsertsFindTableFree
    <3> QED
      BY <3>3, <3>4
  <2> QED
    BY <1>1, <2>2, <2>4 DEF TableInv
<1> QED
  BY <1>3, <1>4

LEMMA TableInit == OrdersInit => TableInv
BY TurnInit DEF OrdersInit, TableInv, OneActiveOrderPerTable, InsertsFindTableFree, Idle,
                LiveOnTable, Active

LEMMA AlwaysTableInv == ASSUME ~Overlap, ~Faults PROVE OrdersSpec => []TableInv
<1>1. TableInv /\ [OrdersNext]_orderVars => TableInv'
  <2>1. ASSUME TableInv, UNCHANGED orderVars PROVE TableInv'
    <3>1. TurnInv'
      BY <2>1, TurnNext DEF TableInv
    <3> QED
      BY <2>1, <3>1 DEF orderVars, TableInv, OneActiveOrderPerTable, InsertsFindTableFree,
                        LiveOnTable
  <2> QED
    BY <2>1, TableStep DEF OrdersNext
<1> QED
  BY <1>1, TableInit, PTL DEF OrdersSpec

-----------------------------------------------------------------------------
\* The transition table holds what the lifecycle allows.
LEMMA TransitionsAreSteps ==
    ASSUME NEW s, NEW n \in ValidTransitions(s)
    PROVE  \/ s \in Lifecycle!Live /\ n = Lifecycle!Following[s]
           \/ s \in Lifecycle!Withdrawable /\ n = "cancelled"
<1>1. s \in {"pending", "confirmed", "preparing", "ready"}
  BY DEF ValidTransitions
<1>2. CASE s = "pending"
  BY <1>2 DEF ValidTransitions, Lifecycle!Live, Lifecycle!Withdrawable, Lifecycle!Following
<1>3. CASE s = "confirmed"
  BY <1>3 DEF ValidTransitions, Lifecycle!Live, Lifecycle!Withdrawable, Lifecycle!Following
<1>4. CASE s = "preparing"
  BY <1>4 DEF ValidTransitions, Lifecycle!Live, Lifecycle!Withdrawable, Lifecycle!Following
<1>5. CASE s = "ready"
  BY <1>5 DEF ValidTransitions, Lifecycle!Live, Lifecycle!Following
<1> QED
  BY <1>1, <1>2, <1>3, <1>4, <1>5

\* What the lifecycle sees of the tables and of what is served.
LEMMA SameTables == \A t : Lifecycle!LiveOn(t) = LiveOnTable(t)
BY DEF Lifecycle!LiveOn, Lifecycle!Live, LiveOnTable, Active

\* Only the counting of portions moves orders across the 30%.
LEMMA CountsMoveLate ==
    ASSUME Inv, NEW o \in Orders, \A p \in Orders : p # o =>
               quantity'[p] = quantity[p] /\ served'[p] = served[p]
    PROVE  LateOrders' \in {LateOrders \cup {o}, LateOrders \ {o}}
<1>1. \A p \in Orders : p # o => (p \in LateOrders' <=> p \in LateOrders)
  BY DEF LateOrders, ThirtyServed, SumQuantity, SumServed
<1>2. LateOrders \subseteq Orders /\ LateOrders' \subseteq Orders
  BY DEF LateOrders
<1>3. CASE o \in LateOrders'
  BY <1>1, <1>2, <1>3
<1>4. CASE o \notin LateOrders'
  BY <1>1, <1>2, <1>4
<1> QED
  BY <1>3, <1>4

\* An order without a row, and a new one, have nothing served.
LEMMA NewIsNotLate ==
    ASSUME Inv, NEW o \in Orders, status[o] = "none"
    PROVE  \A l \in Lines : ~(served[o][l] > 0)
<1>1. \A l \in Lines : served[o][l] \in Nat /\ served[o][l] <= 0
  BY DEF Inv, ItemsHaveOrders, OrdersTypeOK
<1> QED
  BY <1>1

LEMMA InsertsAreNotLate ==
    ASSUME Inv, NEW h \in Handlers, NEW cart \in Carts, CreateInsert(h, cart)
    PROVE  LateOrders' = LateOrders
<1> DEFINE o == req[h].order
<1>1. o \in Orders /\ status[o] = "none" /\ UNCHANGED served
  BY ContinuationFields DEF CreateInsert, Inv, OrdersTypeOK, InsertsAreFresh
<1>2. o \notin LateOrders /\ o \notin LateOrders'
  BY <1>1, NewIsNotLate DEF LateOrders
<1>3. ASSUME NEW p \in Orders, p # o PROVE p \in LateOrders' <=> p \in LateOrders
  <2>1. quantity'[p] = quantity[p] /\ served'[p] = served[p]
    BY <1>1, <1>3 DEF CreateInsert, Inv, OrdersTypeOK
  <2> QED
    BY <2>1 DEF LateOrders, ThirtyServed, SumQuantity, SumServed
<1> QED
  BY <1>2, <1>3 DEF LateOrders

LEMMA SameCountsSameLate ==
    ASSUME UNCHANGED <<quantity, served>> PROVE LateOrders' = LateOrders
BY DEF LateOrders, ThirtyServed, SumQuantity, SumServed

\* Every step is a step of OrderLifecycle or leaves what it sees alone.
LEMMA StepMaps ==
    ASSUME TableInv, NEW h \in Handlers, Start(h) \/ Proceed(h) \/ Fail(h)
    PROVE  Lifecycle!Next \/ UNCHANGED <<status, table, deleted, LateOrders>>
<1> DEFINE o == req[h].order
<1> USE DEF TableInv, TurnInv, Inv, OrdersTypeOK, Lifecycle!Next
<1>1. CASE UNCHANGED orderRows
  BY <1>1, SameCountsSameLate DEF orderRows
<1>2. CASE \E cart \in Carts : CreateInsert(h, cart)
  <2>1. PICK cart \in Carts : CreateInsert(h, cart)
    BY <1>2
  <2>2. o \in Orders /\ status[o] = "none" /\ req[h].table \in Tables \cup {NoTable}
    BY <2>1, InsertTakesTable
  <2>3. req[h].table = NoTable \/ Lifecycle!LiveOn(req[h].table) = {}
    BY <2>1, SameTables DEF CreateInsert, InsertsFindTableFree
  <2>4. LateOrders' = LateOrders
    BY <2>1, InsertsAreNotLate
  <2>5. Lifecycle!Open(o, req[h].table)
    BY <2>1, <2>2, <2>3, <2>4 DEF CreateInsert, SetStatus, Lifecycle!Open
  <2> QED
    BY <2>2, <2>5
<1>3. CASE StatusWrite(h)
  <2>1. /\ o \in Orders /\ req[h].next \in ValidTransitions(status[o])
        /\ UNCHANGED <<table, deleted, LateOrders>>
    BY <1>3, ContinuationFields, SameCountsSameLate DEF StatusWrite, StatusFresh
  <2>2. CASE deleted[o]
    BY <1>3, <2>1, <2>2 DEF StatusWrite, WriteStatus
  <2>3. CASE ~deleted[o]
    <3>1. status' = [status EXCEPT ![o] = req[h].next]
      BY <1>3, <2>3 DEF StatusWrite, WriteStatus, SetStatus
    <3>2. Lifecycle!Advance(o) \/ Lifecycle!Strike(o)
      BY <2>1, <3>1, TransitionsAreSteps DEF Lifecycle!Advance, Lifecycle!Strike
    <3> QED
      BY <2>1, <3>2
  <2> QED
    BY <2>2, <2>3
<1>4. CASE CancelWrite(h)
  <2>1. /\ o \in Orders /\ status[o] \in Cancellable /\ UNCHANGED <<table, LateOrders>>
        /\ deleted' = [deleted EXCEPT ![o] = TRUE]
    BY <1>4, ContinuationFields, SameCountsSameLate DEF CancelWrite, CancelFresh
  <2>2. ~deleted[o]
    BY <2>1 DEF DeletedAreCancelled, Cancellable
  <2>3. o \notin LateOrders
    BY <1>4 DEF CancelWrite, CancelFresh, AboveCancelThreshold, LateOrders, ThirtyServed
  <2>4. Lifecycle!Withdraw(o)
    BY <1>4, <2>1, <2>2, <2>3 DEF CancelWrite, WriteStatus, SetStatus, Cancellable,
                            Lifecycle!Withdraw, Lifecycle!Withdrawable, Lifecycle!Live
  <2> QED
    BY <2>1, <2>4
<1>5. CASE ItemWrite(h)
  <2>1. o \in Orders /\ status[o] # "none" /\ UNCHANGED <<status, table, deleted>>
    BY <1>5, ContinuationFields DEF ItemWrite, OthersHaveRows
  <2>2. \A p \in Orders : p # o => quantity'[p] = quantity[p] /\ served'[p] = served[p]
    BY <1>5 DEF ItemWrite
  <2>3. Lifecycle!Count(o)
    BY <2>1, <2>2, CountsMoveLate DEF Lifecycle!Count
  <2> QED
    BY <2>1, <2>3
<1>6. CASE ReadyWrite(h)
  <2>1. /\ o \in Orders /\ status[o] \in {"preparing", "ready"}
        /\ UNCHANGED <<table, deleted, LateOrders>>
    BY <1>6, ContinuationFields, SameCountsSameLate DEF ReadyWrite, ReadyFresh
  <2>2. status' = [status EXCEPT ![o] = "ready"]
    BY <1>6, <2>1 DEF ReadyWrite, WriteStatus, SetStatus, DeletedAreCancelled
  <2>3. CASE status[o] = "ready"
    BY <2>1, <2>2, <2>3
  <2>4. CASE status[o] = "preparing"
    <3>1. "ready" = Lifecycle!Following["preparing"] /\ "preparing" \in Lifecycle!Live
      BY DEF Lifecycle!Following, Lifecycle!Live
    <3>2. Lifecycle!Advance(o)
      BY <2>1, <2>2, <2>4, <3>1 DEF Lifecycle!Advance
    <3> QED
      BY <2>1, <3>2
  <2> QED
    BY <2>1, <2>3, <2>4
<1> QED
  BY <1>1, <1>2, <1>3, <1>4, <1>5, <1>6, ReadsOrWrites DEF Writes

\* The order service implements OrderLifecycle: an order is opened on a free table,
\* moves forward one status at a time, is given up only before it is ready, and removed
\* only while less than 30% of it is served.
THEOREM ImplementsOrderLifecycle ==
    ASSUME ~Overlap, ~Faults PROVE OrdersSpec => ImplementsLifecycle
<1>1. OrdersInit => Lifecycle!Init
  <2> SUFFICES ASSUME OrdersInit PROVE Lifecycle!Init
    OBVIOUS
  <2>1. LateOrders = {}
    BY InitInv, NewIsNotLate DEF LateOrders, OrdersInit
  <2> QED
    BY <2>1 DEF OrdersInit, Lifecycle!Init
<1>2. TableInv /\ [OrdersNext]_orderVars => [Lifecycle!Next]_(Lifecycle!absVars)
  <2>1. ASSUME UNCHANGED orderVars PROVE UNCHANGED Lifecycle!absVars
    BY <2>1, SameCountsSameLate DEF orderVars, Lifecycle!absVars
  <2>2. ASSUME TableInv, OrdersNext PROVE [Lifecycle!Next]_(Lifecycle!absVars)
    BY <2>2, StepMaps DEF OrdersNext, Lifecycle!absVars
  <2> QED
    BY <2>1, <2>2
<1> QED
  BY <1>1, <1>2, AlwaysTableInv, PTL DEF OrdersSpec, ImplementsLifecycle, Lifecycle!Spec
=============================================================================
