------------------------ MODULE PaymentsTurnsProofs -------------------------
(***************************************************************************)
(* What the payment service can rely on of the order service when staff    *)
(* take turns on an order: an order with a payment is ready or delivered,  *)
(* although the payment is inserted two statements after the order was     *)
(* read, and the order delivered another two after it was read again.      *)
(* Requests of the payment service overlap all others.                     *)
(***************************************************************************)
EXTENDS OrdersTurnsProofs, PaymentsProofs

(***************************************************************************)
(* A payment may deliver the order under a handler that is about to write  *)
(* its status, so TurnInv does not hold here.  What remains of it: such a  *)
(* handler still writes nothing but "delivered", or is about to write      *)
(* "ready" after another one did.  What a cancellation read stays true: it *)
(* works on an order that cannot be paid for.                              *)
(***************************************************************************)
Payable == {"ready", "delivered"}

StatusLate ==
    \A h \in Handlers : req[h].at = "status.write" =>
        /\ Alone(h)
        /\ \/ req[h].next \in ValidTransitions(status[req[h].order])
           \/ req[h].next = "delivered" /\ status[req[h].order] = "delivered"

ReadyLate ==
    \A h \in Handlers : req[h].at = "ready.write" =>
        status[req[h].order] \in {"preparing"} \cup Payable

\* Orders with a payment, and those whose handler takes them to be ready.
TakenAsReady(h) == preq[h].at \in {"pay.check", "pay.insert", "deliver.write"}

PaidIsReady ==
    /\ PaymentOnlyFromReady
    /\ \A h \in PayHandlers : TakenAsReady(h) => status[preq[h].order] \in Payable

PaidInv ==
    /\ Inv
    /\ PayInv
    /\ StatusLate
    /\ CancelFresh
    /\ ReadyLate
    /\ PaidIsReady

-----------------------------------------------------------------------------
LEMMA StatusFacts ==
    /\ Payable \cap Cancellable = {}
    /\ \A s \in Payable : \A n : n \in ValidTransitions(s) => n = "delivered"
  BY DEF Payable, Cancellable, ValidTransitions

(***************************************************************************)
(* Steps of the order service.                                             *)
(***************************************************************************)

\* A ready or delivered order never becomes anything else.
LEMMA PayableStays ==
    ASSUME PaidInv, NEW h \in Handlers, Start(h) \/ Proceed(h) \/ Fail(h), NEW o \in Orders,
           status[o] \in Payable
    PROVE  status'[o] \in Payable
<1> USE DEF PaidInv, Inv, OrdersTypeOK
<1>1. CASE UNCHANGED orderRows
  BY <1>1 DEF orderRows
<1>2. CASE Writes(h) /\ req[h].order # o
  BY <1>2, OthersUntouched
<1>3. CASE Writes(h) /\ req[h].order = o
  <2>1. CASE \E cart \in Carts : CreateInsert(h, cart)
    BY <1>3, <2>1 DEF CreateInsert, InsertsAreFresh, Payable
  <2>2. CASE StatusWrite(h)
    <3>1. req[h].next = "delivered"
      BY <1>3, <2>2, StatusFacts DEF StatusWrite, StatusLate
    <3> QED
      BY <1>3, <2>2, <3>1 DEF StatusWrite, WriteStatus, SetStatus, Payable
  <2>3. CASE CancelWrite(h)
    BY <1>3, <2>3, StatusFacts DEF CancelWrite, CancelFresh
  <2>4. CASE ItemWrite(h)
    BY <2>4 DEF ItemWrite
  <2>5. CASE ReadyWrite(h)
    BY <1>3, <2>5 DEF ReadyWrite, WriteStatus, SetStatus, Payable
  <2> QED
    BY <1>3, <2>1, <2>2, <2>3, <2>4, <2>5 DEF Writes
<1> QED
  BY <1>1, <1>2, <1>3, ReadsOrWrites

LEMMA OrderStepPaid ==
    ASSUME ~Overlap, PaidInv, NEW h \in Handlers, Start(h) \/ Proceed(h) \/ Fail(h), UNCHANGED payVars
    PROVE  PaidInv'
<1> USE DEF PaidInv
<1>1. Inv'
  BY NextInv DEF OrdersNext
<1>2. PayInv'
  BY PayNextInv DEF Next, OrdersNext
<1>3. \A g \in Handlers : g # h => req'[g] = req[g]
  BY OneHandlerMoves
<1>4. req \in [Handlers -> Continuation]
  BY DEF Inv, OrdersTypeOK
<1>5. \A o \in Orders : Exclusive(o) <=> \A g \in Handlers : ~OnOrder(g, o)
  BY DEF Exclusive
<1>6. StatusLate'
  <2>1. ASSUME NEW g \in Handlers, g # h, req'[g].at = "status.write"
        PROVE  /\ Alone(g)'
               /\ \/ req'[g].next \in ValidTransitions(status'[req'[g].order])
                  \/ req'[g].next = "delivered" /\ status'[req'[g].order] = "delivered"
    BY <1>3, <2>1, StaysAlone, RowsStay DEF StatusLate
  <2>2. ASSUME req'[h].at = "status.write"
        PROVE  /\ Alone(h)'
               /\ req'[h].next \in ValidTransitions(status'[req'[h].order])
    <3>1. PICK o \in Orders, s \in Statuses : StatusRead(h, o, s)
      BY <1>4, <2>2 DEF Start, Proceed, Fail, CreateCheck, CancelRead, ItemRead, CreateInsert,
                        StatusWrite, CancelSum, CancelWrite, ItemWrite, ReadySum, ReadyRead,
                        ReadyWrite, Continue, Done, Idle
    <3>2. req'[h] = [at |-> "status.write", order |-> o, next |-> s]
      BY <1>4, <3>1 DEF StatusRead, Continue
    <3>3. status' = status /\ s \in ValidTransitions(status[o])
      BY <3>1 DEF StatusRead, orderRows
    <3>4. \A g \in Handlers : OnOrder(g, o)' => g = h
      BY <1>3, <1>5, <3>1 DEF StatusRead, OnOrder, InFlight
    <3> QED
      BY <3>2, <3>3, <3>4 DEF Alone
  <2> QED
    BY <2>1, <2>2 DEF StatusLate
<1>7. CancelFresh'
  BY CancelFreshStep
<1>8. ReadyLate'
  <2>1. ASSUME NEW g \in Handlers, g # h, req'[g].at = "ready.write"
        PROVE  status'[req'[g].order] \in {"preparing"} \cup Payable
    <3> DEFINE p == req[g].order
    <3>1. /\ req'[g] = req[g] /\ p \in Orders /\ OnOrder(g, p)
          /\ status[p] \in {"preparing"} \cup Payable
      BY <1>3, <1>4, <2>1, ContinuationFields DEF ReadyLate, OnOrder, InFlight
    <3>2. CASE UNCHANGED orderRows
      BY <3>1, <3>2 DEF orderRows
    <3>3. CASE Writes(h) /\ req[h].order # p
      BY <3>1, <3>3, OthersUntouched
    <3>4. CASE Writes(h) /\ req[h].order = p
      <4>1. ItemWrite(h) \/ ReadyWrite(h)
        BY <2>1, <3>1, <3>4 DEF Writes, CreateInsert, StatusWrite, CancelWrite, Inv, InsertsAreFresh,
                                StatusLate, CancelFresh, Alone
      <4> QED
        BY <3>1, <3>4, <4>1 DEF ItemWrite, ReadyWrite, WriteStatus, SetStatus, Inv, OrdersTypeOK, Payable
    <3> QED
      BY <3>1, <3>2, <3>3, <3>4, ReadsOrWrites
  <2>2. ASSUME req'[h].at = "ready.write"
        PROVE  status'[req'[h].order] \in {"preparing"} \cup Payable
    <3>1. ReadyRead(h)
      BY <1>4, <2>2 DEF Start, Proceed, Fail, CreateCheck, StatusRead, CancelRead, ItemRead,
                        CreateInsert, StatusWrite, CancelSum, CancelWrite, ItemWrite, ReadySum,
                        ReadyWrite, Continue, Done, Idle
    <3> QED
      BY <1>4, <2>2, <3>1 DEF ReadyRead, Continue, Done, Idle, orderRows
  <2> QED
    BY <2>1, <2>2 DEF ReadyLate
<1>9. PaidIsReady'
  <2>1. \A o \in Orders : status[o] \in Payable => status'[o] \in Payable
    BY PayableStays
  <2>2. \A g \in PayHandlers : TakenAsReady(g) => preq[g].order \in Orders
    BY PayContinuationFields DEF PayInv, PaymentsTypeOK, TakenAsReady
  <2> QED
    BY <2>1, <2>2 DEF PaidIsReady, PaymentOnlyFromReady, TakenAsReady, payVars, Payable
<1> QED
  BY <1>1, <1>2, <1>6, <1>7, <1>8, <1>9

(***************************************************************************)
(* Steps of the payment service.                                           *)
(***************************************************************************)

\* Everything but the delivery leaves the orders alone.
LEMMA OrdersUndisturbed ==
    ASSUME Inv, StatusLate, CancelFresh, ReadyLate, UNCHANGED orderVars
    PROVE  Inv' /\ StatusLate' /\ CancelFresh' /\ ReadyLate'
<1>1. Inv'
  BY NextInv
<1> QED
  BY <1>1 DEF orderVars, StatusLate, CancelFresh, ReadyLate, Alone, OnOrder, InFlight,
              AboveCancelThreshold, SumServed, SumQuantity

LEMMA PaymentReadStep ==
    ASSUME PaidInv, PayInv', NEW h \in PayHandlers, NEW k \in PayContinuation, PayContinue(h, k),
           UNCHANGED <<orderVars, payStatus>>,
           k.at \in {"pay.check", "pay.insert", "deliver.write"} => status[k.order] \in Payable
    PROVE  PaidInv'
<1> USE DEF PaidInv
<1>1. preq'[h] = k /\ \A g \in PayHandlers \ {h} : preq'[g] = preq[g]
  BY DEF PayInv, PaymentsTypeOK, PayContinue
<1>2. PaidIsReady'
  BY <1>1 DEF PaidIsReady, PaymentOnlyFromReady, TakenAsReady, orderVars
<1> QED
  BY <1>2, OrdersUndisturbed

\* A row is written: its order has one already, or its handler took it to be ready.
LEMMA PaymentWriteStep ==
    ASSUME PaidInv, PayInv', NEW h \in PayHandlers, NEW k \in PayContinuation, PayContinue(h, k),
           UNCHANGED orderVars, NEW o \in Orders, NEW s, SetPayStatus(o, s),
           payStatus[o] # "none" \/ status[o] \in Payable,
           k.at \notin {"pay.check", "pay.insert", "deliver.write"}
    PROVE  PaidInv'
<1> USE DEF PaidInv
<1>1. preq'[h] = k /\ \A g \in PayHandlers \ {h} : preq'[g] = preq[g]
  BY DEF PayInv, PaymentsTypeOK, PayContinue
<1>2. status[o] \in Payable
  BY DEF PaidIsReady, PaymentOnlyFromReady, Payable
<1>3. \A p \in Orders : p # o => payStatus'[p] = payStatus[p]
  BY DEF SetPayStatus, PayInv, PaymentsTypeOK
<1>4. PaymentOnlyFromReady'
  BY <1>2, <1>3 DEF PaidIsReady, PaymentOnlyFromReady, Payable, orderVars
<1>5. \A g \in PayHandlers : TakenAsReady(g)' => status'[preq'[g].order] \in Payable
  BY <1>1 DEF PaidIsReady, TakenAsReady, orderVars
<1>6. PaidIsReady'
  BY <1>4, <1>5 DEF PaidIsReady
<1> QED
  BY <1>6, OrdersUndisturbed

\* Delivering an order that is ready or delivered.
LEMMA DeliverPaid ==
    ASSUME PaidInv, PayInv', NEW h \in PayHandlers, DeliverWrite(h)
    PROVE  PaidInv'
<1> DEFINE o == preq[h].order
<1> USE DEF PaidInv, Inv, OrdersTypeOK
<1>1. o \in Orders /\ status[o] \in Payable
  BY PayContinuationFields DEF DeliverWrite, PaidIsReady, TakenAsReady, PayInv, PaymentsTypeOK
<1>2. /\ UNCHANGED <<deleted, table, quantity, served, req, payStatus>>
      /\ \A p \in Orders : p # o => status'[p] = status[p]
      /\ status'[o] \in {status[o], "delivered"}
      /\ status' \in [Orders -> Statuses \cup {"none"}]
      /\ deleted[o] => status'[o] = status[o]
  BY <1>1 DEF DeliverWrite, WriteStatus, SetStatus, payRows, Statuses, Active, Terminal
<1>3. status'[o] \in Payable /\ status'[o] # "none" /\ status[o] # "none"
  BY <1>1, <1>2 DEF Payable
<1>4. Inv'
  BY <1>3, DeliveryKeepsInv
<1>5. \A g \in Handlers : Alone(g)' <=> Alone(g)
  BY <1>2 DEF Alone, OnOrder, InFlight
<1>6. ASSUME NEW g \in Handlers, InFlight(g)
      PROVE  req[g].order \in Orders
  BY <1>6, ContinuationFields DEF InFlight
<1>7. StatusLate'
  <2>1. ASSUME NEW g \in Handlers, req[g].at = "status.write"
        PROVE  \/ req[g].next \in ValidTransitions(status'[req[g].order])
               \/ req[g].next = "delivered" /\ status'[req[g].order] = "delivered"
    <3>1. CASE req[g].order = o
      <4>1. req[g].next = "delivered"
        BY <1>1, <2>1, <3>1, StatusFacts DEF StatusLate
      <4> QED
        BY <1>2, <2>1, <3>1, <4>1 DEF StatusLate
    <3>2. CASE req[g].order # o
      BY <1>2, <1>6, <2>1, <3>2 DEF StatusLate, InFlight
    <3> QED
      BY <3>1, <3>2
  <2> QED
    BY <1>2, <1>5, <2>1 DEF StatusLate
<1>8. CancelFresh'
  <2>1. \A p \in Orders : AboveCancelThreshold(p)' <=> AboveCancelThreshold(p)
    BY <1>2 DEF AboveCancelThreshold, SumServed, SumQuantity
  <2> QED
    BY <1>1, <1>2, <1>5, <1>6, <2>1, StatusFacts DEF CancelFresh, InFlight
<1>9. ReadyLate'
  BY <1>2, <1>3, <1>6 DEF ReadyLate, InFlight
<1>10. PaidIsReady'
  <2>1. preq' = [preq EXCEPT ![h] = Idle]
    BY DEF DeliverWrite, PayDone, PayContinue
  <2>2. \A g \in PayHandlers : preq'[g] = Idle \/ preq'[g] = preq[g]
    BY <2>1 DEF PayInv, PaymentsTypeOK
  <2>3. \A p \in Orders : status[p] \in Payable => status'[p] \in Payable
    BY <1>2, <1>3
  <2>4. \A g \in PayHandlers : TakenAsReady(g) => preq[g].order \in Orders
    BY PayContinuationFields DEF PayInv, PaymentsTypeOK, TakenAsReady
  <2>5. PaymentOnlyFromReady'
    BY <1>2, <2>3 DEF PaidIsReady, PaymentOnlyFromReady, Payable
  <2>6. \A g \in PayHandlers : TakenAsReady(g)' => status'[preq'[g].order] \in Payable
    BY <2>2, <2>3, <2>4 DEF PaidIsReady, TakenAsReady, Idle
  <2> QED
    BY <2>5, <2>6 DEF PaidIsReady
<1> QED
  BY <1>4, <1>7, <1>8, <1>9, <1>10

LEMMA PaymentStepPaid ==
    ASSUME PaidInv, PaymentsNext
    PROVE  PaidInv'
<1> USE DEF PaidInv
<1>1. PayInv'
  BY PayNextInv DEF Next
<1>2. ASSUME UNCHANGED <<orderVars, payStatus, preq>>
      PROVE  PaidInv'
  BY <1>1, <1>2, OrdersUndisturbed DEF PaidIsReady, PaymentOnlyFromReady, TakenAsReady, orderVars
<1>3. ASSUME NEW n \in Notice, GatewayReport(n)
      PROVE  PaidInv'
  BY <1>2, <1>3 DEF GatewayReport, payRows
<1>4. ASSUME NEW late \in SUBSET Orders, ExpirePayments(late)
      PROVE  PaidInv'
  <2>1. \A o \in Orders : payStatus'[o] # "none" => payStatus[o] # "none"
    BY <1>4 DEF ExpirePayments
  <2>2. UNCHANGED <<orderVars, preq>>
    BY <1>4 DEF ExpirePayments
  <2>3. PaidIsReady'
    BY <2>1, <2>2 DEF PaidIsReady, PaymentOnlyFromReady, TakenAsReady, orderVars
  <2> QED
    BY <1>1, <2>2, <2>3, OrdersUndisturbed
<1>5. ASSUME NEW h \in PayHandlers, PayStart(h) \/ PayFail(h)
      PROVE  PaidInv'
  <2>1. CASE \E o \in Orders, m \in Methods : PayRead(h, o, m)
    <3>1. PICK o \in Orders, m \in Methods : PayRead(h, o, m)
      BY <2>1
    <3> DEFINE k == [at |-> "pay.check", order |-> o, method |-> m]
    <3>2. k \in PayContinuation /\ k.order = o /\ PayContinue(h, k)
      BY <3>1, PayContinuationSteps DEF PayRead
    <3>3. status[o] \in Payable /\ UNCHANGED <<orderVars, payStatus>>
      BY <3>1 DEF PayRead, Payable, payRows
    <3> QED
      BY <1>1, <3>2, <3>3, PaymentReadStep
  <2>2. CASE \E n \in Notice : WebhookRead(h, n)
    <3>1. PICK n \in Notice : WebhookRead(h, n)
      BY <2>2
    <3> DEFINE k == [at |-> Outcome(n), order |-> n.order]
    <3>2. k \in PayContinuation /\ k.at \in {"complete.write", "fail.write"}
      BY PayContinuationSteps DEF Notice, Outcome
    <3>3. PayContinue(h, k) /\ UNCHANGED <<orderVars, payStatus>>
      BY <3>1 DEF WebhookRead, payRows
    <3> QED
      BY <1>1, <3>2, <3>3, PaymentReadStep
  <2>3. CASE PayFail(h)
    BY <1>1, <2>3, IdleStep, PaymentReadStep DEF PayFail, PayDone, payRows
  <2> QED
    BY <1>5, <2>1, <2>2, <2>3 DEF PayStart
<1>6. ASSUME NEW h \in PayHandlers, PayProceed(h)
      PROVE  PaidInv'
  <2> DEFINE o == preq[h].order
             next(step) == [at |-> step, order |-> o]
  <2>1. preq[h] \in PayContinuation /\ (preq[h].at # "idle" => o \in Orders)
    BY PayContinuationFields DEF PayInv, PaymentsTypeOK
  <2>2. TakenAsReady(h) => status[o] \in Payable
    BY DEF PaidIsReady
  <2>3. preq[h].at \in {"complete.write", "fail.write"} => payStatus[o] # "none"
    BY DEF PayInv, RowsExist
  <2>4. CASE PayCheck(h)
    <3>1. PICK k \in PayContinuation :
              /\ k.at = "idle" \/ (k.at = "pay.insert" /\ k.order = o)
              /\ PayContinue(h, k)
      BY <2>4, PayCheckNext
    <3>3. status[o] \in Payable /\ UNCHANGED <<orderVars, payStatus>>
      BY <2>2, <2>4 DEF PayCheck, TakenAsReady, payRows
    <3> QED
      BY <1>1, <3>1, <3>3, PaymentReadStep
  <2>5. CASE PayInsert(h)
    <3>1. o \in Orders /\ status[o] \in Payable /\ UNCHANGED orderVars
      BY <2>1, <2>2, <2>5 DEF PayInsert, TakenAsReady
    <3>2. CASE PayDone(h) /\ UNCHANGED payRows
      BY <1>1, <3>1, <3>2, IdleStep, PaymentReadStep DEF PayDone, payRows
    <3>3. CASE /\ SetPayStatus(o, "pending")
               /\ PayNext(h, IF preq[h].method = "cash" THEN "complete.write" ELSE "pay.gateway")
      <4>1. PICK step \in {"complete.write", "pay.gateway"} : PayContinue(h, next(step))
        BY <3>3 DEF PayNext
      <4>2. next(step) \in PayContinuation /\ next(step).at = step
        BY <3>1, <4>1, PayContinuationSteps
      <4> HIDE DEF next, o
      <4> QED
        BY <1>1, <3>1, <3>3, <4>1, <4>2, PaymentWriteStep
    <3> QED
      BY <2>5, <3>2, <3>3 DEF PayInsert
  <2>6. CASE PayGateway(h)
    BY <1>1, <2>6, IdleStep, PaymentReadStep DEF PayGateway, PayDone, payRows
  <2>7. CASE CompleteWrite(h)
    <3>1. /\ o \in Orders /\ payStatus[o] # "none" /\ UNCHANGED orderVars
          /\ SetPayStatus(o, "completed") /\ PayContinue(h, next("deliver.read"))
      BY <2>1, <2>3, <2>7 DEF CompleteWrite, PayNext
    <3>2. next("deliver.read") \in PayContinuation /\ next("deliver.read").at = "deliver.read"
      BY <3>1, PayContinuationSteps
    <3> HIDE DEF next, o
    <3> QED
      BY <1>1, <3>1, <3>2, PaymentWriteStep
  <2>8. CASE DeliverRead(h)
    <3>1. UNCHANGED <<orderVars, payStatus>>
      BY <2>8 DEF DeliverRead, payRows
    <3>2. CASE status[o] = "ready" /\ PayContinue(h, next("deliver.write"))
      <4>1. /\ next("deliver.write") \in PayContinuation /\ next("deliver.write").order = o
            /\ status[o] \in Payable
        BY <2>1, <2>8, <3>2, PayContinuationSteps DEF DeliverRead, Payable
      <4> HIDE DEF next, o
      <4> QED
        BY <1>1, <3>1, <3>2, <4>1, PaymentReadStep
    <3>3. CASE PayDone(h)
      BY <1>1, <3>1, <3>3, IdleStep, PaymentReadStep DEF PayDone
    <3> QED
      BY <2>8, <3>2, <3>3 DEF DeliverRead, PayNext
  <2>9. CASE DeliverWrite(h)
    BY <1>1, <2>9, DeliverPaid
  <2>10. CASE FailWrite(h)
    <3>1. o \in Orders /\ payStatus[o] # "none" /\ UNCHANGED orderVars /\ SetPayStatus(o, "failed")
      BY <2>1, <2>3, <2>10 DEF FailWrite
    <3>2. PayContinue(h, Idle)
      BY <2>10 DEF FailWrite, PayDone
    <3> HIDE DEF o
    <3> QED
      BY <1>1, <3>1, <3>2, IdleStep, PaymentWriteStep
  <2> QED
    BY <1>6, <2>4, <2>5, <2>6, <2>7, <2>8, <2>9, <2>10 DEF PayProceed
<1> QED
  BY <1>3, <1>4, <1>5, <1>6 DEF PaymentsNext

-----------------------------------------------------------------------------
LEMMA PaidInit == Init => PaidInv
<1> SUFFICES ASSUME Init PROVE PaidInv
  OBVIOUS
<1>1. Inv /\ PayInv
  BY InitInv, PayInit DEF Init
<1>2. StatusLate /\ CancelFresh /\ ReadyLate
  BY DEF Init, OrdersInit, StatusLate, CancelFresh, ReadyLate, Idle
<1>3. PaidIsReady
  BY DEF Init, PaymentsInit, PaidIsReady, PaymentOnlyFromReady, TakenAsReady, Idle
<1> QED
  BY <1>1, <1>2, <1>3 DEF PaidInv

LEMMA PaidNext == ~Overlap /\ PaidInv /\ [Next]_vars => PaidInv'
<1> SUFFICES ASSUME ~Overlap, PaidInv, [Next]_vars PROVE PaidInv'
  OBVIOUS
<1>1. CASE OrdersNext /\ UNCHANGED payVars
  BY <1>1, OrderStepPaid DEF OrdersNext
<1>2. CASE PaymentsNext
  BY <1>2, PaymentStepPaid
<1>3. CASE UNCHANGED vars
  <2>1. PayInv'
    BY <1>3, PayNextInv DEF PaidInv
  <2>2. PaidIsReady'
    BY <1>3 DEF vars, orderVars, payVars, PaidInv, PaidIsReady, PaymentOnlyFromReady, TakenAsReady
  <2> QED
    BY <1>3, <2>1, <2>2, OrdersUndisturbed DEF vars, PaidInv
<1> QED
  BY <1>1, <1>2, <1>3 DEF Next

LEMMA AlwaysPaidInv == ASSUME ~Overlap PROVE Spec => []PaidInv
<1>1. PaidInv /\ [Next]_vars => PaidInv'
  BY PaidNext
<1> QED
  BY <1>1, PaidInit, PTL DEF Spec

\* "Payment created ONLY when order.status = 'ready'": when staff take turns on an order,
\* one that has a payment is ready or delivered, however the requests of the payment
\* service, the webhooks and the timeout job overlap with them.
THEOREM PaidOrdersAreReady == ASSUME ~Overlap PROVE Spec => []PaymentOnlyFromReady
<1>1. PaidInv => PaymentOnlyFromReady
  BY DEF PaidInv, PaidIsReady
<1> QED
  BY <1>1, AlwaysPaidInv, PTL

-----------------------------------------------------------------------------
(* The status of an order that payments deliver.                           *)

\* A delivery finds its order ready or delivered, and so not deleted, and delivers it.
LEMMA DeliveryFindsReady ==
    ASSUME PaidInv, NEW h \in PayHandlers, DeliverWrite(h)
    PROVE  LET o == preq[h].order IN
           /\ o \in Orders /\ status[o] \in Payable
           /\ status' = [status EXCEPT ![o] = "delivered"]
           /\ UNCHANGED <<deleted, req>>
<1> DEFINE o == preq[h].order
<1>1. o \in Orders /\ status[o] \in Payable
  BY PayContinuationFields DEF DeliverWrite, PaidInv, PaidIsReady, TakenAsReady, PayInv, PaymentsTypeOK
<1>2. ~deleted[o]
  BY <1>1 DEF PaidInv, Inv, DeletedAreCancelled, Payable
<1> QED
  BY <1>1, <1>2 DEF DeliverWrite, WriteStatus, SetStatus

\* Payments deliver what they have billed, and only that can become ready again.
DeliveriesAreBilled ==
    \A h \in PayHandlers : preq[h].at \in {"deliver.read", "deliver.write"} =>
        payStatus[preq[h].order] # "none"
ReopenedAreBilled ==
    \A h \in Handlers : req[h].at = "ready.write" /\ status[req[h].order] = "delivered" =>
        payStatus[req[h].order] # "none"

BilledInv ==
    /\ PaidInv
    /\ DeliveriesAreBilled
    /\ ReopenedAreBilled

\* No payment is ever taken back.
LEMMA BillsStay ==
    ASSUME PayInv, PaymentsNext, NEW o \in Orders, payStatus[o] # "none"
    PROVE  payStatus'[o] # "none"
<1> USE DEF PayInv
<1>1. CASE UNCHANGED payStatus
  BY <1>1
<1>2. CASE \E h \in PayHandlers : PayInsert(h) \/ CompleteWrite(h) \/ FailWrite(h)
  BY <1>2 DEF PayInsert, CompleteWrite, FailWrite, payRows, SetPayStatus, PaymentsTypeOK
<1>3. CASE \E late \in SUBSET Orders : ExpirePayments(late)
  BY <1>3 DEF ExpirePayments
<1> QED
  BY <1>1, <1>2, <1>3 DEF PaymentsNext, PayStart, PayRead, WebhookRead, PayProceed, PayCheck,
                          PayGateway, DeliverRead, DeliverWrite, PayFail, GatewayReport, payRows

\* Deliveries deliver what is billed, and nothing else touches the orders.
LEMMA BilledAreDelivered ==
    ASSUME BilledInv, PaymentsNext
    PROVE  /\ UNCHANGED <<req, table, deleted>>
           /\ \A o \in Orders : status'[o] # status[o] =>
                  status'[o] = "delivered" /\ payStatus[o] # "none"
<1> USE DEF BilledInv, PaidInv
<1>1. ASSUME NEW h \in PayHandlers, DeliverWrite(h)
      PROVE  /\ UNCHANGED <<req, table, deleted>>
             /\ \A o \in Orders : status'[o] # status[o] =>
                    status'[o] = "delivered" /\ payStatus[o] # "none"
  BY <1>1, DeliveryFindsReady DEF DeliverWrite, DeliveriesAreBilled, Inv, OrdersTypeOK
<1> QED
  BY <1>1, OnlyDeliveriesWrite DEF orderVars

\* Only a delivery makes an order delivered under an auto-ready check.
LEMMA OrderStepReopens ==
    ASSUME PaidInv, ReopenedAreBilled, NEW h \in Handlers, Start(h) \/ Proceed(h) \/ Fail(h),
           UNCHANGED payVars
    PROVE  ReopenedAreBilled'
<1> USE DEF PaidInv
<1>1. req \in [Handlers -> Continuation] /\ \A g \in Handlers : g # h => req'[g] = req[g]
  BY OneHandlerMoves DEF Inv, OrdersTypeOK
<1> SUFFICES ASSUME NEW g \in Handlers, req'[g].at = "ready.write",
                    status'[req'[g].order] = "delivered"
             PROVE  payStatus[req'[g].order] # "none"
  BY DEF ReopenedAreBilled, payVars
<1>2. CASE g = h
  <2>1. ReadyRead(h)
    BY <1>1, <1>2 DEF Start, Proceed, Fail, CreateCheck, StatusRead, CancelRead, ItemRead,
                      CreateInsert, StatusWrite, CancelSum, CancelWrite, ItemWrite, ReadySum,
                      ReadyWrite, Continue, Done, Idle
  <2>2. status'[req'[h].order] = "preparing"
    BY <1>1, <1>2, <2>1 DEF ReadyRead, Continue, Done, Idle, orderRows
  <2> QED
    BY <1>2, <2>2
<1>3. CASE g # h
  <2> DEFINE o == req[g].order
  <2>1. req'[g] = req[g] /\ o \in Orders /\ OnOrder(g, o)
    BY <1>1, <1>3, ContinuationFields DEF OnOrder, InFlight
  <2>2. CASE status[o] = "delivered"
    BY <2>1, <2>2 DEF ReopenedAreBilled
  <2>3. CASE status[o] # "delivered"
    <3>1. Writes(h) /\ req[h].order = o
      BY <2>1, <2>3, ReadsOrWrites, OthersUntouched DEF orderRows
    <3>2. ~StatusWrite(h)
      BY <1>3, <2>1, <3>1 DEF StatusWrite, StatusLate, Alone
    <3> QED
      BY <2>1, <2>3, <3>1, <3>2 DEF Writes, CreateInsert, CancelWrite, ItemWrite, ReadyWrite,
                                    WriteStatus, SetStatus, Inv, OrdersTypeOK
  <2> QED
    BY <2>2, <2>3
<1> QED
  BY <1>2, <1>3

LEMMA PaymentStepBilled ==
    ASSUME BilledInv, PaymentsNext
    PROVE  DeliveriesAreBilled' /\ ReopenedAreBilled'
<1> USE DEF BilledInv, PaidInv, PayInv
<1>1. \A o \in Orders : payStatus[o] # "none" => payStatus'[o] # "none"
  BY BillsStay
<1>2. /\ UNCHANGED <<req, table, deleted>>
      /\ \A o \in Orders : status'[o] # status[o] => status'[o] = "delivered" /\ payStatus[o] # "none"
  BY BilledAreDelivered
<1>3. DeliveriesAreBilled'
  <2> SUFFICES ASSUME NEW h \in PayHandlers, preq'[h].at \in {"deliver.read", "deliver.write"}
               PROVE  payStatus'[preq'[h].order] # "none"
    BY DEF DeliveriesAreBilled
  <2>1. CASE preq'[h] = preq[h]
    BY <1>1, <2>1, PayContinuationFields DEF DeliveriesAreBilled, PaymentsTypeOK
  <2>2. CASE preq'[h] # preq[h]
    <3>1. PICK g \in PayHandlers : PayStart(g) \/ PayProceed(g) \/ PayFail(g)
      BY <2>2 DEF PaymentsNext, GatewayReport, ExpirePayments
    <3>2. ~PayStart(g)
      BY <2>2 DEF PayStart, PayRead, WebhookRead, PayContinue, Outcome, PaymentsTypeOK
    <3>3. g = h
      BY <2>2, <3>1, <3>2, ProceedMoves
    <3>4. preq'[h].order = preq[h].order
      BY <3>1, <3>2, <3>3, ProceedMoves
    <3>5. CompleteWrite(h) \/ DeliverRead(h)
      <4>1. ~PayCheck(h)
        BY <2>2, PayCheckNext DEF PayContinue, PaymentsTypeOK
      <4> QED
        BY <3>1, <3>2, <3>3, <4>1
           DEF PayProceed, PayInsert, PayGateway, DeliverWrite, FailWrite, PayFail, PayNext, PayDone,
               PayContinue, Idle, PaymentsTypeOK
    <3> QED
      BY <1>1, <3>4, <3>5, PayContinuationFields
         DEF CompleteWrite, DeliverRead, RowsExist, DeliveriesAreBilled, PaymentsTypeOK
  <2> QED
    BY <2>1, <2>2
<1>4. ReopenedAreBilled'
  BY <1>1, <1>2, ContinuationFields DEF ReopenedAreBilled, Inv, OrdersTypeOK
<1> QED
  BY <1>3, <1>4

LEMMA BilledNext == ~Overlap /\ BilledInv /\ [Next]_vars => BilledInv'
<1> SUFFICES ASSUME ~Overlap, BilledInv, [Next]_vars PROVE BilledInv'
  OBVIOUS
<1>1. PaidInv'
  BY PaidNext DEF BilledInv
<1>2. CASE OrdersNext /\ UNCHANGED payVars
  <2>1. DeliveriesAreBilled'
    BY <1>2 DEF payVars, BilledInv, DeliveriesAreBilled
  <2> QED
    BY <1>1, <1>2, <2>1, OrderStepReopens DEF OrdersNext, BilledInv
<1>3. CASE PaymentsNext
  BY <1>1, <1>3, PaymentStepBilled DEF BilledInv
<1>4. CASE UNCHANGED vars
  BY <1>1, <1>4 DEF vars, orderVars, payVars, BilledInv, DeliveriesAreBilled, ReopenedAreBilled
<1> QED
  BY <1>2, <1>3, <1>4 DEF Next

LEMMA BilledInit == Init => BilledInv
<1> SUFFICES ASSUME Init PROVE BilledInv
  OBVIOUS
<1>1. PaidInv
  BY PaidInit
<1> QED
  BY <1>1 DEF Init, OrdersInit, PaymentsInit, BilledInv, DeliveriesAreBilled, ReopenedAreBilled, Idle

LEMMA AlwaysBilledInv == ASSUME ~Overlap PROVE Spec => []BilledInv
<1>1. BilledInv /\ [Next]_vars => BilledInv'
  BY BilledNext
<1> QED
  BY <1>1, BilledInit, PTL DEF Spec

\* A write of the order service follows the transition table, but for "ready" written
\* over "delivered" by an auto-ready check.
LEMMA OrderWritesMove ==
    ASSUME PaidInv, NEW h \in Handlers, Writes(h), NEW o \in Orders
    PROVE  \/ status'[o] = status[o]
           \/ status[o] = "none" /\ status'[o] = "pending"
           \/ status'[o] \in ValidTransitions(status[o])
           \/ status[o] = "delivered" /\ status'[o] = "ready" /\ LateReady(o)
<1> DEFINE Moves == \/ status'[o] = status[o]
                    \/ status[o] = "none" /\ status'[o] = "pending"
                    \/ status'[o] \in ValidTransitions(status[o])
                    \/ status[o] = "delivered" /\ status'[o] = "ready" /\ LateReady(o)
<1> SUFFICES ASSUME req[h].order = o PROVE Moves
  BY OthersUntouched DEF PaidInv
<1> USE DEF PaidInv, Inv, OrdersTypeOK
<1>1. CASE \E cart \in Carts : CreateInsert(h, cart)
  BY <1>1 DEF CreateInsert, SetStatus, InsertsAreFresh
<1>2. CASE StatusWrite(h)
  BY <1>2 DEF StatusWrite, WriteStatus, SetStatus, StatusLate
<1>3. CASE CancelWrite(h)
  <2>1. "cancelled" \in ValidTransitions(status[o])
    BY <1>3 DEF CancelWrite, CancelFresh, Cancellable, ValidTransitions
  <2> QED
    BY <1>3, <2>1 DEF CancelWrite, WriteStatus, SetStatus
<1>4. CASE ItemWrite(h)
  BY <1>4 DEF ItemWrite
<1>5. CASE ReadyWrite(h)
  <2>1. status[o] \in {"preparing", "ready", "delivered"} /\ OnOrder(h, o)
    BY <1>5 DEF ReadyWrite, ReadyLate, Payable, OnOrder, InFlight
  <2>2. status'[o] \in {status[o], "ready"}
    BY <1>5 DEF ReadyWrite, WriteStatus, SetStatus
  <2>3. "ready" \in ValidTransitions("preparing")
    BY DEF ValidTransitions
  <2>4. LateReady(o)
    BY <1>5, <2>1 DEF LateReady
  <2> QED
    BY <2>1, <2>2, <2>3, <2>4
<1> QED
  BY <1>1, <1>2, <1>3, <1>4, <1>5 DEF Writes

\* The same of every step, deliveries included.
LEMMA StepsMove ==
    ASSUME PaidInv, Next, NEW o \in Orders, status'[o] # status[o]
    PROVE  \/ status[o] = "none" /\ status'[o] = "pending"
           \/ status'[o] \in ValidTransitions(status[o])
           \/ status[o] = "delivered" /\ status'[o] = "ready" /\ LateReady(o)
<1>1. CASE OrdersNext
  <2>1. PICK h \in Handlers : Start(h) \/ Proceed(h) \/ Fail(h)
    BY <1>1 DEF OrdersNext
  <2>2. Writes(h)
    BY <2>1, ReadsOrWrites DEF orderRows
  <2> QED
    BY <2>2, OrderWritesMove
<1>2. ASSUME NEW h \in PayHandlers, DeliverWrite(h)
      PROVE  status'[o] \in ValidTransitions(status[o])
  <2>1. status[o] = "ready" /\ status'[o] = "delivered"
    BY <1>2, DeliveryFindsReady DEF PaidInv, Inv, OrdersTypeOK, Payable
  <2> QED
    BY <2>1 DEF ValidTransitions
<1> QED
  BY <1>1, <1>2, OnlyDeliveriesWrite DEF Next, orderVars

\* When staff take turns, payments deliver only what is ready, and the status follows the
\* transition table except for a late auto-ready check over a delivery that was billed.
THEOREM AutoReadyAloneReopens == ASSUME ~Overlap PROVE Spec => OnlyAutoReadyReopens
<1>1. BilledInv /\ [Next]_vars =>
          [\A o \in Orders : status'[o] # status[o] =>
              \/ status[o] = "none" /\ status'[o] = "pending"
              \/ status'[o] \in ValidTransitions(status[o])
              \/ /\ status[o] = "delivered" /\ status'[o] = "ready"
                 /\ LateReady(o) /\ payStatus[o] # "none"]_vars
  <2>1. ASSUME BilledInv, NEW o \in Orders, status[o] = "delivered", LateReady(o)
        PROVE  payStatus[o] # "none"
    BY <2>1 DEF BilledInv, ReopenedAreBilled, LateReady, OnOrder, ReadyWrite
  <2> QED
    BY <2>1, StepsMove DEF BilledInv
<1> QED
  BY <1>1, AlwaysBilledInv, PTL DEF Spec, OnlyAutoReadyReopens

\* A settled order stays settled beside payments: the only order a delivery finds settled
\* is one that is delivered already.
THEOREM PaymentsKeepSettled == ASSUME ~Overlap PROVE Spec => SettledStaysSettled
<1>1. PaidInv /\ [Next]_vars =>
          [\A o \in Orders : Settled(o) => Settled(o)' /\ status'[o] = status[o]]_orderVars
  <2> SUFFICES ASSUME PaidInv, Next, ~UNCHANGED orderVars, NEW o \in Orders, Settled(o)
               PROVE  Settled(o)' /\ status'[o] = status[o]
    BY DEF vars
  <2>1. CASE OrdersNext
    BY <2>1, SettledStep DEF PaidInv
  <2>2. ASSUME NEW h \in PayHandlers, DeliverWrite(h)
        PROVE  Settled(o)' /\ status'[o] = status[o]
    <3>1. status'[o] = status[o]
      BY <2>2, DeliveryFindsReady DEF Settled, Terminal, Payable, PaidInv, Inv, OrdersTypeOK
    <3> QED
      BY <2>2, <3>1, DeliveryFindsReady DEF Settled, StatusWritePending
  <2> QED
    BY <2>1, <2>2, OnlyDeliveriesWrite DEF Next
<1> QED
  BY <1>1, AlwaysPaidInv, PTL DEF Spec, SettledStaysSettled

-----------------------------------------------------------------------------
(* The delivery of paid orders.                                            *)

\* A payment becomes completed by one statement only, which goes on to the delivery.
LEMMA CompletionsDeliver ==
    ASSUME PayInv, PaymentsNext, NEW o \in Orders, payStatus'[o] = "completed",
           payStatus[o] # "completed"
    PROVE  DeliveryAhead(o)'
<1> USE DEF PayInv, PaymentsTypeOK
<1>1. PICK h \in PayHandlers : CompleteWrite(h) /\ preq[h].order = o
  BY DEF PaymentsNext, PayStart, PayRead, WebhookRead, PayProceed, PayCheck, PayInsert, PayGateway,
         CompleteWrite, DeliverRead, DeliverWrite, FailWrite, PayFail, GatewayReport, ExpirePayments,
         payRows, SetPayStatus
<1>2. preq'[h] = [at |-> "deliver.read", order |-> o]
  BY <1>1 DEF CompleteWrite, PayNext, PayContinue
<1> QED
  BY <1>2 DEF DeliveryAhead

\* Only the handler that was to deliver an order gives it up.
LEMMA DeliveriesEnd ==
    ASSUME PayInv, PaymentsNext, NEW o \in Orders, DeliveryAhead(o), ~DeliveryAhead(o)'
    PROVE  \E h \in PayHandlers : /\ preq[h].order = o
                                  /\ DeliverRead(h) \/ DeliverWrite(h) \/ PayFail(h)
<1>1. PICK g \in PayHandlers : preq[g].at \in {"deliver.read", "deliver.write"} /\ preq[g].order = o
  BY DEF DeliveryAhead
<1>2. preq'[g] # preq[g]
  BY <1>1 DEF DeliveryAhead
<1>3. PICK h \in PayHandlers : PayStart(h) \/ PayProceed(h) \/ PayFail(h)
  BY <1>2 DEF PaymentsNext, GatewayReport, ExpirePayments
<1>4. PayStart(h) => g # h
  <2>1. PayStart(h) => preq[h] = Idle
    BY DEF PayStart, PayRead, WebhookRead
  <2> QED
    BY <1>1, <2>1, IdleStep
<1>5. g = h
  BY <1>2, <1>3, <1>4, ProceedMoves
     DEF PayStart, PayRead, WebhookRead, PayContinue, PayInv, PaymentsTypeOK
<1> QED
  BY <1>1, <1>3, <1>4, <1>5 DEF PayProceed, PayCheck, PayInsert, PayGateway, CompleteWrite, FailWrite

LEMMA UndeliveredStep ==
    ASSUME PaidInv, Next, NEW o \in Orders, ~Undelivered(o), Undelivered(o)'
    PROVE  \/ \E h \in PayHandlers : preq[h] # Idle /\ preq[h].order = o /\ PayFail(h)
           \/ LateReady(o)
<1> USE DEF PaidInv
<1>1. payStatus'[o] = "completed" /\ status'[o] # "delivered" /\ ~DeliveryAhead(o)'
  BY DEF Undelivered
<1>2. CASE status[o] = "delivered"
  <2>1. status'[o] # status[o] /\ ValidTransitions(status[o]) = {}
    BY <1>1, <1>2 DEF ValidTransitions
  <2> QED
    BY <1>2, <2>1, StepsMove
<1>3. CASE status[o] # "delivered"
  <2>1. PaymentsNext
    BY <1>1, <1>3 DEF Next, payVars, Undelivered, DeliveryAhead
  <2>2. payStatus[o] = "completed" /\ DeliveryAhead(o)
    BY <1>1, <1>3, <2>1, CompletionsDeliver DEF Undelivered
  <2>3. PICK h \in PayHandlers :
            preq[h].order = o /\ (DeliverRead(h) \/ DeliverWrite(h) \/ PayFail(h))
    BY <1>1, <2>1, <2>2, DeliveriesEnd
  <2>4. Found(o) /\ status[o] = "ready"
    <3>1. status[o] = "ready"
      BY <1>3, <2>2 DEF PaidIsReady, PaymentOnlyFromReady
    <3> QED
      BY <3>1 DEF Found, Inv, DeletedAreCancelled
  <2>5. ~DeliverRead(h)
    <3> SUFFICES ASSUME DeliverRead(h) PROVE FALSE
      OBVIOUS
    <3>1. preq'[h] = [at |-> "deliver.write", order |-> o]
      BY <2>3, <2>4 DEF DeliverRead, PayNext, PayContinue, PayInv, PaymentsTypeOK
    <3> QED
      BY <1>1, <3>1 DEF DeliveryAhead
  <2>6. ~DeliverWrite(h)
    BY <1>1, <2>3, DeliveryFindsReady DEF Inv, OrdersTypeOK
  <2> QED
    BY <2>3, <2>5, <2>6 DEF PayFail
<1> QED
  BY <1>2, <1>3

\* When staff take turns, an order whose payment is completed is delivered, or a handler is
\* about to: only that handler's failure, or a late auto-ready check, leaves it undelivered.
THEOREM PaidAreDelivered == ASSUME ~Overlap PROVE Spec => DeliveryLostByFailure
<1>1. PaidInv /\ [Next]_vars =>
          [\A o \in Orders : ~Undelivered(o) /\ Undelivered(o)' =>
              \/ \E h \in PayHandlers : preq[h] # Idle /\ preq[h].order = o /\ PayFail(h)
              \/ LateReady(o)]_vars
  BY UndeliveredStep
<1> QED
  BY <1>1, AlwaysPaidInv, PTL DEF Spec, DeliveryLostByFailure

-----------------------------------------------------------------------------
(* One unbilled order a table.  A late auto-ready check puts a delivered   *)
(* order back on its table, where a new one may have been placed by then,  *)
(* so OneActiveOrderPerTable is not true of the two services together.  A  *)
(* table still has at most one active order that has no payment.  Like     *)
(* TableInv this needs the lookup before an insertion to work.             *)

Unbilled(t) == {o \in ActiveOnTable(t) : payStatus[o] = "none"}
OneUnbilledOrderPerTable == \A t \in Tables : \A o, p \in Unbilled(t) : o = p

\* Who is about to insert an order on a table found no unbilled one there, and is alone.
InsertsFindTableBilled ==
    \A h \in Handlers : req[h].at = "create.insert" /\ req[h].table # NoTable =>
        /\ Unbilled(req[h].table) = {}
        /\ \A g \in Handlers :
               req[g].at = "create.insert" /\ req[g].table = req[h].table => g = h

TablesBilledInv ==
    /\ BilledInv
    /\ OneUnbilledOrderPerTable
    /\ InsertsFindTableBilled

\* Only an insertion brings a table an unbilled order.
LEMMA UnbilledShrinks ==
    ASSUME PaidInv, ReopenedAreBilled, UNCHANGED payVars,
           NEW h \in Handlers, Start(h) \/ Proceed(h) \/ Fail(h),
           ~\E cart \in Carts : CreateInsert(h, cart)
    PROVE  /\ UNCHANGED table
           /\ \A t \in Tables : Unbilled(t)' \subseteq Unbilled(t)
<1> USE DEF PaidInv
<1>1. UNCHANGED payStatus
  BY DEF payVars
<1>2. CASE UNCHANGED orderRows
  BY <1>1, <1>2 DEF orderRows, Unbilled, ActiveOnTable, Found
<1>3. CASE Writes(h)
  <2>1. UNCHANGED table
    BY <1>3 DEF Writes, StatusWrite, CancelWrite, ItemWrite, ReadyWrite
  <2>2. req[h].at \notin {"idle", "create.insert"}
    BY <1>3 DEF Writes, StatusWrite, CancelWrite, ItemWrite, ReadyWrite
  <2>3. ASSUME NEW o \in Orders, status'[o] \in Active, payStatus[o] = "none"
        PROVE  status[o] \in Active
    <3>1. CASE status[o] = "none"
      BY <1>3, <2>2, <2>3, <3>1, OthersUntouched DEF Inv, OthersHaveRows, Active
    <3>2. CASE status'[o] \in ValidTransitions(status[o])
      BY <3>2 DEF ValidTransitions, Active
    <3>3. ~LateReady(o) \/ status[o] # "delivered"
      BY <2>3 DEF LateReady, OnOrder, ReadyWrite, ReopenedAreBilled
    <3>4. CASE status'[o] = status[o]
      BY <2>3, <3>4
    <3> QED
      BY <1>3, <3>1, <3>2, <3>3, <3>4, OrderWritesMove
  <2>4. ASSUME NEW o \in Orders, ~deleted'[o] PROVE ~deleted[o]
    BY <2>4, DeletedStays DEF OrdersNext
  <2> QED
    BY <1>1, <2>1, <2>3, <2>4 DEF Unbilled, ActiveOnTable, Found, Active
<1> QED
  BY <1>2, <1>3, ReadsOrWrites

\* What an insertion does to the tables.
LEMMA InsertIsUnbilled ==
    ASSUME PaidInv, UNCHANGED payVars, NEW h \in Handlers, NEW cart \in Carts, CreateInsert(h, cart)
    PROVE  /\ req[h].table \in Tables \cup {NoTable}
           /\ \A t \in Tables : Unbilled(t)' \subseteq
                  Unbilled(t) \cup (IF t = req[h].table THEN {req[h].order} ELSE {})
<1> DEFINE o == req[h].order
<1> USE DEF PaidInv, Inv, OrdersTypeOK
<1>1. o \in Orders /\ req[h].table \in Tables \cup {NoTable}
  BY ContinuationFields DEF CreateInsert
<1>2. /\ status' = [status EXCEPT ![o] = "pending"]
      /\ table' = [table EXCEPT ![o] = req[h].table]
      /\ UNCHANGED <<deleted, payStatus>>
  BY DEF CreateInsert, SetStatus, payVars
<1>3. ASSUME NEW t \in Tables, NEW p \in Unbilled(t)', p # o PROVE p \in Unbilled(t)
  BY <1>1, <1>2, <1>3 DEF Unbilled, ActiveOnTable, Found
<1>4. ASSUME NEW t \in Tables, o \in Unbilled(t)' PROVE t = req[h].table
  BY <1>1, <1>2, <1>4 DEF Unbilled, ActiveOnTable
<1> QED
  BY <1>1, <1>3, <1>4

\* A step of the order service keeps the tables.
LEMMA OrderStepTables ==
    ASSUME ~Overlap, ~Faults, TablesBilledInv, NEW h \in Handlers,
           Start(h) \/ Proceed(h) \/ Fail(h), UNCHANGED payVars
    PROVE  OneUnbilledOrderPerTable' /\ InsertsFindTableBilled'
<1> USE DEF TablesBilledInv, BilledInv
<1>1. req \in [Handlers -> Continuation] /\ \A g \in Handlers : g # h => req'[g] = req[g]
  BY OneHandlerMoves DEF PaidInv, Inv, OrdersTypeOK
<1>2. req' \in [Handlers -> Continuation]
  BY OrderStepPaid DEF PaidInv, Inv, OrdersTypeOK
<1>3. CASE \E cart \in Carts : CreateInsert(h, cart)
  <2>1. PICK cart \in Carts : CreateInsert(h, cart)
    BY <1>3
  <2>2. req'[h].at = "idle"
    BY <1>1, <2>1 DEF CreateInsert, Continue, Done, Idle
  <2>3. ASSUME NEW t \in Tables, t = req[h].table PROVE Unbilled(t) = {}
    BY <2>1, <2>3, OrdersAssumption DEF CreateInsert, InsertsFindTableBilled
  <2>4. \A t \in Tables : Unbilled(t)' \subseteq
            Unbilled(t) \cup (IF t = req[h].table THEN {req[h].order} ELSE {})
    BY <2>1, InsertIsUnbilled
  <2>5. OneUnbilledOrderPerTable'
    BY <2>3, <2>4 DEF OneUnbilledOrderPerTable
  <2>6. ASSUME NEW i \in Handlers, req'[i].at = "create.insert", req'[i].table # NoTable
        PROVE  /\ Unbilled(req[i].table)' = {}
               /\ \A g \in Handlers :
                      req'[g].at = "create.insert" /\ req'[g].table = req'[i].table => g = i
    <3>1. i # h /\ req'[i] = req[i] /\ req[i].table \in Tables
      BY <1>1, <2>2, <2>6, ContinuationFields
    <3>2. req[i].table # req[h].table
      BY <2>1, <2>6, <3>1 DEF CreateInsert, InsertsFindTableBilled
    <3>3. Unbilled(req[i].table)' \subseteq Unbilled(req'[i].table)
      BY <2>4, <3>1, <3>2 DEF Unbilled
    <3> QED
      BY <1>1, <2>2, <2>6, <3>1, <3>3 DEF InsertsFindTableBilled
  <2> QED
    BY <2>5, <2>6 DEF InsertsFindTableBilled, Unbilled
<1>4. CASE ~\E cart \in Carts : CreateInsert(h, cart)
  <2>1. \A t \in Tables : Unbilled(t)' \subseteq Unbilled(t)
    BY <1>4, UnbilledShrinks DEF BilledInv
  <2>2. OneUnbilledOrderPerTable'
    BY <2>1 DEF OneUnbilledOrderPerTable
  <2>3. ASSUME req'[h].at = "create.insert", req'[h].table # NoTable
        PROVE  /\ Unbilled(req'[h].table) = {}
               /\ \A g \in Handlers : g # h =>
                      ~(req[g].at = "create.insert" /\ req[g].table = req'[h].table)
    <3>1. PICK o \in Orders, t \in Tables \cup {NoTable} : CreateCheck(h, o, t)
      BY <1>1, <2>3 DEF Start, Proceed, Fail, StatusRead, CancelRead, ItemRead, CreateInsert,
                        StatusWrite, CancelSum, CancelWrite, ItemWrite, ReadySum, ReadyRead,
                        ReadyWrite, Continue, Done, Idle
    <3>2. req'[h].table = t
      BY <1>1, <3>1 DEF CreateCheck, Continue
    <3>3. ActiveOnTable(t) = {}
      BY <2>3, <3>1, <3>2 DEF CreateCheck
    <3> QED
      BY <2>3, <3>1, <3>2, <3>3 DEF CreateCheck, TurnAt, Unbilled
  <2>4. ASSUME NEW i \in Handlers, req'[i].at = "create.insert", req'[i].table # NoTable
        PROVE  /\ Unbilled(req[i].table)' = {}
               /\ \A g \in Handlers :
                      req'[g].at = "create.insert" /\ req'[g].table = req'[i].table => g = i
    <3>1. req'[i].table \in Tables
      BY <1>2, <2>4, ContinuationFields
    <3>2. Unbilled(req[i].table)' \subseteq Unbilled(req'[i].table)
      BY <2>1, <3>1 DEF Unbilled
    <3>3. CASE i = h
      BY <1>1, <2>3, <2>4, <3>2, <3>3
    <3>4. CASE i # h
      BY <1>1, <2>3, <2>4, <3>2, <3>4 DEF InsertsFindTableBilled
    <3> QED
      BY <3>3, <3>4
  <2> QED
    BY <2>2, <2>4 DEF InsertsFindTableBilled
<1> QED
  BY <1>3, <1>4

\* Payments bring no unbilled order to a table.
LEMMA PaymentStepTables ==
    ASSUME TablesBilledInv, PaymentsNext
    PROVE  OneUnbilledOrderPerTable' /\ InsertsFindTableBilled'
<1> USE DEF TablesBilledInv, BilledInv, PaidInv
<1>1. \A o \in Orders : payStatus[o] # "none" => payStatus'[o] # "none"
  BY BillsStay
<1>2. /\ UNCHANGED <<req, table, deleted>>
      /\ \A o \in Orders : status'[o] # status[o] => status'[o] = "delivered" /\ payStatus[o] # "none"
  BY BilledAreDelivered
<1>3. \A t : Unbilled(t)' \subseteq Unbilled(t)
  BY <1>1, <1>2 DEF Unbilled, ActiveOnTable, Found, Active
<1>4. OneUnbilledOrderPerTable'
  BY <1>3 DEF OneUnbilledOrderPerTable
<1>5. InsertsFindTableBilled'
  BY <1>2, <1>3 DEF InsertsFindTableBilled, Unbilled, ActiveOnTable, Found
<1> QED
  BY <1>4, <1>5

\* With payments beside it the order service still lets no second order be placed on a
\* table that has one which is not billed, when staff take turns and no lookup fails: the
\* orders a late auto-ready check puts back on their tables all have a payment.
THEOREM OneUnbilledPerTable == ASSUME ~Overlap, ~Faults PROVE Spec => []OneUnbilledOrderPerTable
<1>1. Init => TablesBilledInv
  <2> SUFFICES ASSUME Init PROVE TablesBilledInv
    OBVIOUS
  <2>1. BilledInv
    BY BilledInit
  <2> QED
    BY <2>1 DEF Init, OrdersInit, TablesBilledInv, OneUnbilledOrderPerTable, InsertsFindTableBilled,
                Unbilled, ActiveOnTable, Found, Idle
<1>2. TablesBilledInv /\ [Next]_vars => TablesBilledInv'
  <2> SUFFICES ASSUME TablesBilledInv, [Next]_vars PROVE TablesBilledInv'
    OBVIOUS
  <2>1. BilledInv'
    BY BilledNext DEF TablesBilledInv
  <2>2. CASE OrdersNext /\ UNCHANGED payVars
    BY <2>1, <2>2, OrderStepTables DEF OrdersNext, TablesBilledInv
  <2>3. CASE PaymentsNext
    BY <2>1, <2>3, PaymentStepTables DEF TablesBilledInv
  <2>4. CASE UNCHANGED vars
    BY <2>1, <2>4 DEF vars, orderVars, payVars, TablesBilledInv, OneUnbilledOrderPerTable,
                      InsertsFindTableBilled, Unbilled, ActiveOnTable, Found
  <2> QED
    BY <2>2, <2>3, <2>4 DEF Next
<1>3. TablesBilledInv => OneUnbilledOrderPerTable
  BY DEF TablesBilledInv
<1> QED
  BY <1>1, <1>2, <1>3, PTL DEF Spec

-----------------------------------------------------------------------------
(* The payment service implements Ledger.                                  *)

Due == {o \in Orders : status[o] \in Payable}

\* A step of the order service bills nothing, and lets at most one order fall due.
LEMMA OrderStepFallsDue ==
    ASSUME PaidInv, NEW h \in Handlers, Start(h) \/ Proceed(h) \/ Fail(h), UNCHANGED payVars
    PROVE  Accounts!Next \/ UNCHANGED Accounts!ledgerVars
<1> USE DEF PaidInv
<1>1. Due \subseteq Due'
  BY PayableStays DEF Due
<1>2. UNCHANGED <<payStatus, expires, notices>>
  BY DEF payVars
<1>3. CASE UNCHANGED orderRows
  BY <1>2, <1>3 DEF orderRows, Accounts!ledgerVars
<1>4. CASE Writes(h)
  <2> DEFINE o == req[h].order
  <2>1. o \in Orders
    BY <1>4, ContinuationFields DEF Writes, CreateInsert, StatusWrite, CancelWrite, ItemWrite,
                                    ReadyWrite, Inv, OrdersTypeOK
  <2>2. \A p \in Orders : p # o => status'[p] = status[p]
    BY <1>4, OthersUntouched
  <2>3. Due' = Due \/ Due' = Due \cup {o}
    BY <1>1, <2>1, <2>2 DEF Due
  <2>4. CASE Due' = Due
    BY <1>2, <2>4 DEF Due, Payable, Accounts!ledgerVars
  <2>5. CASE Due' = Due \cup {o}
    <3>1. PICK p \in Orders : Due' = Due \cup {p}
      BY <2>1, <2>5
    <3>2. Accounts!FallDue(p)
      BY <1>2, <3>1 DEF Due, Payable, Accounts!FallDue
    <3> QED
      BY <3>2 DEF Accounts!Next
  <2> QED
    BY <2>3, <2>4, <2>5
<1> QED
  BY <1>3, <1>4, ReadsOrWrites

LEMMA PaymentStepKeepsBooks ==
    ASSUME PaidInv, FailuresAreDeclined, PaymentsNext
    PROVE  Accounts!Next \/ UNCHANGED Accounts!ledgerVars
<1> DEFINE Books == Accounts!Next \/ UNCHANGED Accounts!ledgerVars
<1> USE DEF PaidInv
<1>1. CASE UNCHANGED <<status, payStatus, expires, notices>>
  BY <1>1 DEF Accounts!ledgerVars
<1>2. ASSUME NEW h \in PayHandlers, DeliverWrite(h) PROVE Books
  <2>1. Due' = Due
    BY <1>2, DeliveryFindsReady DEF Due, Payable, Inv, OrdersTypeOK
  <2> QED
    BY <1>2, <2>1 DEF DeliverWrite, payRows, Due, Payable, Accounts!ledgerVars
<1>3. ASSUME NEW h \in PayHandlers, PayInsert(h) PROVE Books
  <2> DEFINE o == preq[h].order
  <2>1. o \in Orders /\ status[o] \in Payable /\ UNCHANGED <<orderVars, notices>>
    BY <1>3, PayContinuationFields DEF PayInsert, PaidIsReady, TakenAsReady, PayInv, PaymentsTypeOK
  <2>2. CASE UNCHANGED payRows
    BY <1>1, <2>1, <2>2 DEF orderVars, payRows
  <2>3. CASE /\ payStatus[o] = "none" /\ SetPayStatus(o, "pending")
             /\ expires' = [expires EXCEPT ![o] = preq[h].method # "cash"]
    <3>1. Accounts!Bill(o, preq[h].method # "cash")
      BY <2>1, <2>3 DEF SetPayStatus, orderVars, Payable, Accounts!Bill
    <3>2. (preq[h].method # "cash") \in BOOLEAN
      OBVIOUS
    <3> QED
      BY <2>1, <3>1, <3>2 DEF Accounts!Next
  <2> QED
    BY <1>3, <2>2, <2>3 DEF PayInsert
<1>4. ASSUME NEW h \in PayHandlers, CompleteWrite(h) PROVE Books
  <2> DEFINE o == preq[h].order
  <2>1. o \in Orders /\ payStatus[o] # "none" /\ (expires[o] => ReportedPaid(o))
    BY <1>4, PayContinuationFields DEF CompleteWrite, PayInv, PaymentsTypeOK, RowsExist, CompletionsArePaid
  <2>2. Accounts!Settle(o)
    BY <1>4, <2>1 DEF CompleteWrite, SetPayStatus, orderVars, ReportedPaid, Accounts!Settle,
                      Accounts!Accepted, Accounts!Accepting
  <2> QED
    BY <2>1, <2>2 DEF Accounts!Next
<1>5. ASSUME NEW h \in PayHandlers, FailWrite(h) PROVE Books
  <2> DEFINE o == preq[h].order
  <2>1. o \in Orders /\ payStatus[o] # "none"
    BY <1>5, PayContinuationFields DEF FailWrite, PayInv, PaymentsTypeOK, RowsExist
  <2>2. Accounts!Declined(o)
    BY <1>5 DEF FailWrite, FailuresAreDeclined, Accounts!Declined
  <2>3. Accounts!Decline(o)
    BY <1>5, <2>1, <2>2 DEF FailWrite, SetPayStatus, orderVars, Accounts!Decline
  <2> QED
    BY <2>1, <2>3 DEF Accounts!Next
<1>6. ASSUME NEW n \in Notice, GatewayReport(n) PROVE Books
  <2>1. n \in Accounts!Word
    BY DEF Notice, Paying, Accounts!Word, Accounts!Accepting
  <2>2. payStatus[n.order] # "none" /\ expires[n.order]
    BY <1>6 DEF GatewayReport, PayInv, PaymentsTypeOK
  <2>3. Accounts!Hear(n)
    BY <1>6, <2>2 DEF GatewayReport, payRows, orderVars, Accounts!Hear
  <2> QED
    BY <2>1, <2>3 DEF Accounts!Next
<1>7. ASSUME NEW late \in SUBSET Orders, ExpirePayments(late) PROVE Books
  <2>1. Accounts!Lapse(late)
    BY <1>7 DEF ExpirePayments, orderVars, Accounts!Lapse
  <2> QED
    BY <2>1 DEF Accounts!Next
<1>8. ASSUME NEW h \in PayHandlers,
             PayStart(h) \/ PayFail(h) \/ PayCheck(h) \/ PayGateway(h) \/ DeliverRead(h)
      PROVE  Books
  BY <1>1, <1>8 DEF PayStart, PayRead, WebhookRead, PayFail, PayCheck, PayGateway, DeliverRead,
                    payRows, orderVars
<1> QED
  BY <1>2, <1>3, <1>4, <1>5, <1>6, <1>7, <1>8 DEF PaymentsNext, PayProceed

\* The payment service implements Ledger, when staff take turns on an order: orders are
\* billed once they are ready and bills settled, declined and lapsed as the ledger says,
\* through every interleaving of payments, webhooks, deliveries and the timeout job.
THEOREM ImplementsPaymentLedger == ASSUME ~Overlap PROVE Spec => ImplementsLedger
<1>1. Init => Accounts!Init
  BY DEF Init, OrdersInit, PaymentsInit, Accounts!Init
<1>2. Init => FailuresAreDeclined
  BY DEF Init, PaymentsInit, FailuresAreDeclined, Idle
<1>3. PaidInv /\ FailuresAreDeclined /\ [Next]_vars => FailuresAreDeclined'
  BY FailuresNext DEF PaidInv
<1>4. PaidInv /\ FailuresAreDeclined /\ [Next]_vars => [Accounts!Next]_(Accounts!ledgerVars)
  <2> SUFFICES ASSUME PaidInv, FailuresAreDeclined, [Next]_vars
               PROVE  Accounts!Next \/ UNCHANGED Accounts!ledgerVars
    OBVIOUS
  <2>1. CASE OrdersNext /\ UNCHANGED payVars
    BY <2>1, OrderStepFallsDue DEF OrdersNext
  <2>2. CASE PaymentsNext
    BY <2>2, PaymentStepKeepsBooks
  <2>3. CASE UNCHANGED vars
    BY <2>3 DEF vars, orderVars, payVars, Accounts!ledgerVars
  <2> QED
    BY <2>1, <2>2, <2>3 DEF Next
<1> QED
  BY <1>1, <1>2, <1>3, <1>4, AlwaysPaidInv, PTL DEF Spec, ImplementsLedger, Accounts!Spec
=============================================================================
