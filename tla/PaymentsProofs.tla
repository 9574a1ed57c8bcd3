--------------------------- MODULE PaymentsProofs ---------------------------
(***************************************************************************)
(* Theorems about Payments, for every set of orders and handlers, whatever *)
(* the order service does meanwhile and whichever statements fail; and     *)
(* what the order service still guarantees when payments deliver its       *)
(* orders.                                                                 *)
(***************************************************************************)
EXTENDS Payments, OrdersProofs

(***************************************************************************)
(* A handler past the insertion works on a row that exists.  Rows stay and *)
(* keep their expires_at, so a gateway is only asked to charge for a row   *)
(* that can time out, and what a webhook is about to complete was reported *)
(* paid or is a cash payment.                                              *)
(***************************************************************************)
RowsExist ==
    \A h \in PayHandlers :
        /\ preq[h].at \in {"pay.gateway", "complete.write", "fail.write"} =>
               payStatus[preq[h].order] # "none"
        /\ preq[h].at = "pay.gateway" => expires[preq[h].order]

ReportedPaid(o) == \E n \in notices : n.order = o /\ n.outcome \in {"paid", "paid, no amount"}

CompletionsArePaid ==
    \A h \in PayHandlers : preq[h].at = "complete.write" /\ expires[preq[h].order] =>
        ReportedPaid(preq[h].order)

PayInv ==
    /\ PaymentsTypeOK
    /\ RowsExist
    /\ CompletedOnlyIfPaid
    /\ CompletionsArePaid

-----------------------------------------------------------------------------
LEMMA PayContinuationFields ==
    ASSUME NEW k \in PayContinuation
    PROVE  /\ k.at # "idle" => k.order \in Orders
           /\ k.at \in {"pay.check", "pay.insert"} => k.method \in Methods
BY DEF PayContinuation, Idle

LEMMA PayContinuationSteps ==
    ASSUME NEW o \in Orders
    PROVE  /\ Idle \in PayContinuation
           /\ \A m \in Methods : /\ [at |-> "pay.check", order |-> o, method |-> m] \in PayContinuation
                                 /\ [at |-> "pay.insert", order |-> o, method |-> m] \in PayContinuation
           /\ \A a \in {"pay.gateway", "complete.write", "deliver.read", "deliver.write", "fail.write"} :
                  [at |-> a, order |-> o] \in PayContinuation
BY DEF PayContinuation

LEMMA IdleStep == Idle \in PayContinuation /\ Idle.at = "idle"
BY DEF PayContinuation, Idle

\* A step that touches no payment row and no report keeps the invariant when the
\* continuation k it leaves its handler with is justified.
LEMMA PayReadStep ==
    ASSUME PayInv, NEW h \in PayHandlers, NEW k \in PayContinuation, PayContinue(h, k),
           UNCHANGED <<payRows, charged, notices>>,
           k.at \in {"pay.gateway", "complete.write", "fail.write"} => payStatus[k.order] # "none",
           k.at = "pay.gateway" => expires[k.order],
           k.at = "complete.write" /\ expires[k.order] => ReportedPaid(k.order)
    PROVE  PayInv'
<1> USE DEF PayInv, PayContinue, payRows
<1>1. PaymentsTypeOK'
  BY DEF PaymentsTypeOK
<1>2. RowsExist'
  BY DEF PaymentsTypeOK, RowsExist
<1>3. CompletedOnlyIfPaid'
  BY DEF CompletedOnlyIfPaid
<1>4. CompletionsArePaid'
  BY DEF PaymentsTypeOK, CompletionsArePaid, ReportedPaid
<1> QED
  BY <1>1, <1>2, <1>3, <1>4

-----------------------------------------------------------------------------
LEMMA PayStartInv ==
    ASSUME PayInv, NEW h \in PayHandlers, PayStart(h)
    PROVE  PayInv'
<1>1. CASE \E o \in Orders, m \in Methods : PayRead(h, o, m)
  <2>1. PICK o \in Orders, m \in Methods : PayRead(h, o, m)
    BY <1>1
  <2>2. [at |-> "pay.check", order |-> o, method |-> m] \in PayContinuation
    BY PayContinuationSteps
  <2> QED
    BY <2>1, <2>2, PayReadStep DEF PayRead
<1>2. CASE \E n \in Notice : WebhookRead(h, n)
  <2>1. PICK n \in Notice : WebhookRead(h, n)
    BY <1>2
  <2> DEFINE k == [at |-> Outcome(n), order |-> n.order]
  <2>2. n.order \in Orders /\ Outcome(n) \in {"complete.write", "fail.write"}
    BY DEF Notice, Outcome
  <2>3. k \in PayContinuation
    BY <2>2, PayContinuationSteps
  <2>4. payStatus[n.order] # "none"
    BY <2>1 DEF WebhookRead, FindsPayment
  <2>5. Outcome(n) = "complete.write" => ReportedPaid(n.order)
    BY <2>1 DEF WebhookRead, Outcome, AmountMismatch, Paying, ReportedPaid
  <2> QED
    BY <2>1, <2>2, <2>3, <2>4, <2>5, PayReadStep DEF WebhookRead
<1> QED
  BY <1>1, <1>2 DEF PayStart

LEMMA PayInsertInv ==
    ASSUME PayInv, NEW h \in PayHandlers, PayInsert(h)
    PROVE  PayInv'
<1> DEFINE o == preq[h].order
<1>1. o \in Orders /\ preq[h].method \in Methods
  BY PayContinuationFields DEF PayInv, PaymentsTypeOK, PayInsert
<1>2. CASE payStatus[o] # "none"
  <2>1. PayContinue(h, Idle) /\ UNCHANGED <<payRows, charged, notices>>
    BY <1>2 DEF PayInsert, PayDone
  <2> QED
    BY <2>1, IdleStep, PayReadStep
<1>3. CASE payStatus[o] = "none"
  <2> DEFINE k == [at |-> IF preq[h].method = "cash" THEN "complete.write" ELSE "pay.gateway",
                   order |-> o]
  <2>1. /\ payStatus' = [payStatus EXCEPT ![o] = "pending"]
        /\ expires' = [expires EXCEPT ![o] = preq[h].method # "cash"]
        /\ preq' = [preq EXCEPT ![h] = k]
        /\ UNCHANGED <<charged, notices>>
    BY <1>3 DEF PayInsert, SetPayStatus, PayNext, PayContinue
  <2>2. k \in PayContinuation
    BY <1>1, PayContinuationSteps
  <2>3. \A g \in PayHandlers : g # h => preq'[g] = preq[g]
    BY <2>1 DEF PayInv, PaymentsTypeOK
  <2>4. \A g \in PayHandlers : preq[g].at \in {"pay.gateway", "complete.write", "fail.write"} =>
            preq[g].order # o
    BY <1>3 DEF PayInv, RowsExist
  <2>5. PaymentsTypeOK'
    <3>1. /\ payStatus' \in [Orders -> PayStatuses \cup {"none"}]
          /\ expires' \in [Orders -> BOOLEAN]
          /\ preq' \in [PayHandlers -> PayContinuation]
      BY <1>1, <2>1, <2>2 DEF PayInv, PaymentsTypeOK, PayStatuses
    <3>2. \A p \in charged : p \in Orders /\ p # o /\ payStatus'[p] = payStatus[p] /\ expires'[p] = expires[p]
      BY <1>1, <1>3, <2>1 DEF PayInv, PaymentsTypeOK
    <3> QED
      BY <2>1, <3>1, <3>2 DEF PayInv, PaymentsTypeOK
  <2>6. RowsExist'
    BY <1>1, <2>1, <2>3, <2>4, PayContinuationFields DEF PayInv, PaymentsTypeOK, RowsExist
  <2>7. CompletedOnlyIfPaid'
    BY <1>1, <2>1 DEF PayInv, PaymentsTypeOK, CompletedOnlyIfPaid
  <2>8. CompletionsArePaid'
    BY <1>1, <2>1, <2>3, <2>4, PayContinuationFields
       DEF PayInv, PaymentsTypeOK, CompletionsArePaid, ReportedPaid
  <2> QED
    BY <2>5, <2>6, <2>7, <2>8 DEF PayInv
<1> QED
  BY <1>2, <1>3

\* A write of the status of an existing row, after which k is what its handler does.
LEMMA PayWriteStep ==
    ASSUME PayInv, NEW h \in PayHandlers, NEW o \in Orders, NEW s \in PayStatuses,
           NEW k \in PayContinuation, k.at \notin {"pay.gateway", "complete.write", "fail.write"},
           payStatus[o] # "none", SetPayStatus(o, s), PayContinue(h, k),
           UNCHANGED <<expires, charged, notices>>,
           s = "completed" /\ expires[o] => ReportedPaid(o)
    PROVE  PayInv'
<1> USE DEF PayInv, PaymentsTypeOK, SetPayStatus, PayContinue
<1>1. PaymentsTypeOK'
  BY DEF PayStatuses
<1>2. RowsExist'
  BY DEF PayStatuses, RowsExist
<1>3. CompletedOnlyIfPaid'
  BY DEF CompletedOnlyIfPaid, ReportedPaid
<1>4. CompletionsArePaid'
  BY DEF CompletionsArePaid, ReportedPaid
<1> QED
  BY <1>1, <1>2, <1>3, <1>4

\* GetPaymentByOrderID ends the handler or sends it on to the insertion.
LEMMA PayCheckNext ==
    ASSUME PayInv, NEW h \in PayHandlers, PayCheck(h)
    PROVE  \E k \in PayContinuation :
               /\ k.at = "idle" \/ (k.at = "pay.insert" /\ k.order = preq[h].order)
               /\ PayContinue(h, k)
<1> DEFINE o == preq[h].order
<1> DEFINE k == [at |-> "pay.insert", order |-> o, method |-> preq[h].method]
<1>1. /\ o \in Orders /\ preq[h].method \in Methods
      /\ preq[h] = [at |-> "pay.check", order |-> o, method |-> preq[h].method]
  BY DEF PayCheck, PayInv, PaymentsTypeOK, PayContinuation, Idle
<1>2. [preq[h] EXCEPT !.at = "pay.insert"] = k
  BY <1>1
<1>3. k \in PayContinuation
  BY <1>1, PayContinuationSteps
<1>4. PayContinue(h, Idle) \/ PayContinue(h, k)
  BY <1>2 DEF PayCheck, PayDone
<1> QED
  BY <1>3, <1>4, IdleStep

\* A handler that goes on keeps its order, disturbs no other handler, and never turns
\* to failing a payment: only the report a webhook starts with does that.  It turns to
\* completing one when it has inserted it.
LEMMA ProceedMoves ==
    ASSUME PayInv, NEW h \in PayHandlers, PayProceed(h) \/ PayFail(h)
    PROVE  /\ \A g \in PayHandlers : g # h => preq'[g] = preq[g]
           /\ preq'[h].at # "fail.write"
           /\ preq'[h].at = "complete.write" => PayInsert(h)
           /\ preq'[h].at # "idle" => preq[h].at # "idle" /\ preq'[h].order = preq[h].order
<1> USE DEF PayInv, PaymentsTypeOK, PayDone, PayNext, PayContinue, Idle
<1>1. CASE PayCheck(h)
  BY <1>1, PayCheckNext DEF PayCheck
<1>2. CASE PayInsert(h)
  BY <1>2 DEF PayInsert
<1>3. CASE PayGateway(h) \/ CompleteWrite(h) \/ DeliverWrite(h) \/ FailWrite(h) \/ PayFail(h)
  BY <1>3 DEF PayGateway, CompleteWrite, DeliverWrite, FailWrite, PayFail
<1>4. CASE DeliverRead(h)
  BY <1>4 DEF DeliverRead
<1> QED
  BY <1>1, <1>2, <1>3, <1>4 DEF PayProceed

LEMMA PayProceedInv ==
    ASSUME PayInv, NEW h \in PayHandlers, PayProceed(h)
    PROVE  PayInv'
<1> DEFINE o == preq[h].order
<1>1. preq[h] \in PayContinuation /\ (preq[h].at # "idle" => o \in Orders)
  BY PayContinuationFields DEF PayInv, PaymentsTypeOK
<1>2. CASE PayCheck(h)
  BY <1>2, PayCheckNext, PayReadStep DEF PayCheck
<1>3. CASE PayInsert(h)
  BY <1>3, PayInsertInv
<1>4. CASE PayGateway(h)
  <2>1. o \in Orders /\ payStatus[o] # "none" /\ expires[o]
    BY <1>1, <1>4 DEF PayGateway, PayInv, RowsExist
  <2>2. preq' = [preq EXCEPT ![h] = Idle] /\ Idle \in PayContinuation /\ Idle.at = "idle"
    BY <1>4, <2>1, PayContinuationSteps DEF PayGateway, PayDone, PayContinue, Idle
  <2>3. PaymentsTypeOK'
    BY <1>4, <2>1, <2>2 DEF PayGateway, payRows, PayInv, PaymentsTypeOK
  <2>4. RowsExist' /\ CompletionsArePaid'
    BY <1>4, <2>2 DEF PayGateway, payRows, PayInv, PaymentsTypeOK, RowsExist, CompletionsArePaid,
                      ReportedPaid
  <2>5. CompletedOnlyIfPaid'
    BY <1>4 DEF PayGateway, payRows, PayInv, CompletedOnlyIfPaid
  <2> QED
    BY <2>3, <2>4, <2>5 DEF PayInv
<1>5. CASE CompleteWrite(h)
  <2>1. o \in Orders /\ payStatus[o] # "none" /\ (expires[o] => ReportedPaid(o))
    BY <1>1, <1>5 DEF CompleteWrite, PayInv, RowsExist, CompletionsArePaid
  <2>2. [at |-> "deliver.read", order |-> o] \in PayContinuation
    BY <2>1, PayContinuationSteps
  <2> QED
    BY <1>5, <2>1, <2>2, PayWriteStep DEF CompleteWrite, PayNext, PayStatuses
<1>6. CASE DeliverRead(h)
  <2>1. o \in Orders
    BY <1>1, <1>6 DEF DeliverRead
  <2>2. PICK k \in {Idle, [at |-> "deliver.write", order |-> o]} : PayContinue(h, k)
    BY <1>6 DEF DeliverRead, PayNext, PayDone
  <2>3. k \in PayContinuation /\ k.at \in {"idle", "deliver.write"}
    <3>1. CASE k = Idle
      BY <3>1, IdleStep
    <3>2. [at |-> "deliver.write", order |-> o] \in PayContinuation
      BY <2>1, PayContinuationSteps
    <3>3. CASE k = [at |-> "deliver.write", order |-> o]
      BY <3>2, <3>3
    <3> QED
      BY <3>1, <3>3
  <2> QED
    BY <1>6, <2>2, <2>3, PayReadStep DEF DeliverRead
<1>7. CASE DeliverWrite(h)
  BY <1>7, IdleStep, PayReadStep DEF DeliverWrite, PayDone
<1>8. CASE FailWrite(h)
  <2>1. o \in Orders /\ payStatus[o] # "none"
    BY <1>1, <1>8 DEF FailWrite, PayInv, RowsExist
  <2> QED
    BY <1>8, <2>1, IdleStep, PayWriteStep DEF FailWrite, PayDone, PayStatuses
<1> QED
  BY <1>2, <1>3, <1>4, <1>5, <1>6, <1>7, <1>8 DEF PayProceed

LEMMA PayInit == Init => PayInv
BY DEF Init, PaymentsInit, PayInv, PaymentsTypeOK, RowsExist, CompletedOnlyIfPaid, CompletionsArePaid,
       PayContinuation, PayStatuses, Idle

LEMMA PayNextInv == PayInv /\ [Next]_vars => PayInv'
<1> SUFFICES ASSUME PayInv, [Next]_vars PROVE PayInv'
  OBVIOUS
<1>1. CASE UNCHANGED payVars
  BY <1>1 DEF payVars, PayInv, PaymentsTypeOK, RowsExist, CompletedOnlyIfPaid, CompletionsArePaid,
              ReportedPaid
<1>2. ASSUME NEW h \in PayHandlers, PayStart(h) \/ PayProceed(h) PROVE PayInv'
  BY <1>2, PayStartInv, PayProceedInv
<1>3. ASSUME NEW h \in PayHandlers, PayFail(h) PROVE PayInv'
  BY <1>3, IdleStep, PayReadStep DEF PayFail, PayDone
<1>4. ASSUME NEW n \in Notice, GatewayReport(n) PROVE PayInv'
  <2>1. \A o : ReportedPaid(o) => ReportedPaid(o)'
    BY <1>4 DEF GatewayReport, ReportedPaid
  <2> QED
    BY <1>4, <2>1 DEF GatewayReport, payRows, PayInv, PaymentsTypeOK, RowsExist, CompletedOnlyIfPaid,
                      CompletionsArePaid, ReportedPaid
<1>5. ASSUME NEW late \in SUBSET Orders, ExpirePayments(late) PROVE PayInv'
  <2>1. \A o \in Orders : /\ payStatus'[o] = "none" <=> payStatus[o] = "none"
                          /\ payStatus'[o] = "completed" => payStatus[o] = "completed"
    BY <1>5 DEF ExpirePayments
  <2>2. PaymentsTypeOK'
    BY <1>5, <2>1 DEF ExpirePayments, PayInv, PaymentsTypeOK, PayStatuses
  <2>3. RowsExist'
    BY <1>5, <2>1, PayContinuationFields DEF ExpirePayments, PayInv, PaymentsTypeOK, RowsExist
  <2>4. CompletedOnlyIfPaid' /\ CompletionsArePaid'
    BY <1>5, <2>1 DEF ExpirePayments, PayInv, CompletedOnlyIfPaid, CompletionsArePaid, ReportedPaid
  <2> QED
    BY <2>2, <2>3, <2>4 DEF PayInv
<1> QED
  BY <1>1, <1>2, <1>3, <1>4, <1>5 DEF Next, PaymentsNext, vars

LEMMA AlwaysPayInv == Spec => []PayInv
BY PayInit, PayNextInv, PTL DEF Spec

\* The payment rows and the handlers' memory keep their shape, and whatever a gateway
\* holds has a row the timeout job can fail.
THEOREM PaymentsTypeCorrect == Spec => []PaymentsTypeOK
BY AlwaysPayInv, PTL DEF PayInv

\* No online payment is completed unless its gateway reported it paid with no other
\* amount.
THEOREM PaidBeforeCompleted == Spec => []CompletedOnlyIfPaid
BY AlwaysPayInv, PTL DEF PayInv

\* A completed payment stays completed, unless a webhook that read it before its
\* completion is about to write "failed".
THEOREM PaidIsFinal == Spec => PaidStaysPaid
<1>1. ASSUME PayInv, Next, NEW o \in Orders, Paid(o)
      PROVE  Paid(o)'
  <2> USE DEF PayInv, PaymentsTypeOK
  <2>1. payStatus[o] = "completed" /\ ~FailureAhead(o)
    BY <1>1 DEF Paid
  <2>2. CASE UNCHANGED payVars
    BY <2>1, <2>2 DEF payVars, Paid, FailureAhead
  <2>3. ASSUME NEW h \in PayHandlers, PayStart(h) PROVE Paid(o)'
    <3>1. ~(preq'[h].at = "fail.write" /\ preq'[h].order = o)
      BY <1>1, <2>1, <2>3 DEF PayStart, PayRead, WebhookRead, PayContinue
    <3>2. payStatus' = payStatus
      BY <2>3 DEF PayStart, PayRead, WebhookRead, payRows
    <3> QED
      BY <1>1, <2>1, <2>3, <3>1, <3>2 DEF Paid, FailureAhead, PayStart, PayRead, WebhookRead, PayContinue
  <2>4. ASSUME NEW h \in PayHandlers, PayProceed(h) \/ PayFail(h) PROVE Paid(o)'
    <3>1. payStatus'[o] = "completed"
      BY <1>1, <2>1, <2>4 DEF PayProceed, PayFail, PayCheck, PayInsert, PayGateway, CompleteWrite,
         DeliverRead, DeliverWrite, FailWrite, payRows, SetPayStatus, FailureAhead
    <3>2. preq'[h].at # "fail.write" /\ \A g \in PayHandlers : g # h => preq'[g] = preq[g]
      BY <1>1, <2>4, ProceedMoves
    <3> QED
      BY <2>1, <3>1, <3>2 DEF Paid, FailureAhead
  <2>5. ASSUME NEW n \in Notice, GatewayReport(n) PROVE Paid(o)'
    BY <2>1, <2>5 DEF GatewayReport, payRows, Paid, FailureAhead
  <2>6. ASSUME NEW late \in SUBSET Orders, ExpirePayments(late) PROVE Paid(o)'
    BY <2>1, <2>6 DEF ExpirePayments, Paid, FailureAhead
  <2> QED
    BY <1>1, <2>2, <2>3, <2>4, <2>5, <2>6 DEF Next, PaymentsNext
<1>2. PayInv /\ [Next]_vars => [\A o \in Orders : Paid(o) => Paid(o)']_vars
  BY <1>1
<1> QED
  BY <1>2, AlwaysPayInv, PTL DEF Spec, PaidStaysPaid

-----------------------------------------------------------------------------
(* A payment fails on the gateway's word, or times out.                    *)

\* What a webhook is about to fail was reported declined.
FailuresAreDeclined ==
    \A h \in PayHandlers : preq[h].at = "fail.write" =>
        \E n \in notices : n.order = preq[h].order /\ n.outcome = "declined"

LEMMA FailuresNext == PayInv /\ FailuresAreDeclined /\ [Next]_vars => FailuresAreDeclined'
<1> SUFFICES ASSUME PayInv, FailuresAreDeclined, [Next]_vars,
                    NEW g \in PayHandlers, preq'[g].at = "fail.write"
             PROVE  \E n \in notices' : n.order = preq'[g].order /\ n.outcome = "declined"
  BY DEF FailuresAreDeclined
<1>1. CASE preq'[g] = preq[g]
  <2>1. notices \subseteq notices'
    BY DEF Next, vars, payVars, PaymentsNext, PayStart, PayRead, WebhookRead, PayProceed, PayCheck,
           PayInsert, PayGateway, CompleteWrite, DeliverRead, DeliverWrite, FailWrite, PayFail,
           GatewayReport, ExpirePayments
  <2> QED
    BY <1>1, <2>1 DEF FailuresAreDeclined
<1>2. CASE preq'[g] # preq[g]
  <2>1. PICK h \in PayHandlers : PayStart(h) \/ PayProceed(h) \/ PayFail(h)
    BY <1>2 DEF Next, vars, payVars, PaymentsNext, GatewayReport, ExpirePayments
  <2>2. PayStart(h) /\ g = h
    BY <1>2, <2>1, ProceedMoves DEF PayStart, PayRead, WebhookRead, PayContinue, PayInv, PaymentsTypeOK
  <2>3. PICK n \in Notice : WebhookRead(h, n)
    BY <2>2 DEF PayStart, PayRead, PayContinue, PayInv, PaymentsTypeOK
  <2>4. preq'[h] = [at |-> Outcome(n), order |-> n.order] /\ n \in notices' /\ ~AmountMismatch(n)
    BY <2>3 DEF WebhookRead, PayContinue, PayInv, PaymentsTypeOK
  <2>5. Outcome(n) = "fail.write"
    BY <2>2, <2>4
  <2>6. n.outcome = "declined"
    BY <2>5 DEF Outcome, Notice
  <2> QED
    BY <2>2, <2>4, <2>6
<1> QED
  BY <1>1, <1>2

-----------------------------------------------------------------------------
(* The service sends gateways the payment's id and looks what they return  *)
(* up as an order's.                                                       *)

OnlineNeverCompleted == \A o \in Orders : expires[o] => payStatus[o] # "completed"

\* Only cash payments have a handler that settles them.
OnlyCashSettles ==
    \A h \in PayHandlers :
        /\ preq[h].at # "fail.write"
        /\ preq[h].at = "complete.write" => ~expires[preq[h].order]

LEMMA ReferenceNext ==
    ASSUME RefSent = "payment id"
    PROVE  PayInv /\ OnlineNeverCompleted /\ OnlyCashSettles /\ [Next]_vars =>
               (OnlineNeverCompleted /\ OnlyCashSettles)'
<1> SUFFICES ASSUME PayInv, OnlineNeverCompleted, OnlyCashSettles, [Next]_vars
             PROVE  OnlineNeverCompleted' /\ OnlyCashSettles'
  OBVIOUS
<1> USE DEF PayInv, PaymentsTypeOK, OnlineNeverCompleted, OnlyCashSettles
<1>1. \A h \in PayHandlers : preq[h].at # "idle" => preq[h].order \in Orders
  BY PayContinuationFields
<1>2. CASE UNCHANGED payVars
  BY <1>2 DEF payVars
<1>3. ASSUME NEW h \in PayHandlers, PayStart(h)
      PROVE  OnlineNeverCompleted' /\ OnlyCashSettles'
  <2>1. PICK o \in Orders, m \in Methods : PayRead(h, o, m)
    BY <1>3 DEF PayStart, WebhookRead, FindsPayment
  <2>2. preq' = [preq EXCEPT ![h] = [at |-> "pay.check", order |-> o, method |-> m]]
    BY <2>1 DEF PayRead, PayContinue
  <2> QED
    BY <2>1, <2>2 DEF PayRead, payRows
<1>4. ASSUME NEW h \in PayHandlers, PayInsert(h)
      PROVE  OnlineNeverCompleted' /\ OnlyCashSettles'
  <2> DEFINE o == preq[h].order
  <2>1. CASE UNCHANGED payRows /\ PayDone(h)
    BY <2>1 DEF payRows, PayDone, PayContinue, Idle
  <2>2. CASE /\ payStatus[o] = "none" /\ SetPayStatus(o, "pending")
             /\ expires' = [expires EXCEPT ![o] = preq[h].method # "cash"]
             /\ PayNext(h, IF preq[h].method = "cash" THEN "complete.write" ELSE "pay.gateway")
    <3>1. o \in Orders
      BY <1>1, <1>4 DEF PayInsert
    <3>2. \A g \in PayHandlers : preq[g].at = "complete.write" => preq[g].order # o
      BY <2>2 DEF RowsExist
    <3>3. OnlineNeverCompleted'
      BY <2>2, <3>1 DEF SetPayStatus
    <3>4. OnlyCashSettles'
      BY <1>1, <2>2, <3>1, <3>2 DEF PayNext, PayContinue
    <3> QED
      BY <3>3, <3>4
  <2> QED
    BY <1>4, <2>1, <2>2 DEF PayInsert
<1>5. ASSUME NEW h \in PayHandlers, PayProceed(h) \/ PayFail(h), ~PayInsert(h)
      PROVE  OnlineNeverCompleted' /\ OnlyCashSettles'
  <2>1. UNCHANGED expires
    BY <1>5 DEF PayProceed, PayFail, PayCheck, PayGateway, CompleteWrite, DeliverRead, DeliverWrite,
                FailWrite, payRows
  <2>2. \A o \in Orders : payStatus'[o] = payStatus[o] \/ ~expires[o]
    BY <1>1, <1>5 DEF PayProceed, PayFail, PayCheck, PayGateway, CompleteWrite, DeliverRead,
                      DeliverWrite, FailWrite, payRows, SetPayStatus
  <2>3. preq'[h].at # "complete.write"
    BY <1>5, ProceedMoves
  <2>4. preq'[h].at # "fail.write" /\ \A g \in PayHandlers : g # h => preq'[g] = preq[g]
    BY <1>5, ProceedMoves
  <2> QED
    BY <2>1, <2>2, <2>3, <2>4
<1>6. ASSUME NEW n \in Notice, GatewayReport(n)
      PROVE  OnlineNeverCompleted' /\ OnlyCashSettles'
  BY <1>6 DEF GatewayReport, payRows
<1>7. ASSUME NEW late \in SUBSET Orders, ExpirePayments(late)
      PROVE  OnlineNeverCompleted' /\ OnlyCashSettles'
  BY <1>7 DEF ExpirePayments
<1> QED
  BY <1>2, <1>3, <1>4, <1>5, <1>6, <1>7 DEF Next, PaymentsNext, vars

\* With the reference the code sends, no online payment is ever completed: whatever the
\* gateways report, and however often, only cash payments are settled.
THEOREM OnlineIsLost == ASSUME RefSent = "payment id" PROVE Spec => []OnlineNeverCompleted
<1>1. Init => OnlineNeverCompleted /\ OnlyCashSettles
  <2> SUFFICES ASSUME Init PROVE OnlineNeverCompleted /\ OnlyCashSettles
    OBVIOUS
  <2>1. /\ \A o \in Orders : payStatus[o] = "none"
        /\ \A h \in PayHandlers : preq[h] = Idle
    BY DEF Init, PaymentsInit
  <2>2. OnlineNeverCompleted
    BY <2>1 DEF OnlineNeverCompleted
  <2>3. OnlyCashSettles
    BY <2>1, IdleStep DEF OnlyCashSettles
  <2> QED
    BY <2>2, <2>3
<1>2. PayInv /\ OnlineNeverCompleted /\ OnlyCashSettles /\ [Next]_vars =>
          (OnlineNeverCompleted /\ OnlyCashSettles)'
  BY ReferenceNext
<1> QED
  BY <1>1, <1>2, AlwaysPayInv, PTL DEF Spec

-----------------------------------------------------------------------------
(* The order service beside the payment service.  A delivery is one more   *)
(* write of a status, by a handler the order service does not know.        *)

DeliveriesHaveRows ==
    \A h \in PayHandlers : preq[h].at = "deliver.write" => status[preq[h].order] # "none"

JointInv ==
    /\ Inv
    /\ PayInv
    /\ DeliveriesHaveRows

\* No statement of the payment service but the delivery touches the orders.
LEMMA OnlyDeliveriesWrite ==
    ASSUME PaymentsNext
    PROVE  UNCHANGED orderVars \/ \E h \in PayHandlers : DeliverWrite(h)
BY DEF PaymentsNext, PayStart, PayRead, WebhookRead, PayProceed, PayCheck, PayInsert, PayGateway,
       CompleteWrite, DeliverRead, FailWrite, PayFail, GatewayReport, ExpirePayments

\* What a delivery does to the rows.
LEMMA DeliveryWrites ==
    ASSUME Inv, PayInv, NEW h \in PayHandlers, DeliverWrite(h)
    PROVE  LET o == preq[h].order IN
           /\ o \in Orders
           /\ UNCHANGED <<deleted, table, quantity, served, req>>
           /\ \A p \in Orders : p # o => status'[p] = status[p]
           /\ status'[o] = IF deleted[o] THEN status[o] ELSE "delivered"
           /\ status' \in [Orders -> Statuses \cup {"none"}]
<1> DEFINE o == preq[h].order
<1>1. o \in Orders
  BY PayContinuationFields DEF DeliverWrite, PayInv, PaymentsTypeOK
<1> QED
  BY <1>1 DEF DeliverWrite, WriteStatus, SetStatus, Inv, OrdersTypeOK, Statuses, Active, Terminal

LEMMA DeliveryKeepsInv ==
    ASSUME Inv, PayInv, NEW h \in PayHandlers, DeliverWrite(h), status[preq[h].order] # "none"
    PROVE  Inv'
<1> DEFINE o == preq[h].order
<1> USE DEF Inv
<1>1. /\ UNCHANGED <<deleted, table, quantity, served, req>>
      /\ \A p \in Orders : p # o => status'[p] = status[p]
      /\ status'[o] = IF deleted[o] THEN status[o] ELSE "delivered"
      /\ status' \in [Orders -> Statuses \cup {"none"}]
  BY DeliveryWrites
<1>2. \A p \in Orders : status'[p] = "none" <=> status[p] = "none"
  BY <1>1
<1>3. \A g \in Handlers : req[g].at # "idle" => req[g].order \in Orders
  BY ContinuationFields DEF OrdersTypeOK
<1>4. OrdersTypeOK'
  BY <1>1 DEF OrdersTypeOK
<1>5. InsertsAreFresh'
  BY <1>1, <1>2, <1>3 DEF InsertsAreFresh, OnOrder, InFlight
<1>6. OthersHaveRows' /\ ItemsHaveOrders'
  BY <1>1, <1>2, <1>3 DEF OthersHaveRows, ItemsHaveOrders
<1>7. CountsAreChecked' /\ DeletedAreCancelled'
  BY <1>1 DEF CountsAreChecked, DeletedAreCancelled
<1> QED
  BY <1>4, <1>5, <1>6, <1>7

\* Rows never disappear.
LEMMA OrdersKeepRows ==
    ASSUME Inv, OrdersNext, NEW o \in Orders, status[o] # "none"
    PROVE  status'[o] # "none"
<1> USE DEF Inv, OrdersTypeOK
<1>1. PICK h \in Handlers : Start(h) \/ Proceed(h) \/ Fail(h)
  BY DEF OrdersNext
<1>2. req[h].at = "status.write" => req[h].next \in Statuses
  BY ContinuationFields
<1>3. CASE UNCHANGED orderRows
  BY <1>3 DEF orderRows
<1>4. CASE Writes(h)
  BY <1>2, <1>4 DEF Writes, CreateInsert, StatusWrite, CancelWrite, ItemWrite, ReadyWrite,
                    WriteStatus, SetStatus, Statuses, Active, Terminal
<1> QED
  BY <1>1, <1>3, <1>4, ReadsOrWrites

LEMMA JointInit == Init => JointInv
BY InitInv, PayInit DEF Init, PaymentsInit, JointInv, DeliveriesHaveRows, Idle

LEMMA JointNext == JointInv /\ [Next]_vars => JointInv'
<1> SUFFICES ASSUME JointInv, [Next]_vars PROVE JointInv'
  OBVIOUS
<1> USE DEF JointInv
<1>1. PayInv'
  BY PayNextInv
<1>2. \A h \in PayHandlers : preq[h].at # "idle" => preq[h].order \in Orders
  BY PayContinuationFields DEF PayInv, PaymentsTypeOK
<1>3. CASE OrdersNext /\ UNCHANGED payVars
  <2>1. Inv'
    BY <1>3, NextInv
  <2>2. DeliveriesHaveRows'
    BY <1>2, <1>3, OrdersKeepRows DEF DeliveriesHaveRows, payVars
  <2> QED
    BY <1>1, <2>1, <2>2
<1>4. CASE UNCHANGED orderVars
  <2>1. Inv'
    BY <1>4, NextInv
  <2>2. ASSUME NEW g \in PayHandlers, preq'[g].at = "deliver.write", preq'[g] # preq[g]
        PROVE  status[preq'[g].order] # "none"
    <3> USE DEF PayInv, PaymentsTypeOK, PayNext, PayDone, PayContinue, Idle
    <3>1. ~\E n \in Notice : GatewayReport(n)
      BY <2>2 DEF GatewayReport
    <3>2. ~\E late \in SUBSET Orders : ExpirePayments(late)
      BY <2>2 DEF ExpirePayments
    <3>3. ~(OrdersNext /\ UNCHANGED payVars) /\ ~UNCHANGED vars
      BY <2>2 DEF vars, payVars
    <3>4. PICK h \in PayHandlers : PayStart(h) \/ PayProceed(h) \/ PayFail(h)
      BY <3>1, <3>2, <3>3 DEF Next, PaymentsNext
    <3>5. ~PayStart(h)
      BY <2>2 DEF PayStart, PayRead, WebhookRead, Outcome
    <3>6. g = h
      BY <2>2, <3>4, <3>5, ProceedMoves
    <3>7. ~PayCheck(h)
      BY <2>2, <3>6, PayCheckNext
    <3>8. DeliverRead(h)
      BY <2>2, <3>4, <3>5, <3>6, <3>7 DEF PayProceed, PayFail, PayInsert, PayGateway, CompleteWrite,
                                          DeliverWrite, FailWrite
    <3> QED
      BY <2>2, <3>6, <3>8 DEF DeliverRead, Found
  <2>3. DeliveriesHaveRows'
    BY <1>4, <2>2 DEF DeliveriesHaveRows, orderVars
  <2> QED
    BY <1>1, <2>1, <2>3
<1>5. ASSUME NEW h \in PayHandlers, DeliverWrite(h) PROVE JointInv'
  <2>1. status[preq[h].order] # "none"
    BY <1>5 DEF DeliverWrite, DeliveriesHaveRows
  <2>2. Inv'
    BY <1>5, <2>1, DeliveryKeepsInv
  <2>3. \A p \in Orders : status[p] # "none" => status'[p] # "none"
    BY <1>5, DeliveryWrites
  <2>4. \A g \in PayHandlers : preq'[g].at = "deliver.write" => preq'[g] = preq[g]
    BY <1>5 DEF DeliverWrite, PayDone, PayContinue, Idle, PayInv, PaymentsTypeOK
  <2> QED
    BY <1>1, <1>2, <2>2, <2>3, <2>4 DEF DeliveriesHaveRows
<1> QED
  BY <1>3, <1>4, <1>5, OnlyDeliveriesWrite DEF Next, vars

LEMMA AlwaysJointInv == Spec => []JointInv
BY JointInit, JointNext, PTL DEF Spec

\* The rows of the order service keep their shape, and no item is served more often
\* than it was ordered, with payments delivering orders beside the kitchen.
THEOREM PaymentsKeepOrderRows == Spec => []OrdersTypeOK
BY AlwaysJointInv, PTL DEF JointInv, Inv

\* No payment brings a deleted order back: an order cancelled while its payment is
\* under way stays deleted and cancelled.
THEOREM PaymentsKeepCancellations == Spec => CancelIsFinal
<1>1. JointInv /\ [Next]_vars =>
          [\A o \in Orders : deleted[o] => deleted'[o] /\ status'[o] = "cancelled"]_orderVars
  <2> SUFFICES ASSUME JointInv, Next, ~UNCHANGED orderVars, NEW o \in Orders, deleted[o]
               PROVE  deleted'[o] /\ status'[o] = "cancelled"
    BY DEF vars
  <2>1. CASE OrdersNext
    BY <2>1, DeletedStays DEF JointInv
  <2>2. ASSUME NEW h \in PayHandlers, DeliverWrite(h)
        PROVE  deleted'[o] /\ status'[o] = "cancelled"
    BY <2>2, DeliveryWrites DEF JointInv, Inv, DeletedAreCancelled
  <2> QED
    BY <2>1, <2>2, OnlyDeliveriesWrite DEF Next
<1> QED
  BY <1>1, AlwaysJointInv, PTL DEF Spec, CancelIsFinal

\* A delivery leaves no order in preparation with nobody to make it ready.
THEOREM PaymentsStrandNoOrder == Spec => NoOrderStranded
<1>1. JointInv /\ [Next]_vars =>
          [\A o \in Orders : ~Stranded(o) /\ Stranded(o)' =>
              \/ status[o] # "preparing"
              \/ \E h \in Handlers : OnOrder(h, o) /\ Fail(h)]_orderVars
  <2> SUFFICES ASSUME JointInv, Next, ~UNCHANGED orderVars, NEW o \in Orders,
                      ~Stranded(o), Stranded(o)', status[o] = "preparing"
               PROVE  \E h \in Handlers : OnOrder(h, o) /\ Fail(h)
    BY DEF vars
  <2>1. CASE OrdersNext
    BY <2>1, StrandedByFailure DEF JointInv
  <2>2. ASSUME NEW h \in PayHandlers, DeliverWrite(h)
        PROVE  FALSE
    <3>1. UNCHANGED <<deleted, quantity, served, req>>
      BY <2>2, DeliveryWrites DEF JointInv
    <3> QED
      BY <3>1 DEF Stranded, Found, AllServed, SumServed, SumQuantity, ReadyCheckAhead
  <2> QED
    BY <2>1, <2>2, OnlyDeliveriesWrite DEF Next
<1> QED
  BY <1>1, AlwaysJointInv, PTL DEF Spec, NoOrderStranded

\* The 30% rule holds beside payments, which delete nothing: DELETE still removes an order
\* of which 30% is served only if portions were counted between its sum and its write.
THEOREM PaymentsKeepCancelRule == Spec => CancelRule
<1>1. JointInv /\ SumsAllowCancel /\ [Next]_vars => SumsAllowCancel'
  <2> SUFFICES ASSUME JointInv, SumsAllowCancel, [Next]_vars PROVE SumsAllowCancel'
    OBVIOUS
  <2>1. CASE OrdersNext
    BY <2>1, SumsStep DEF JointInv
  <2>2. CASE UNCHANGED <<req, quantity>>
    BY <2>2 DEF SumsAllowCancel, SumQuantity
  <2>3. ASSUME NEW h \in PayHandlers, DeliverWrite(h) PROVE UNCHANGED <<req, quantity>>
    BY <2>3 DEF DeliverWrite
  <2> QED
    BY <2>1, <2>2, <2>3, OnlyDeliveriesWrite DEF Next, vars, orderVars
<1>2. JointInv /\ SumsAllowCancel /\ [Next]_vars =>
          [\A o \in Orders : ~deleted[o] /\ deleted'[o] /\ ThirtyServed(o) =>
              \E h \in Handlers : CancelWrite(h) /\ OnOrder(h, o)
                                 /\ req[h].summed # served[o]]_orderVars
  <2> SUFFICES ASSUME JointInv, SumsAllowCancel, Next, ~UNCHANGED orderVars, NEW o \in Orders,
                      ~deleted[o], deleted'[o], ThirtyServed(o)
               PROVE  \E h \in Handlers : CancelWrite(h) /\ OnOrder(h, o)
                                          /\ req[h].summed # served[o]
    BY DEF vars
  <2>1. OrdersNext
    BY OnlyDeliveriesWrite DEF Next, DeliverWrite
  <2> QED
    BY <2>1, DeletesBelowThreshold DEF JointInv
<1>3. Init => SumsAllowCancel
  BY SumsInit DEF Init
<1> QED
  BY <1>1, <1>2, <1>3, AlwaysJointInv, PTL DEF Spec, CancelRule

-----------------------------------------------------------------------------
(* Deliveries without a payment, and payments without an end.              *)

\* A payment handler at the delivery has completed its payment, which nothing but the
\* gateway's "declined" can have changed since.
DeliveriesArePaid ==
    \A h \in PayHandlers : preq[h].at \in {"deliver.read", "deliver.write"} =>
        payStatus[preq[h].order] = "completed" \/ Declined(preq[h].order)

\* The statements that change a payment's status.
LEMMA StatusChanges ==
    ASSUME PayInv, Next, NEW o \in Orders, payStatus'[o] # payStatus[o]
    PROVE  \/ \E h \in PayHandlers : PayInsert(h) /\ preq[h].order = o /\ payStatus[o] = "none"
           \/ \E h \in PayHandlers : CompleteWrite(h) /\ preq[h].order = o
           \/ \E h \in PayHandlers : FailWrite(h) /\ preq[h].order = o
           \/ payStatus[o] = "pending" /\ payStatus'[o] = "failed"
<1> USE DEF PayInv, PaymentsTypeOK
<1>1. PaymentsNext
  BY DEF Next, payVars
<1>2. CASE \E late \in SUBSET Orders : ExpirePayments(late)
  BY <1>2 DEF ExpirePayments
<1>3. CASE \E h \in PayHandlers : PayInsert(h)
  BY <1>3 DEF PayInsert, SetPayStatus, payRows
<1>4. CASE \E h \in PayHandlers : CompleteWrite(h) \/ FailWrite(h)
  BY <1>4 DEF CompleteWrite, FailWrite, SetPayStatus
<1> QED
  BY <1>1, <1>2, <1>3, <1>4 DEF PaymentsNext, PayStart, PayRead, WebhookRead, PayProceed, PayCheck,
     PayGateway, DeliverRead, DeliverWrite, PayFail, GatewayReport, payRows

\* Which handlers come to a delivery, and how.
LEMMA ComesToDeliver ==
    ASSUME PayInv, Next, NEW g \in PayHandlers, preq'[g].at \in {"deliver.read", "deliver.write"}
    PROVE  \/ preq'[g] = preq[g]
           \/ CompleteWrite(g) /\ preq'[g].order = preq[g].order
           \/ DeliverRead(g) /\ preq'[g].order = preq[g].order
<1> SUFFICES ASSUME preq'[g] # preq[g]
             PROVE  \/ CompleteWrite(g) /\ preq'[g].order = preq[g].order
                    \/ DeliverRead(g) /\ preq'[g].order = preq[g].order
  OBVIOUS
<1> USE DEF PayInv, PaymentsTypeOK
<1>1. PICK h \in PayHandlers : PayStart(h) \/ PayProceed(h) \/ PayFail(h)
  BY DEF Next, payVars, PaymentsNext, GatewayReport, ExpirePayments
<1>2. ~PayStart(h)
  BY DEF PayStart, PayRead, WebhookRead, Outcome, PayContinue
<1>3. g = h /\ preq'[g].order = preq[g].order
  BY <1>1, <1>2, ProceedMoves
<1>4. ~PayCheck(h)
  BY <1>3, PayCheckNext DEF PayContinue
<1> QED
  BY <1>1, <1>2, <1>3, <1>4 DEF PayProceed, PayFail, PayInsert, PayGateway, DeliverWrite, FailWrite,
     PayDone, PayNext, PayContinue, Idle

LEMMA DeclinedNotice ==
    ASSUME PayInv, FailuresAreDeclined, NEW h \in PayHandlers, FailWrite(h)
    PROVE  [order |-> preq[h].order, outcome |-> "declined"] \in notices
<1>1. PICK n \in notices : n.order = preq[h].order /\ n.outcome = "declined"
  BY DEF FailuresAreDeclined, FailWrite
<1>2. n = [order |-> preq[h].order, outcome |-> "declined"]
  BY <1>1 DEF PayInv, PaymentsTypeOK, Notice
<1> QED
  BY <1>1, <1>2

LEMMA DeliveriesPaidNext ==
    PayInv /\ FailuresAreDeclined /\ DeliveriesArePaid /\ [Next]_vars => DeliveriesArePaid'
<1> SUFFICES ASSUME PayInv, FailuresAreDeclined, DeliveriesArePaid, [Next]_vars,
                    NEW g \in PayHandlers, preq'[g].at \in {"deliver.read", "deliver.write"}
             PROVE  payStatus'[preq'[g].order] = "completed" \/ Declined(preq[g].order)'
  BY DEF DeliveriesArePaid
<1> USE DEF PayInv, PaymentsTypeOK
<1>1. CASE UNCHANGED vars
  BY <1>1 DEF vars, payVars, DeliveriesArePaid, Declined
<1>2. CASE Next
  <2> DEFINE o == preq'[g].order
  <2>1. preq'[g] \in PayContinuation
    BY PayNextInv
  <2>2. o \in Orders
    BY <2>1, PayContinuationFields
  <2>3. notices \subseteq notices'
    BY <1>2 DEF Next, payVars, PaymentsNext, PayStart, PayRead, WebhookRead, PayProceed, PayCheck,
           PayInsert, PayGateway, CompleteWrite, DeliverRead, DeliverWrite, FailWrite, PayFail,
           GatewayReport, ExpirePayments
  <2>4. CASE CompleteWrite(g) /\ o = preq[g].order
    BY <2>2, <2>4 DEF CompleteWrite, SetPayStatus
  <2>5. CASE preq[g].at \in {"deliver.read", "deliver.write"} /\ o = preq[g].order
    <3>1. payStatus[o] = "completed" \/ Declined(o)
      BY <2>5 DEF DeliveriesArePaid
    <3>2. CASE payStatus'[o] = payStatus[o]
      BY <2>3, <3>1, <3>2 DEF Declined
    <3>3. CASE payStatus'[o] # payStatus[o]
      <4>1. payStatus[o] \in {"completed", "failed"}
        BY <3>1 DEF Declined
      <4>2. PICK h \in PayHandlers : (CompleteWrite(h) \/ FailWrite(h)) /\ preq[h].order = o
        BY <1>2, <2>2, <3>3, <4>1, StatusChanges
      <4>3. CASE CompleteWrite(h)
        BY <2>2, <4>2, <4>3 DEF CompleteWrite, SetPayStatus
      <4>4. CASE FailWrite(h)
        <5>1. payStatus'[o] = "failed"
          BY <2>2, <4>2, <4>4 DEF FailWrite, SetPayStatus
        <5>2. [order |-> o, outcome |-> "declined"] \in notices'
          BY <2>3, <4>2, <4>4, DeclinedNotice
        <5> QED
          BY <5>1, <5>2 DEF Declined
      <4> QED
        BY <4>2, <4>3, <4>4
    <3> QED
      BY <3>2, <3>3
  <2> QED
    BY <1>2, <2>4, <2>5, ComesToDeliver DEF DeliverRead
<1> QED
  BY <1>1, <1>2

\* The service itself delivers no order whose payment is not completed: an unpaid order is
\* delivered by the staff's PATCH, or because a contradicting report came in between.
THEOREM UnpaidDeliveredByHand == Spec => UnpaidOnlyByHand
<1>1. ASSUME JointInv, DeliveriesArePaid, Next, NEW o \in Orders,
             status[o] # "delivered", status'[o] = "delivered"
      PROVE  payStatus[o] = "completed" \/ ByHand(o) \/ Declined(o)
  <2> USE DEF JointInv
  <2>1. CASE OrdersNext
    <3>1. PICK h \in Handlers : Start(h) \/ Proceed(h) \/ Fail(h)
      BY <2>1 DEF OrdersNext
    <3>2. Writes(h)
      BY <1>1, <3>1, ReadsOrWrites DEF orderRows
    <3>3. StatusWrite(h) /\ req[h].order = o
      BY <1>1, <3>2 DEF Writes, CreateInsert, StatusWrite, CancelWrite, ItemWrite, ReadyWrite,
                        WriteStatus, SetStatus, Inv, OrdersTypeOK
    <3> QED
      BY <3>3 DEF ByHand, StatusWrite, OnOrder, InFlight
  <2>2. ASSUME NEW h \in PayHandlers, DeliverWrite(h)
        PROVE  payStatus[o] = "completed" \/ Declined(o)
    <3>1. preq[h].order = o
      BY <1>1, <2>2, DeliveryWrites
    <3> QED
      BY <1>1, <2>2, <3>1 DEF DeliverWrite, DeliveriesArePaid
  <2>3. CASE UNCHANGED orderVars
    BY <1>1, <2>3 DEF orderVars
  <2> QED
    BY <1>1, <2>1, <2>2, <2>3, OnlyDeliveriesWrite DEF Next
<1>2. JointInv /\ DeliveriesArePaid /\ [Next]_vars =>
          [\A o \in Orders : status[o] # "delivered" /\ status'[o] = "delivered" =>
              payStatus[o] = "completed" \/ ByHand(o) \/ Declined(o)]_vars
  BY <1>1
<1>3. Init => FailuresAreDeclined /\ DeliveriesArePaid
  BY DEF Init, PaymentsInit, FailuresAreDeclined, DeliveriesArePaid, Idle
<1> QED
  BY <1>2, <1>3, FailuresNext, DeliveriesPaidNext, AlwaysPayInv, AlwaysJointInv, PTL
     DEF Spec, UnpaidOnlyByHand

LEMMA StuckStep ==
    ASSUME PayInv, Next, NEW o \in Orders, ~StuckPending(o), StuckPending(o)'
    PROVE  \E h \in PayHandlers : preq[h] # Idle /\ preq[h].order = o /\ PayFail(h)
<1> USE DEF PayInv, PaymentsTypeOK
<1>1. /\ payStatus'[o] = "pending" /\ ~expires'[o]
      /\ \A h \in PayHandlers : ~(preq'[h].at = "complete.write" /\ preq'[h].order = o)
  BY DEF StuckPending
<1>2. ASSUME NEW h \in PayHandlers, PayInsert(h), preq[h].order = o PROVE payStatus[o] # "none"
  <2> SUFFICES ASSUME payStatus[o] = "none" PROVE FALSE
    OBVIOUS
  <2>1. /\ expires' = [expires EXCEPT ![o] = preq[h].method # "cash"]
        /\ PayNext(h, IF preq[h].method = "cash" THEN "complete.write" ELSE "pay.gateway")
    BY <1>2 DEF PayInsert
  <2>2. preq[h].method = "cash"
    BY <1>1, <2>1
  <2>3. preq'[h] = [at |-> "complete.write", order |-> o]
    BY <1>2, <2>1, <2>2 DEF PayNext, PayContinue
  <2> QED
    BY <1>1, <2>3
<1>3. payStatus'[o] = payStatus[o]
  BY <1>1, <1>2, StatusChanges DEF CompleteWrite, FailWrite, SetPayStatus
<1>4. expires'[o] = expires[o]
  <2>1. CASE \E h \in PayHandlers : PayInsert(h)
    BY <1>2, <2>1 DEF PayInsert, payRows
  <2> QED
    BY <2>1 DEF Next, payVars, PaymentsNext, PayStart, PayRead, WebhookRead, PayProceed, PayCheck,
       PayGateway, CompleteWrite, DeliverRead, DeliverWrite, FailWrite, PayFail, GatewayReport,
       ExpirePayments, payRows
<1>5. PICK g \in PayHandlers : preq[g].at = "complete.write" /\ preq[g].order = o
  BY <1>1, <1>3, <1>4 DEF StuckPending
<1>6. preq'[g] # preq[g]
  BY <1>1, <1>5
<1>7. PICK h \in PayHandlers : PayStart(h) \/ PayProceed(h) \/ PayFail(h)
  BY <1>6 DEF Next, payVars, PaymentsNext, GatewayReport, ExpirePayments
<1>8. g = h
  BY <1>6, <1>7, ProceedMoves DEF PayStart, PayRead, WebhookRead, PayContinue
<1>9. ~PayStart(h) /\ preq[h] # Idle
  <2>1. preq[h] # Idle
    BY <1>5, <1>8, IdleStep
  <2> QED
    BY <2>1 DEF PayStart, PayRead, WebhookRead
<1>10. ~PayProceed(h)
  BY <1>1, <1>3, <1>5, <1>8 DEF PayProceed, PayCheck, PayInsert, PayGateway, CompleteWrite,
     DeliverRead, DeliverWrite, FailWrite, SetPayStatus
<1> QED
  BY <1>5, <1>7, <1>8, <1>9, <1>10

\* A cash payment is left pending, which nothing ends, only by the failure of the handler
\* that inserted it.
THEOREM PendingStuckByFailure == Spec => StuckByFailure
<1>1. PayInv /\ [Next]_vars =>
          [\A o \in Orders : ~StuckPending(o) /\ StuckPending(o)' =>
              \E h \in PayHandlers : preq[h] # Idle /\ preq[h].order = o /\ PayFail(h)]_vars
  BY StuckStep
<1> QED
  BY <1>1, AlwaysPayInv, PTL DEF Spec, StuckByFailure
=============================================================================
