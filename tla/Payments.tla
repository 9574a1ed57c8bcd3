------------------------------ MODULE Payments ------------------------------
(***************************************************************************)
(* The payment service (internal/service/payment_service.go), the timeout  *)
(* job (internal/jobs/payment_timeout.go) and the gateway they talk to,    *)
(* running beside the order service on the same order rows.                *)
(*                                                                         *)
(* A payment handler (POST /payments or a webhook) is a goroutine like     *)
(* those of Orders: one database statement a step, and what it remembers   *)
(* is preq[h].  Signatures are taken to be verified: the handlers do that  *)
(* before anything else.  payments.attempt_count, gateway_ref, gateway_data*)
(* and paid_at are written and never read by the service; they are left    *)
(* out, and with them the statement that increments attempt_count.         *)
(***************************************************************************)
EXTENDS Orders

CONSTANTS
    PayHandlers,    \* payment request goroutines that may run at the same time
    RefSent         \* which id the gateways get, and so return, as their reference

ASSUME PaymentsAssumption == RefSent \in {"payment id", "order id"}

VARIABLES
    payStatus,  \* payStatus[o]: payments.status of the order's row, "none" without one
    expires,    \* expires[o]: payments.expires_at is not NULL
    charged,    \* orders for which a gateway holds a payment request
    notices,    \* what the gateways have to report; each may come late, twice or never
    preq        \* preq[h]: what payment handler h does next and what it has read

payRows == <<payStatus, expires>>
payVars == <<payStatus, expires, charged, notices, preq>>
vars == <<orderVars, payVars>>

-----------------------------------------------------------------------------
\* The three gateways are treated alike.
Methods == {"cash", "online"}
PayStatuses == {"pending", "completed", "failed"}

\* What a gateway reports of a charge: declined, or paid with the amount of the
\* payment, without an amount, or with another one.
Paying == {"paid", "paid, no amount", "paid, other amount"}
Notice == [order : Orders, outcome : Paying \cup {"declined"}]

PayContinuation ==
    {Idle}
    \cup [at : {"pay.check", "pay.insert"}, order : Orders, method : Methods]
    \cup [at : {"pay.gateway", "complete.write", "deliver.read", "deliver.write", "fail.write"},
          order : Orders]

PayContinue(h, k) == preq' = [preq EXCEPT ![h] = k]
PayDone(h) == PayContinue(h, Idle)
PayNext(h, step) == PayContinue(h, [at |-> step, order |-> preq[h].order])

SetPayStatus(o, s) == payStatus' = [payStatus EXCEPT ![o] = s]

-----------------------------------------------------------------------------
(* CreatePayment.                                                          *)

\* A bug: any live order can be paid for.
Bug_PayBeforeReady(h, o, m) ==
    /\ preq[h] = Idle
    /\ Found(o)
    /\ status[o] \in Active
    /\ PayContinue(h, [at |-> "pay.check", order |-> o, method |-> m])
    /\ UNCHANGED <<orderVars, payRows, charged, notices>>

\* GetOrderForPayment.
PayRead(h, o, m) ==
    /\ preq[h] = Idle
    /\ Found(o)
    /\ status[o] = "ready"
    /\ PayContinue(h, [at |-> "pay.check", order |-> o, method |-> m])
    /\ UNCHANGED <<orderVars, payRows, charged, notices>>

\* GetPaymentByOrderID: a row that has not failed ends the request.  A lookup that
\* fails is treated like one that finds nothing.
PayCheck(h) ==
    /\ preq[h].at = "pay.check"
    /\ \/ /\ payStatus[preq[h].order] \in {"pending", "completed"}
          /\ PayDone(h)
       \/ /\ payStatus[preq[h].order] \in {"none", "failed"} \/ Faults
          /\ PayContinue(h, [preq[h] EXCEPT !.at = "pay.insert"])
    /\ UNCHANGED <<orderVars, payRows, charged, notices>>

\* A bug: an online payment's row gets no expires_at, so that it never times out.
Bug_NoExpiry(h) ==
    /\ preq[h].at = "pay.insert"
    /\ LET o == preq[h].order IN
       \/ /\ payStatus[o] # "none"
          /\ PayDone(h)
          /\ UNCHANGED payRows
       \/ /\ payStatus[o] = "none"
          /\ SetPayStatus(o, "pending")
          /\ PayNext(h, IF preq[h].method = "cash" THEN "complete.write" ELSE "pay.gateway")
          /\ UNCHANGED expires
    /\ UNCHANGED <<orderVars, charged, notices>>

\* A bug: a cash payment's order is delivered, but the payment stays pending.
Bug_CashNotCompleted(h) ==
    /\ preq[h].at = "pay.insert"
    /\ LET o == preq[h].order IN
       \/ /\ payStatus[o] # "none"
          /\ PayDone(h)
          /\ UNCHANGED payRows
       \/ /\ payStatus[o] = "none"
          /\ SetPayStatus(o, "pending")
          /\ expires' = [expires EXCEPT ![o] = preq[h].method # "cash"]
          /\ PayNext(h, IF preq[h].method = "cash" THEN "deliver.read" ELSE "pay.gateway")
    /\ UNCHANGED <<orderVars, charged, notices>>

\* INSERT INTO payments, which UNIQUE (order_id) rejects when the order has a row,
\* failed or not.
PayInsert(h) ==
    /\ preq[h].at = "pay.insert"
    /\ LET o == preq[h].order IN
       \/ /\ payStatus[o] # "none"
          /\ PayDone(h)
          /\ UNCHANGED payRows
       \/ /\ payStatus[o] = "none"
          /\ SetPayStatus(o, "pending")
          /\ expires' = [expires EXCEPT ![o] = preq[h].method # "cash"]
          /\ PayNext(h, IF preq[h].method = "cash" THEN "complete.write" ELSE "pay.gateway")
    /\ UNCHANGED <<orderVars, charged, notices>>

\* The payment URL is built, or the gateway called; failure is logged and the
\* pending row stays.
PayGateway(h) ==
    /\ preq[h].at = "pay.gateway"
    /\ \/ charged' = charged \cup {preq[h].order}
       \/ UNCHANGED charged
    /\ PayDone(h)
    /\ UNCHANGED <<orderVars, payRows, notices>>

-----------------------------------------------------------------------------
(* completePayment, and MarkOrderDelivered which it ends with.             *)

\* A bug: only the payment is completed; its order is left to the staff.
Bug_NothingDelivered(h) ==
    /\ preq[h].at = "complete.write"
    /\ SetPayStatus(preq[h].order, "completed")
    /\ PayDone(h)
    /\ UNCHANGED <<orderVars, expires, charged, notices>>

\* UPDATE payments ... WHERE id = ?: whatever the row's status is by now.
CompleteWrite(h) ==
    /\ preq[h].at = "complete.write"
    /\ SetPayStatus(preq[h].order, "completed")
    /\ PayNext(h, "deliver.read")
    /\ UNCHANGED <<orderVars, expires, charged, notices>>

\* An order that is gone, delivered already or not ready ends the handler; the
\* error is logged and not returned.
DeliverRead(h) ==
    /\ preq[h].at = "deliver.read"
    /\ LET o == preq[h].order IN
       \/ /\ Found(o) /\ status[o] = "ready"
          /\ PayNext(h, "deliver.write")
       \/ /\ ~(Found(o) /\ status[o] = "ready")
          /\ PayDone(h)
    /\ UNCHANGED <<orderVars, payRows, charged, notices>>

DeliverWrite(h) ==
    /\ preq[h].at = "deliver.write"
    /\ WriteStatus(preq[h].order, "delivered")
    /\ PayDone(h)
    /\ UNCHANGED <<deleted, table, quantity, served, req, payRows, charged, notices>>

-----------------------------------------------------------------------------
(* Webhooks.                                                               *)

\* A gateway learns how a charge ended.  It reports as often as it likes.
GatewayReport(n) ==
    /\ n.order \in charged
    /\ notices' = notices \cup {n}
    /\ UNCHANGED <<orderVars, payRows, charged, preq>>

\* processWebhookResult looks its reference up as an order id.
FindsPayment(n) == RefSent = "order id" /\ payStatus[n.order] # "none"

AmountMismatch(n) == n.outcome = "paid, other amount"

\* A bug: a success without an amount is taken for a failure.
Bug_AmountRequired(n) == IF n.outcome = "paid" THEN "complete.write" ELSE "fail.write"

\* What the webhook does after its checks.
Outcome(n) == IF n.outcome \in Paying THEN "complete.write" ELSE "fail.write"

\* A bug: the amount is not compared.
Bug_AnyAmount(h, n) ==
    /\ preq[h] = Idle
    /\ n \in notices
    /\ FindsPayment(n)
    /\ payStatus[n.order] # "completed"
    /\ PayContinue(h, [at |-> Outcome(n), order |-> n.order])
    /\ UNCHANGED <<orderVars, payRows, charged, notices>>

\* A bug: a webhook for a completed payment is processed again.
Bug_NotIdempotent(h, n) ==
    /\ preq[h] = Idle
    /\ n \in notices
    /\ FindsPayment(n)
    /\ ~AmountMismatch(n)
    /\ PayContinue(h, [at |-> Outcome(n), order |-> n.order])
    /\ UNCHANGED <<orderVars, payRows, charged, notices>>

\* The payment is read once; from here on the handler acts on what it saw.
WebhookRead(h, n) ==
    /\ preq[h] = Idle
    /\ n \in notices
    /\ FindsPayment(n)
    /\ payStatus[n.order] # "completed"
    /\ ~AmountMismatch(n)
    /\ PayContinue(h, [at |-> Outcome(n), order |-> n.order])
    /\ UNCHANGED <<orderVars, payRows, charged, notices>>

\* UPDATE payments SET status = 'failed' ... WHERE id = ?, with no status guard.
FailWrite(h) ==
    /\ preq[h].at = "fail.write"
    /\ SetPayStatus(preq[h].order, "failed")
    /\ PayDone(h)
    /\ UNCHANGED <<orderVars, expires, charged, notices>>

-----------------------------------------------------------------------------
\* A bug: the job expires every payment whose time has passed, paid or not.
Bug_ExpireCompleted(late) ==
    /\ late \subseteq {o \in Orders : payStatus[o] \in {"pending", "completed"} /\ expires[o]}
    /\ payStatus' = [o \in Orders |-> IF o \in late THEN "failed" ELSE payStatus[o]]
    /\ UNCHANGED <<orderVars, expires, charged, notices, preq>>

\* The timeout job: one UPDATE fails every pending payment whose expires_at has
\* passed.  Time is not modelled: late is any set of payments that have one.
ExpirePayments(late) ==
    /\ late \subseteq {o \in Orders : payStatus[o] = "pending" /\ expires[o]}
    /\ payStatus' = [o \in Orders |-> IF o \in late THEN "failed" ELSE payStatus[o]]
    /\ UNCHANGED <<orderVars, expires, charged, notices, preq>>

\* A statement failed, the request was cancelled or the process stopped.  The
\* errors CreatePayment and completePayment swallow end the handler here too.
PayFail(h) ==
    /\ Faults
    /\ preq[h] # Idle
    /\ PayDone(h)
    /\ UNCHANGED <<orderVars, payRows, charged, notices>>

-----------------------------------------------------------------------------
PaymentsInit ==
    /\ payStatus = [o \in Orders |-> "none"]
    /\ expires = [o \in Orders |-> FALSE]
    /\ charged = {}
    /\ notices = {}
    /\ preq = [h \in PayHandlers |-> Idle]

PayStart(h) ==
    \/ \E o \in Orders, m \in Methods : PayRead(h, o, m)
    \/ \E n \in Notice : WebhookRead(h, n)

PayProceed(h) ==
    \/ PayCheck(h)
    \/ PayInsert(h)
    \/ PayGateway(h)
    \/ CompleteWrite(h)
    \/ DeliverRead(h)
    \/ DeliverWrite(h)
    \/ FailWrite(h)

PaymentsNext ==
    \/ \E h \in PayHandlers : PayStart(h) \/ PayProceed(h) \/ PayFail(h)
    \/ \E n \in Notice : GatewayReport(n)
    \/ \E late \in SUBSET Orders \ {{}} : ExpirePayments(late)

Init == OrdersInit /\ PaymentsInit

Next ==
    \/ OrdersNext /\ UNCHANGED payVars
    \/ PaymentsNext

Spec == Init /\ [][Next]_vars

\* Handlers run on, and a gateway repeats a report until the webhook has read it.
Fairness ==
    /\ \A h \in Handlers : WF_vars(Proceed(h) /\ UNCHANGED payVars)
    /\ \A h \in PayHandlers : WF_vars(PayProceed(h))
    /\ \A n \in Notice : SF_vars(\E h \in PayHandlers : WebhookRead(h, n))
FairSpec == Spec /\ Fairness

-----------------------------------------------------------------------------
(* Properties.                                                             *)

\* The rows and the handlers' memory keep their shape, and a request the gateway
\* holds always has a row that can time out.
PaymentsTypeOK ==
    /\ payStatus \in [Orders -> PayStatuses \cup {"none"}]
    /\ expires \in [Orders -> BOOLEAN]
    /\ charged \subseteq {o \in Orders : payStatus[o] # "none" /\ expires[o]}
    /\ notices \subseteq Notice
    /\ preq \in [PayHandlers -> PayContinuation]

\* "Payment created ONLY when order.status = 'ready'."  The check and the INSERT
\* are statements apart, yet while staff take turns on an order, an order with a
\* payment is ready or delivered and never goes back to the kitchen or gets
\* cancelled under its payment.
PaymentOnlyFromReady ==
    \A o \in Orders : payStatus[o] # "none" => status[o] \in {"ready", "delivered"}

\* No online payment is completed unless its gateway reported it paid, and with no
\* other amount than the order's.
CompletedOnlyIfPaid ==
    \A o \in Orders : payStatus[o] = "completed" /\ expires[o] =>
        \E n \in notices : n.order = o /\ n.outcome \in {"paid", "paid, no amount"}

\* A completed payment is final once no webhook that read it earlier is about to
\* write "failed": neither the timeout job nor a repeated, late or contradicting
\* report changes it.
FailureAhead(o) == \E h \in PayHandlers : preq[h].at = "fail.write" /\ preq[h].order = o
Paid(o) == payStatus[o] = "completed" /\ ~FailureAhead(o)
PaidStaysPaid == [][\A o \in Orders : Paid(o) => Paid(o)']_vars

\* Payments deliver orders without waiting for anybody's turn.  Even so, while staff
\* take turns, an order's status follows the transition table, but for one case: an
\* auto-ready check that found the order in preparation may write "ready" over
\* "delivered", after another check made it ready and its payment delivered it.
LateReady(o) == \E h \in Handlers : OnOrder(h, o) /\ ReadyWrite(h)
OnlyAutoReadyReopens ==
    [][\A o \in Orders : status'[o] # status[o] =>
          \/ status[o] = "none" /\ status'[o] = "pending"
          \/ status'[o] \in ValidTransitions(status[o])
          \/ /\ status[o] = "delivered" /\ status'[o] = "ready"
             /\ LateReady(o) /\ payStatus[o] # "none"]_vars

\* An order whose payment is completed is delivered, or a handler is on its way to
\* deliver it.  While staff take turns this ends only when that handler fails, or
\* when a late auto-ready check puts the order back.
DeliveryAhead(o) ==
    \E h \in PayHandlers : preq[h].at \in {"deliver.read", "deliver.write"} /\ preq[h].order = o
Undelivered(o) ==
    payStatus[o] = "completed" /\ status[o] # "delivered" /\ ~DeliveryAhead(o)
DeliveryLostByFailure ==
    [][\A o \in Orders : ~Undelivered(o) /\ Undelivered(o)' =>
          \/ \E h \in PayHandlers : preq[h] # Idle /\ preq[h].order = o /\ PayFail(h)
          \/ LateReady(o)]_vars

\* "ready -> delivered: after the payment is done."  An order is delivered with its
\* payment not completed only by staff, whose PATCH does not look at payments, or
\* when a webhook that read the payment earlier writes the gateway's "declined"
\* between its completion and the delivery.
ByHand(o) == \E h \in Handlers : StatusWrite(h) /\ OnOrder(h, o)
Declined(o) == payStatus[o] = "failed" /\ [order |-> o, outcome |-> "declined"] \in notices
UnpaidOnlyByHand ==
    [][\A o \in Orders : status[o] # "delivered" /\ status'[o] = "delivered" =>
          payStatus[o] = "completed" \/ ByHand(o) \/ Declined(o)]_vars

\* A cash payment has no expires_at: pending, it is settled by the handler that
\* inserted it, or by nothing.  It is left pending for good only when that handler
\* fails between the INSERT and the completion.
StuckPending(o) ==
    /\ payStatus[o] = "pending" /\ ~expires[o]
    /\ ~\E h \in PayHandlers : preq[h].at = "complete.write" /\ preq[h].order = o
StuckByFailure ==
    [][\A o \in Orders : ~StuckPending(o) /\ StuckPending(o)' =>
          \E h \in PayHandlers : preq[h] # Idle /\ preq[h].order = o /\ PayFail(h)]_vars

Accounts == INSTANCE Ledger WITH
                due <- {o \in Orders : status[o] \in {"ready", "delivered"}},
                bill <- payStatus, online <- expires, word <- notices

\* While staff take turns, the payment service keeps the books the ledger describes:
\* nothing but the gateway's word settles or fails an online payment, except the
\* timeout of a pending one, and only orders that have been ready are billed.
ImplementsLedger == Accounts!Spec

\* "UNIQUE(order_id): retries must UPDATE, never INSERT."
RetryNeverInserts ==
    \A h \in PayHandlers : preq[h].at = "pay.insert" => payStatus[preq[h].order] = "none"

\* What a gateway reports paid becomes a completed payment.
PaidIsRecorded ==
    \A o \in Orders :
        [order |-> o, outcome |-> "paid"] \in notices ~> payStatus[o] = "completed"
=============================================================================
