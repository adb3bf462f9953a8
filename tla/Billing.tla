------------------------------ MODULE Billing ------------------------------
(***************************************************************************)
(* What an order costs against what was paid for it: the workflow of       *)
(* OrderWorkflow, which sets and changes totals, together with             *)
(* PaymentService and the payment gateway.                                 *)
(***************************************************************************)
EXTENDS OrderWorkflow, PaymentService

billingVars == <<vars, paymentVars>>

BillingInit == Init /\ PaymentInit

BillingNext ==
  \/ Next /\ UNCHANGED paymentVars
  \/ \E r \in Requests :
       PaymentStep(r) /\ UNCHANGED <<queueVars, crashes>>
  \/ GatewayStep /\ UNCHANGED <<queueVars, crashes>>

BillingSpec == BillingInit /\ [][BillingNext]_billingVars
-----------------------------------------------------------------------------
BillingTypeOK ==
  /\ order \in [Orders -> Row]
  /\ call \in [Requests ->
       {Idle} \cup UpdateCall \cup NotifyCall \cup PaymentCall \cup WebhookCall]
  /\ payment \in [Payments -> PaymentRow]
  /\ webhooks \in [Payments -> SUBSET Outcomes]

\* Payments money was received for: paid_at is set and never cleared.
Received(o) == {p \in PaymentsOf(o) : payment[p].paidAt}

\* No money goes unnoticed: an order shows 'unpaid' exactly as long as nothing
\* was received for it, whichever payments and webhooks race, are repeated or
\* arrive out of order.
UnpaidIffNothingReceived ==
  \A o \in Orders :
    order[o].paymentStatus = "unpaid" <=> Received(o) = {}

\* 'paid' is never granted on credit: while the total stands, the stale sums of
\* racing handlers only ever count too little.
PaidIsCovered ==
  \A o \in Orders :
    order[o].paymentStatus = "paid" => amountOf(Received(o)) >= order[o].total

\* A handler holds a sum of the payments of o, or its total.
Handled(o) ==
  \E r \in Requests :
    \/ call[r].kind = "createPayment" /\ call[r].order = o
    \/ call[r].kind = "webhook" /\ payment[call[r].payment].order = o

\* What the payments rely on and no code sees to: a total changes only while
\* nothing was received for the order and none of its payments is being
\* handled (weighing first and paying then keeps to it).
TotalsStand ==
  \A o \in Orders :
    Received(o) # {} \/ Handled(o) => order'[o].total = order[o].total

\* The back end used that way: every weighing allowed, but none that changes the
\* total of an order after its first payment.
StandingSpec == BillingInit /\ [][BillingNext /\ TotalsStand]_billingVars

\* An order for which the whole total was received is shown as paid.
CoveredIsPaid ==
  \A o \in Orders :
    Received(o) # {} /\ amountOf(Received(o)) >= order[o].total =>
      order[o].paymentStatus = "paid"

\* A payment that succeeded is never turned back into a failed one.
SuccessIsNotRevoked ==
  [][\A p \in Payments :
       payment[p].status = "success" => payment'[p].status # "failed"]_billingVars
=============================================================================
