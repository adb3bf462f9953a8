--------------------------- MODULE PaymentService ---------------------------
(***************************************************************************)
(* payment.service.ts: payments at the counter and through the gateway,    *)
(* and the gateway's webhook.  Both handlers add up the payments in the    *)
(* snapshot they read first and write the sum's verdict in a later         *)
(* transaction.                                                            *)
(***************************************************************************)
EXTENDS OrderTable, FiniteSetsExt

CONSTANTS
  Payments,   \* payment ids the database may hand out
  Amounts,    \* amounts a request may pay
  Methods,    \* which of "cash" and "digital" are used
  Outcomes    \* which webhooks the gateway sends

ASSUME AmountsAssumption  == Amounts \subseteq Nat \ {0}
ASSUME MethodsAssumption  == Methods \subseteq {"cash", "digital"}
ASSUME OutcomesAssumption == Outcomes \subseteq {"success", "failed", "refunded"}

VARIABLES
  payment,   \* payment[p]: the row of payment p
  webhooks   \* webhooks[p]: what the gateway has sent about p; delivered any
             \* number of times, in any order

paymentVars == <<payment, webhooks>>

\* A row, or the place of one not created yet (status "none", amount 0).  paidAt
\* says whether paid_at is set; transfer, qris and ewallet are "digital".
PaymentRow ==
  [status : {"none", "pending", "success", "failed", "refunded"},
   order : Orders, method : {"cash", "digital"}, amount : Nat, paidAt : BOOLEAN]

NoPayment ==
  [status |-> "none", order |-> CHOOSE o \in Orders : TRUE, method |-> "cash",
   amount |-> 0, paidAt |-> FALSE]

\* createPayment before its transaction: the sum of the successful payments and
\* the total it read.
PaymentCall ==
  [kind : {"createPayment"}, order : Orders, method : {"cash", "digital"},
   amount : Amounts, collected : Nat, due : Nat]

\* handleWebhook with status 'success', before its transaction.
WebhookCall ==
  [kind : {"webhook"}, payment : Payments, collected : Nat, due : Nat]

PaymentInit ==
  /\ payment = [p \in Payments |-> NoPayment]
  /\ webhooks = [p \in Payments |-> {}]

Issued(p) == payment[p].status # "none"

PaymentsOf(o) == {p \in Payments : Issued(p) /\ payment[p].order = o}

amounts == [p \in Payments |-> payment[p].amount]

amountOf(S) == SumFunctionOnSet(amounts, S)

\* Mutant: payments that still wait for the gateway count.
NotFailed(o) == {p \in PaymentsOf(o) : payment[p].status # "failed"}

Successful(o) == {p \in PaymentsOf(o) : payment[p].status = "success"}

\* Mutant: a status of its own for more than the total.
verdictWithOverpaid(collected, due) ==
  IF collected > due THEN "overpaid"
  ELSE IF collected = due THEN "paid" ELSE "partial"

verdict(collected, due) == IF collected >= due THEN "paid" ELSE "partial"

\* createPayment up to its transaction; a paid order is answered
\* ORDER_ALREADY_PAID.
BeginPayment(r, o, method, amount) ==
  /\ Free(r)
  /\ Exists(o)
  /\ order[o].paymentStatus # "paid"
  /\ call' = [call EXCEPT ![r] =
       [kind |-> "createPayment", order |-> o, method |-> method,
        amount |-> amount, collected |-> amountOf(Successful(o)),
        due |-> order[o].total]]
  /\ UNCHANGED <<order, statusLog, paymentVars>>

\* The transaction of createPayment.  Cash counts at once; a digital payment
\* waits for the gateway and leaves the order alone.
CommitPayment(r, p) ==
  LET c == call[r]
      isCash == c.method = "cash"
  IN /\ c.kind = "createPayment"
     /\ ~Issued(p)
     /\ payment' = [payment EXCEPT ![p] =
          [status |-> IF isCash THEN "success" ELSE "pending",
           order |-> c.order, method |-> c.method, amount |-> c.amount,
           paidAt |-> isCash]]
     /\ order' = IF isCash
                 THEN [order EXCEPT ![c.order].paymentStatus =
                         verdict(c.collected + c.amount, c.due)]
                 ELSE order
     /\ call' = [call EXCEPT ![r] = Idle]
     /\ UNCHANGED <<statusLog, webhooks>>

\* handleWebhook with 'success', up to its transaction: it has read the payment,
\* its order and all payments of the order, and counts this one as successful.
BeginWebhook(r, p) ==
  LET o == payment[p].order
  IN /\ Free(r)
     /\ Issued(p)
     /\ "success" \in webhooks[p]
     /\ call' = [call EXCEPT ![r] =
          [kind |-> "webhook", payment |-> p,
           collected |-> amountOf(Successful(o) \cup {p}),
           due |-> order[o].total]]
     /\ UNCHANGED <<order, statusLog, paymentVars>>

\* Mutant: the order is left alone.
CommitPaymentRowOnly(r) ==
  /\ call[r].kind = "webhook"
  /\ payment' = [payment EXCEPT ![call[r].payment].status = "success",
                                ![call[r].payment].paidAt = TRUE]
  /\ call' = [call EXCEPT ![r] = Idle]
  /\ UNCHANGED <<order, statusLog, webhooks>>

CommitWebhook(r) ==
  LET c == call[r]
  IN /\ c.kind = "webhook"
     /\ payment' = [payment EXCEPT ![c.payment].status = "success",
                                   ![c.payment].paidAt = TRUE]
     /\ order' = [order EXCEPT ![payment[c.payment].order].paymentStatus =
                    verdict(c.collected, c.due)]
     /\ call' = [call EXCEPT ![r] = Idle]
     /\ UNCHANGED <<statusLog, webhooks>>

\* Mutant: paid_at is cleared with the status.
CloseAndClear(r, p) ==
  /\ Free(r)
  /\ Issued(p)
  /\ \E outcome \in webhooks[p] \cap {"failed", "refunded"} :
       payment' = [payment EXCEPT ![p].status = outcome, ![p].paidAt = FALSE]
  /\ UNCHANGED <<tableVars, webhooks>>

\* handleWebhook with 'failed' or 'refunded': one update, whatever the status
\* of the payment was; paid_at and the order are left as they are.
CloseByWebhook(r, p) ==
  /\ Free(r)
  /\ Issued(p)
  /\ \E outcome \in webhooks[p] \cap {"failed", "refunded"} :
       payment' = [payment EXCEPT ![p].status = outcome]
  /\ UNCHANGED <<tableVars, webhooks>>

\* The transaction fails (a reference_no already used, a lost connection).
AbortPayment(r) ==
  /\ call[r].kind \in {"createPayment", "webhook"}
  /\ call' = [call EXCEPT ![r] = Idle]
  /\ UNCHANGED <<order, statusLog, paymentVars>>

\* The gateway (external): an attempt of the customer fails and may be repeated,
\* the payment is captured once, and may be refunded then.
GatewaySends(p, outcome) ==
  /\ Issued(p)
  /\ payment[p].method = "digital"
  /\ outcome \in Outcomes
  /\ outcome = "failed" => "success" \notin webhooks[p]
  /\ outcome = "refunded" => "success" \in webhooks[p]
  /\ webhooks' = [webhooks EXCEPT ![p] = @ \cup {outcome}]
  /\ UNCHANGED <<tableVars, payment>>

PaymentStep(r) ==
  \/ \E o \in Orders, method \in Methods, amount \in Amounts :
       BeginPayment(r, o, method, amount)
  \/ \E p \in Payments : CommitPayment(r, p)
  \/ \E p \in Payments : BeginWebhook(r, p)
  \/ CommitWebhook(r)
  \/ \E p \in Payments : CloseByWebhook(r, p)
  \/ AbortPayment(r)

GatewayStep ==
  \E p \in Payments, outcome \in {"success", "failed", "refunded"} :
    GatewaySends(p, outcome)
=============================================================================
