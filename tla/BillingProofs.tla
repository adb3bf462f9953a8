--------------------------- MODULE BillingProofs ---------------------------
(***************************************************************************)
(* Proofs about Billing for any number of orders, requests and payments,   *)
(* any amounts and methods, whatever the gateway sends, weighings and      *)
(* deaths of the process included: when an order is shown as unpaid, what  *)
(* the stale sums of racing handlers are worth, that the reports add up,   *)
(* and, while the totals stand, that the books implement Ledger.           *)
(***************************************************************************)
EXTENDS Reports, OrderWorkflowProofs, SumTheorems

\* What a request may rely on while it awaits the transaction of a handler.
HeldOK(c) ==
  /\ c.kind = "updateStatus" => c.order \in Orders /\ c.target \in OrderStatus
  /\ c.kind = "createPayment" =>
       /\ c.order \in Orders
       /\ Exists(c.order)
       /\ c.method \in {"cash", "digital"}
       /\ c.amount \in Nat
  /\ c.kind = "webhook" => c.payment \in Payments /\ Issued(c.payment)

\* A row of the payment table, or the place of one, whose order is any.
PaymentPlace ==
  [status : {"none", "pending", "success", "failed", "refunded"},
   order : Orders \cup {NoPayment.order}, method : {"cash", "digital"},
   amount : Nat, paidAt : BOOLEAN]

BooksTyped ==
  /\ order \in [Orders -> Row]
  /\ payment \in [Payments -> PaymentPlace]
  /\ call = [r \in Requests |-> call[r]]
  /\ \A r \in Requests : HeldOK(call[r])

\* Money only comes in for payments there are, of orders there are.
PaymentsTraced ==
  \A p \in Payments :
    /\ Issued(p) => payment[p].order \in Orders /\ Exists(payment[p].order)
    /\ payment[p].paidAt => Issued(p)

\* UnpaidIffNothingReceived, told payment by payment.
UnpaidTold ==
  \A o \in Orders :
    order[o].paymentStatus = "unpaid" <=>
      \A p \in Payments : payment[p].paidAt => payment[p].order # o

BooksInvariant == BooksTyped /\ PaymentsTraced /\ UnpaidTold

\* The two ways to say when an order is 'unpaid' agree.
LEMMA ToldIsMeant == BooksInvariant => UnpaidIffNothingReceived
BY DEF BooksInvariant, PaymentsTraced, UnpaidTold, UnpaidIffNothingReceived,
       Received, PaymentsOf

\* A verdict is never 'unpaid'.
LEMMA VerdictIsSome ==
  ASSUME NEW collected, NEW total
  PROVE  verdict(collected, total) \in {"partial", "paid"}
BY DEF verdict

\* An empty database keeps the books.
LEMMA BooksBegin == BillingInit => BooksInvariant
<1> SUFFICES ASSUME BillingInit PROVE BooksInvariant
  OBVIOUS
<1> USE DEF BillingInit, Init, TableInit, PaymentInit
<1>1. NoRow \in Row
  BY DEF NoRow, Row, WeightStatus, PaymentStatus
<1>2. /\ NoPayment \in PaymentPlace
      /\ NoPayment.status = "none"
      /\ NoPayment.paidAt = FALSE
  BY DEF NoPayment, PaymentPlace
<1>3. \A r \in Requests : HeldOK(call[r])
  BY DEF HeldOK, Idle
<1>4. BooksTyped
  BY <1>1, <1>2, <1>3 DEF BooksTyped
<1>5. PaymentsTraced
  BY <1>2 DEF PaymentsTraced, Issued
<1>6. UnpaidTold
  BY <1>2 DEF UnpaidTold, NoRow
<1>7. QED
  BY <1>4, <1>5, <1>6 DEF BooksInvariant
-----------------------------------------------------------------------------
(* The workflow: it never writes a payment status but for a new order.     *)

\* What the books need of a step that leaves the payments alone.
Neutral ==
  /\ UNCHANGED payment
  /\ order' \in [Orders -> Row]
  /\ \A o \in Orders : Exists(o) =>
       Exists(o)' /\ order'[o].paymentStatus = order[o].paymentStatus
  /\ \A o \in Orders : ~Exists(o) =>
       order'[o].paymentStatus \in {order[o].paymentStatus, "unpaid"}
  /\ call' = [r \in Requests |-> call'[r]]
  /\ \A r \in Requests : call'[r] = call[r] \/ HeldOK(call[r])'

\* A neutral step keeps the books.
LEMMA NeutralKeepsBooks == BooksInvariant /\ Neutral => BooksInvariant'
<1> SUFFICES ASSUME BooksInvariant, Neutral PROVE BooksInvariant'
  OBVIOUS
<1> USE DEF BooksInvariant, Neutral
<1>1. \A r \in Requests : HeldOK(call[r])'
  BY DEF BooksTyped, HeldOK, Issued
<1>2. BooksTyped'
  BY <1>1 DEF BooksTyped
<1>3. PaymentsTraced'
  BY DEF PaymentsTraced, Issued
<1>4. UnpaidTold'
  BY DEF UnpaidTold, PaymentsTraced
<1>5. QED
  BY <1>2, <1>3, <1>4

\* The rows that are written to an order there is: its payment status is kept.
LEMMA RewrittenIsNeutral ==
  ASSUME BooksInvariant, NEW o, NEW row \in Row,
         o \in Orders => /\ order[o].status # "none" => row.status # "none"
                         /\ row.paymentStatus = order[o].paymentStatus,
         order' \in {order, [order EXCEPT ![o] = row]},
         UNCHANGED payment,
         call' = [r \in Requests |-> call'[r]],
         \A r \in Requests : call'[r] = call[r] \/ HeldOK(call[r])'
  PROVE  Neutral
<1> USE DEF BooksInvariant, BooksTyped
<1>1. order' \in [Orders -> Row]
  OBVIOUS
<1>2. \A x \in Orders :
        /\ order[x].status # "none" => order'[x].status # "none"
        /\ order'[x].paymentStatus = order[x].paymentStatus
  OBVIOUS
<1>3. QED
  BY <1>1, <1>2 DEF Neutral, Exists

\* Every step of the workflow is neutral.
LEMMA WorkflowIsNeutral == BooksInvariant /\ [Next]_vars /\ UNCHANGED payment => Neutral
<1> SUFFICES ASSUME BooksInvariant, [Next]_vars, UNCHANGED payment
             PROVE  Neutral
  OBVIOUS
<1> USE DEF BooksInvariant, BooksTyped
<1>1. ASSUME NEW r \in Requests, NEW o \in Orders, CreateOrder(r, o)
      PROVE  Neutral
  <2>1. PICK pickup \in BOOLEAN, estimated \in Estimates,
             given \in Quantities, t \in Tariffs :
          order' = [order EXCEPT ![o] = newRow(pickup, estimated, given, t)]
    BY <1>1 DEF CreateOrder
  <2>2. newRow(pickup, estimated, given, t) \in Row
    BY NewRowType
  <2>3. /\ newRow(pickup, estimated, given, t).status # "none"
        /\ newRow(pickup, estimated, given, t).paymentStatus = "unpaid"
    BY DEF newRow, initialStatus
  <2>4. /\ order' \in [Orders -> Row]
        /\ \A x \in Orders \ {o} : order'[x] = order[x]
        /\ order'[o].status # "none" /\ order'[o].paymentStatus = "unpaid"
    BY <2>1, <2>2, <2>3
  <2>5. UNCHANGED call /\ order[o].status = "none"
    BY <1>1 DEF CreateOrder, Exists
  <2>6. QED
    BY <2>4, <2>5 DEF Neutral, Exists
<1>2. ASSUME NEW r \in Requests, NEW o \in Orders, NEW target \in OrderStatus,
             NEW photo \in BOOLEAN, ReadForUpdate(r, o, target, photo)
      PROVE  Neutral
  <2>1. \A q \in Requests : call'[q] = call[q] \/ HeldOK(call[q])'
    BY <1>2 DEF ReadForUpdate, HeldOK
  <2>2. call' = [q \in Requests |-> call'[q]] /\ UNCHANGED order
    BY <1>2 DEF ReadForUpdate
  <2>3. QED
    BY <2>1, <2>2 DEF Neutral, Exists
<1>3. ASSUME NEW r \in Requests, CommitUpdate(r)
      PROVE  Neutral
  <2> DEFINE o == call[r].order
             row == [order[o] EXCEPT !.status = call[r].target]
  <2>1. o \in Orders /\ call[r].target \in OrderStatus
    BY <1>3 DEF CommitUpdate, HeldOK
  <2>2. row \in Row /\ row.status # "none"
        /\ row.paymentStatus = order[o].paymentStatus
    BY <2>1 DEF Row, OrderStatus
  <2>3. order' = [order EXCEPT ![o] = row]
    BY <1>3 DEF CommitUpdate
  <2>4. /\ call' = [q \in Requests |-> call'[q]]
        /\ \A q \in Requests : call'[q] = call[q] \/ HeldOK(call[q])'
    BY <1>3 DEF CommitUpdate, HeldOK, Idle
  <2> HIDE DEF o, row
  <2>5. QED
    BY <2>1, <2>2, <2>3, <2>4, RewrittenIsNeutral
<1>4. ASSUME NEW r \in Requests, NEW o \in Orders, NEW w \in Weights,
             VerifyAndApplyWeight(r, o, w)
      PROVE  Neutral
  <2> DEFINE row == weighedRow(order[o], w)
  <2>1. row \in Row
    BY WeighedRowType
  <2>2. row.status = order[o].status
        /\ row.paymentStatus = order[o].paymentStatus
    BY DEF weighedRow, Row
  <2>3. order' = [order EXCEPT ![o] = row]
    BY <1>4 DEF VerifyAndApplyWeight
  <2>4. /\ call' = [q \in Requests |-> call'[q]]
        /\ \A q \in Requests : call'[q] = call[q] \/ HeldOK(call[q])'
    BY <1>4 DEF VerifyAndApplyWeight, HeldOK
  <2> HIDE DEF row
  <2>5. QED
    BY <2>1, <2>2, <2>3, <2>4, RewrittenIsNeutral
<1>5. ASSUME NEW r \in Requests, NEW o, NEW agreed \in BOOLEAN,
             ConfirmWeight(r, o, agreed)
      PROVE  Neutral
  <2>1. CASE o \in Orders
    <3> DEFINE row == [order[o] EXCEPT !.weightStatus = "confirmed",
                                       !.confirmedAt = TRUE]
    <3>1. row \in Row /\ row.status = order[o].status
          /\ row.paymentStatus = order[o].paymentStatus
      BY <2>1 DEF Row, WeightStatus
    <3>2. order' \in {order, [order EXCEPT ![o] = row]} /\ UNCHANGED call
      BY <1>5 DEF ConfirmWeight
    <3> HIDE DEF row
    <3>3. QED
      BY <2>1, <3>1, <3>2, RewrittenIsNeutral
  <2>2. CASE o \notin Orders
    <3>1. UNCHANGED <<order, call>>
      BY <1>5, <2>2 DEF ConfirmWeight
    <3>2. QED
      BY <3>1 DEF Neutral, Exists
  <2>3. QED
    BY <2>1, <2>2
<1>6. ASSUME NEW r \in Requests,
             AbortUpdate(r) \/ QueueWeightMismatchNotification(r)
      PROVE  Neutral
  <2>1. \A q \in Requests : call'[q] = call[q] \/ HeldOK(call[q])'
    BY <1>6 DEF AbortUpdate, QueueWeightMismatchNotification, HeldOK, Idle
  <2>2. call' = [q \in Requests |-> call'[q]] /\ UNCHANGED order
    BY <1>6 DEF AbortUpdate, QueueWeightMismatchNotification
  <2>3. QED
    BY <2>1, <2>2 DEF Neutral, Exists
<1>7. CASE Crash
  <2>1. call' = [q \in Requests |-> Idle] /\ UNCHANGED order
    BY <1>7 DEF Crash
  <2>2. \A q \in Requests : HeldOK(call[q])'
    BY <2>1 DEF HeldOK, Idle
  <2>3. QED
    BY <2>1, <2>2 DEF Neutral, Exists
<1>8. CASE ProcessNextJob \/ UNCHANGED vars
  BY <1>8 DEF ProcessNextJob, tableVars, vars, Neutral, Exists
<1>9. QED
  BY <1>1, <1>2, <1>3, <1>4, <1>5, <1>6, <1>7, <1>8
  DEF Next, UpdateStatus, OrderServiceStep, UpdateWeight, PressButton,
      ConfirmInApp
-----------------------------------------------------------------------------
(* The payments.                                                           *)

\* Money comes in for payment p: its row says so and its order is shown as
\* partly or wholly paid, in one transaction.
LEMMA ReceiptKeepsBooks ==
  ASSUME BooksInvariant, NEW p \in Payments, NEW place \in PaymentPlace,
         NEW shown \in {"partial", "paid"}, NEW r \in Requests,
         place.paidAt, place.status # "none",
         place.order \in Orders, Exists(place.order),
         payment[p].paidAt => payment[p].order = place.order,
         payment' = [payment EXCEPT ![p] = place],
         order' = [order EXCEPT ![place.order].paymentStatus = shown],
         call' = [call EXCEPT ![r] = Idle]
  PROVE  BooksInvariant'
<1> USE DEF BooksInvariant
<1> DEFINE o == place.order
           row == [order[o] EXCEPT !.paymentStatus = shown]
<1>1. /\ row \in Row /\ row.status = order[o].status
      /\ row.paymentStatus = shown
  BY DEF BooksTyped, Row, PaymentStatus
<1>2. order' = [order EXCEPT ![o] = row]
  OBVIOUS
<1> HIDE DEF row
<1>3. /\ order' \in [Orders -> Row]
      /\ \A x \in Orders : order'[x].status = order[x].status
      /\ \A x \in Orders \ {o} : order'[x] = order[x]
      /\ order'[o].paymentStatus = shown
  BY <1>1, <1>2 DEF BooksTyped
<1>4. /\ payment' \in [Payments -> PaymentPlace]
      /\ payment'[p] = place
      /\ \A q \in Payments \ {p} : payment'[q] = payment[q]
  BY DEF BooksTyped
<1>5. \A q \in Requests : HeldOK(call[q])'
  <2>1. TAKE q \in Requests
  <2>2. call'[q] \in {Idle, call[q]} /\ HeldOK(call[q])
    BY DEF BooksTyped
  <2>3. QED
    BY <2>2, <1>3, <1>4 DEF HeldOK, Idle, Issued, Exists
<1>6. BooksTyped'
  BY <1>3, <1>4, <1>5 DEF BooksTyped
<1>7. PaymentsTraced'
  BY <1>3, <1>4 DEF PaymentsTraced, Issued, Exists
<1>8. UnpaidTold'
  BY <1>3, <1>4 DEF UnpaidTold
<1>9. QED
  BY <1>6, <1>7, <1>8

\* A payment is written without touching its order or the money received.
LEMMA NoteKeepsBooks ==
  ASSUME BooksInvariant, NEW p \in Payments, NEW place \in PaymentPlace,
         place.status # "none", place.order \in Orders, Exists(place.order),
         place.paidAt = payment[p].paidAt,
         place.paidAt => payment[p].order = place.order,
         payment' = [payment EXCEPT ![p] = place],
         UNCHANGED order,
         NEW r \in Requests, call' \in {call, [call EXCEPT ![r] = Idle]}
  PROVE  BooksInvariant'
<1> USE DEF BooksInvariant
<1>1. /\ payment' \in [Payments -> PaymentPlace]
      /\ payment'[p] = place
      /\ \A q \in Payments \ {p} : payment'[q] = payment[q]
  BY DEF BooksTyped
<1>2. \A q \in Requests : HeldOK(call[q])'
  <2>1. TAKE q \in Requests
  <2>2. call'[q] \in {Idle, call[q]} /\ HeldOK(call[q])
    BY DEF BooksTyped
  <2>3. QED
    BY <2>2, <1>1 DEF HeldOK, Idle, Issued, Exists
<1>3. BooksTyped'
  BY <1>1, <1>2 DEF BooksTyped
<1>4. PaymentsTraced'
  BY <1>1 DEF PaymentsTraced, Issued, Exists
<1>5. UnpaidTold'
  BY <1>1 DEF UnpaidTold
<1>6. QED
  BY <1>3, <1>4, <1>5

\* Payments and webhooks keep the books, whatever they race with.
LEMMA PaymentsKeepBooks ==
  ASSUME BooksInvariant, NEW r \in Requests, PaymentStep(r)
  PROVE  BooksInvariant'
<1> USE DEF BooksInvariant
<1>1. ASSUME NEW o \in Orders, NEW method \in Methods, NEW amount \in Amounts,
             BeginPayment(r, o, method, amount)
      PROVE  BooksInvariant'
  <2>1. \A q \in Requests : call'[q] = call[q] \/ HeldOK(call[q])'
    BY <1>1, MethodsAssumption, AmountsAssumption
    DEF BeginPayment, HeldOK, BooksTyped, Exists
  <2>2. Neutral
    BY <1>1, <2>1 DEF BeginPayment, BooksTyped, Neutral, Exists, paymentVars
  <2>3. QED
    BY <2>2, NeutralKeepsBooks
<1>2. ASSUME NEW p \in Payments, BeginWebhook(r, p)
      PROVE  BooksInvariant'
  <2>1. \A q \in Requests : call'[q] = call[q] \/ HeldOK(call[q])'
    BY <1>2 DEF BeginWebhook, HeldOK, BooksTyped, Issued, paymentVars
  <2>2. Neutral
    BY <1>2, <2>1 DEF BeginWebhook, BooksTyped, Neutral, Exists, paymentVars
  <2>3. QED
    BY <2>2, NeutralKeepsBooks
<1>3. CASE AbortPayment(r)
  <2>1. \A q \in Requests : call'[q] = call[q] \/ HeldOK(call[q])'
    BY <1>3 DEF AbortPayment, HeldOK, BooksTyped, Idle
  <2>2. Neutral
    BY <1>3, <2>1 DEF AbortPayment, BooksTyped, Neutral, Exists, paymentVars
  <2>3. QED
    BY <2>2, NeutralKeepsBooks
<1>4. ASSUME NEW p \in Payments, CommitPayment(r, p)
      PROVE  BooksInvariant'
  <2> DEFINE c == call[r]
             place == [status |-> IF c.method = "cash" THEN "success" ELSE "pending",
                       order |-> c.order, method |-> c.method,
                       amount |-> c.amount, paidAt |-> c.method = "cash"]
  <2>1. /\ HeldOK(c) /\ c.kind = "createPayment" /\ ~Issued(p)
        /\ payment' = [payment EXCEPT ![p] = place]
        /\ call' = [call EXCEPT ![r] = Idle]
    BY <1>4 DEF CommitPayment, BooksTyped
  <2>2. c.order \in Orders /\ Exists(c.order)
    BY <2>1 DEF HeldOK
  <2>3. place \in PaymentPlace /\ place.status # "none" /\ place.order = c.order
        /\ place.paidAt = (c.method = "cash")
    BY <2>1 DEF HeldOK, PaymentPlace
  <2>4. payment[p].paidAt = FALSE
    BY <2>1 DEF PaymentsTraced, BooksTyped, PaymentPlace
  <2>5. CASE c.method = "cash"
    <3>1. PICK shown \in {"partial", "paid"} :
            order' = [order EXCEPT ![c.order].paymentStatus = shown]
      BY <1>4, <2>5, VerdictIsSome DEF CommitPayment
    <3> HIDE DEF place
    <3>2. QED
      BY <2>1, <2>2, <2>3, <2>4, <2>5, <3>1, ReceiptKeepsBooks
  <2>6. CASE c.method # "cash"
    <3>1. UNCHANGED order
      BY <1>4, <2>6 DEF CommitPayment
    <3> HIDE DEF place
    <3>2. QED
      BY <2>1, <2>2, <2>3, <2>4, <2>6, <3>1, NoteKeepsBooks
  <2>7. QED
    BY <2>5, <2>6
<1>5. CASE CommitWebhook(r)
  <2> DEFINE p == call[r].payment
             place == [payment[p] EXCEPT !.status = "success", !.paidAt = TRUE]
  <2>1. p \in Payments /\ Issued(p)
    BY <1>5 DEF CommitWebhook, BooksTyped, HeldOK
  <2>2. payment[p].order \in Orders /\ Exists(payment[p].order)
    BY <2>1 DEF PaymentsTraced
  <2>3. /\ place \in PaymentPlace /\ place.status # "none"
        /\ place.paidAt = TRUE
        /\ place.order = payment[p].order
    <3>1. payment[p] \in PaymentPlace
      BY <2>1 DEF BooksTyped
    <3> HIDE DEF p
    <3>2. QED
      BY <3>1 DEF PaymentPlace
  <2>4. /\ payment' = [payment EXCEPT ![p] = place]
        /\ call' = [call EXCEPT ![r] = Idle]
    BY <1>5 DEF CommitWebhook
  <2>5. PICK shown \in {"partial", "paid"} :
          order' = [order EXCEPT ![payment[p].order].paymentStatus = shown]
    BY <1>5, VerdictIsSome DEF CommitWebhook
  <2> HIDE DEF p, place
  <2>6. QED
    BY <2>1, <2>2, <2>3, <2>4, <2>5, ReceiptKeepsBooks
<1>6. ASSUME NEW p \in Payments, CloseByWebhook(r, p)
      PROVE  BooksInvariant'
  <2>1. PICK outcome \in {"failed", "refunded"} :
          payment' = [payment EXCEPT ![p].status = outcome]
    BY <1>6 DEF CloseByWebhook
  <2> DEFINE place == [payment[p] EXCEPT !.status = outcome]
  <2>2. payment[p].order \in Orders /\ Exists(payment[p].order)
    BY <1>6 DEF CloseByWebhook, PaymentsTraced
  <2>3. /\ place \in PaymentPlace /\ place.status # "none"
        /\ place.order = payment[p].order /\ place.paidAt = payment[p].paidAt
    BY DEF BooksTyped, PaymentPlace
  <2>4. payment' = [payment EXCEPT ![p] = place] /\ UNCHANGED <<order, call>>
    BY <1>6, <2>1 DEF CloseByWebhook, tableVars
  <2> HIDE DEF place
  <2>5. QED
    BY <2>2, <2>3, <2>4, NoteKeepsBooks
<1>7. QED
  BY <1>1, <1>2, <1>3, <1>4, <1>5, <1>6 DEF PaymentStep
-----------------------------------------------------------------------------
\* Every step keeps the books.
LEMMA BooksStep == BooksInvariant /\ [BillingNext]_billingVars => BooksInvariant'
<1> SUFFICES ASSUME BooksInvariant, [BillingNext]_billingVars
             PROVE  BooksInvariant'
  OBVIOUS
<1>1. CASE Next /\ UNCHANGED paymentVars
  BY <1>1, WorkflowIsNeutral, NeutralKeepsBooks DEF paymentVars
<1>2. ASSUME NEW r \in Requests, PaymentStep(r) PROVE BooksInvariant'
  BY <1>2, PaymentsKeepBooks
<1>3. CASE GatewayStep
  <2>1. UNCHANGED <<payment, order, call>>
    BY <1>3 DEF GatewayStep, GatewaySends, tableVars
  <2>2. Neutral
    BY <2>1 DEF BooksInvariant, BooksTyped, Neutral, Exists
  <2>3. QED
    BY <2>2, NeutralKeepsBooks
<1>4. CASE UNCHANGED billingVars
  BY <1>4, WorkflowIsNeutral, NeutralKeepsBooks DEF billingVars, paymentVars
<1>5. QED
  BY <1>1, <1>2, <1>3, <1>4 DEF BillingNext

\* An order shows 'unpaid' exactly as long as nothing was received for it:
\* payments and webhooks may race, repeat, fail and be reordered, orders be
\* weighed again and the process die.
THEOREM UnpaidIsTrue == BillingSpec => []UnpaidIffNothingReceived
<1>1. BillingSpec => []BooksInvariant
  BY BooksBegin, BooksStep, PTL DEF BillingSpec
<1>2. QED
  BY <1>1, ToldIsMeant, PTL
-----------------------------------------------------------------------------
(* Sums of payments.                                                       *)

Issuances == {p \in Payments : Issued(p)}

\* What a request may hold.
BillingHeld == {Idle} \cup UpdateCall \cup NotifyCall \cup PaymentCall \cup WebhookCall

HeldTyped ==
  /\ call \in [Requests -> BillingHeld]
  /\ \A r \in Requests : call[r].kind = "createPayment" => call[r].method \in Methods
  /\ webhooks \in [Payments -> SUBSET Outcomes]

\* Only finitely many payments were ever made, so that their amounts have a sum.
PaymentsSound ==
  /\ IsFiniteSet(Issuances)
  /\ \A p \in Issuances :
       /\ payment[p].amount \in Amounts
       /\ payment[p].method \in Methods
       /\ payment[p].status = "success" => payment[p].paidAt

\* The sum a handler holds may be stale, and is then too small: whatever was
\* counted had been received, and what was received stays so.
NotTooLarge(c) ==
  /\ c.kind = "createPayment" => c.collected <= amountOf(Received(c.order))
  /\ c.kind = "webhook" =>
       c.collected <= amountOf(Received(payment[c.payment].order) \cup {c.payment})

SumsAreNotTooLarge == \A r \in Requests : NotTooLarge(call[r])

SumsInvariant ==
  /\ BooksInvariant
  /\ HeldTyped
  /\ PaymentsSound
  /\ SumsAreNotTooLarge

\* The kind of what a request holds says what else it holds.
LEMMA BillingHeldByKind ==
  ASSUME NEW c \in BillingHeld
  PROVE  /\ c.kind = "createPayment" => c \in PaymentCall
         /\ c.kind = "webhook" => c \in WebhookCall
BY DEF BillingHeld, Idle, UpdateCall, NotifyCall, PaymentCall, WebhookCall

\* The amounts of payments that were made are natural numbers and not 0.
LEMMA AmountsAreNat ==
  ASSUME PaymentsSound, NEW S \in SUBSET Issuances
  PROVE  /\ IsFiniteSet(S)
         /\ \A p \in S : amounts[p] = payment[p].amount /\ amounts[p] \in Nat
         /\ amountOf(S) \in Nat
<1>1. IsFiniteSet(S)
  BY FS_Subset DEF PaymentsSound
<1>2. \A p \in S : amounts[p] = payment[p].amount /\ amounts[p] \in Nat
  BY AmountsAssumption DEF PaymentsSound, Issuances, amounts
<1>3. amountOf(S) \in Nat
  BY <1>1, <1>2, SumType DEF amountOf
<1>4. QED
  BY <1>1, <1>2, <1>3

\* More payments have no smaller sum.
LEMMA AmountsAreMonotone ==
  ASSUME PaymentsSound, NEW S \in SUBSET Issuances, NEW T \in SUBSET S
  PROVE  amountOf(T) <= amountOf(S)
<1>1. IsFiniteSet(S) /\ \A p \in S : amounts[p] \in Nat
  BY AmountsAreNat
<1>2. QED
  BY <1>1, SumMonotone DEF amountOf

\* The sets that are added up have payments that were made in them only.
LEMMA PaymentSets ==
  ASSUME NEW o
  PROVE  /\ PaymentsOf(o) \in SUBSET Issuances
         /\ Successful(o) \in SUBSET Issuances
         /\ Received(o) \in SUBSET Issuances
BY DEF PaymentsOf, Successful, Received, Issuances

\* A payment that shows success has been received.
LEMMA SuccessWasReceived ==
  ASSUME PaymentsSound, NEW o
  PROVE  Successful(o) \subseteq Received(o)
BY DEF PaymentsSound, Successful, Received, PaymentsOf, Issuances

\* What no step does to a payment that was made.
PaymentsKept ==
  \A p \in Issuances :
    /\ Issued(p)'
    /\ payment'[p].order = payment[p].order
    /\ payment'[p].method = payment[p].method
    /\ payment'[p].amount = payment[p].amount
    /\ payment[p].paidAt => payment'[p].paidAt

\* What was received grows, and with it its sum.
LEMMA SumsGrow ==
  ASSUME PaymentsSound, PaymentsSound', PaymentsKept,
         NEW S \in SUBSET Issuances, NEW T \in SUBSET Issuances', S \subseteq T
  PROVE  /\ amountOf(S) \in Nat
         /\ SumFunctionOnSet(amounts', T) \in Nat
         /\ amountOf(S) <= SumFunctionOnSet(amounts', T)
<1>1. IsFiniteSet(S) /\ \A p \in S : amounts[p] = payment[p].amount
  BY AmountsAreNat
<1>2. IsFiniteSet(T)
  BY FS_Subset DEF PaymentsSound
<1>3. \A p \in T : amounts'[p] = payment'[p].amount /\ amounts'[p] \in Nat
  BY AmountsAssumption DEF PaymentsSound, Issuances, amounts
<1>4. \A p \in S : amounts[p] = amounts'[p]
  BY <1>1, <1>3 DEF PaymentsKept
<1>5. SumFunctionOnSet(amounts, S) = SumFunctionOnSet(amounts', S)
  BY <1>1, <1>4, SumSame
<1>6. SumFunctionOnSet(amounts', S) <= SumFunctionOnSet(amounts', T)
  BY <1>2, <1>3, SumMonotone
<1>7. amountOf(S) \in Nat /\ SumFunctionOnSet(amounts', T) \in Nat
  BY <1>2, <1>3, AmountsAreNat, SumType
<1>8. QED
  BY <1>5, <1>6, <1>7 DEF amountOf

\* So a number that was not too large stays so.
LEMMA BoundLasts ==
  ASSUME PaymentsSound, PaymentsSound', PaymentsKept,
         NEW S \in SUBSET Issuances, NEW T \in SUBSET Issuances', S \subseteq T,
         NEW n \in Nat, n <= amountOf(S)
  PROVE  n <= SumFunctionOnSet(amounts', T)
<1>1. /\ amountOf(S) \in Nat
      /\ SumFunctionOnSet(amounts', T) \in Nat
      /\ amountOf(S) <= SumFunctionOnSet(amounts', T)
  BY SumsGrow
<1>2. \A a, b \in Nat : n <= a /\ a <= b => n <= b
  OBVIOUS
<1>3. QED
  BY <1>1, <1>2

\* What was received for an order only grows.
LEMMA ReceivedGrows ==
  ASSUME PaymentsKept, NEW o
  PROVE  /\ Received(o) \subseteq Received(o)'
         /\ Received(o) \in SUBSET Issuances
         /\ Received(o)' \in SUBSET Issuances'
BY DEF PaymentsKept, Received, PaymentsOf, Issuances

\* A step of the workflow or of the gateway, or a handler that begins or fails,
\* writes no payment; there are three that do.
LEMMA PaymentWriters ==
  ASSUME [BillingNext]_billingVars
  PROVE  \/ UNCHANGED payment
         \/ \E r \in Requests, p \in Payments : CommitPayment(r, p)
         \/ \E r \in Requests : CommitWebhook(r)
         \/ \E r \in Requests, p \in Payments : CloseByWebhook(r, p)
BY DEF BillingNext, billingVars, paymentVars, PaymentStep, BeginPayment, BeginWebhook,
       AbortPayment, GatewayStep, GatewaySends

\* How they rewrite a payment.
Rewritten(p) ==
  /\ \A q \in Payments \ {p} : payment'[q] = payment[q]
  /\ payment'[p].status # "none"
  /\ payment'[p].status = "success" => payment'[p].paidAt
  /\ ~Issued(p) => payment'[p].amount \in Amounts /\ payment'[p].method \in Methods
  /\ Issued(p) => /\ payment'[p].order = payment[p].order
                  /\ payment'[p].method = payment[p].method
                  /\ payment'[p].amount = payment[p].amount
                  /\ payment[p].paidAt => payment'[p].paidAt

\* createPayment makes a payment from what the request asked for.
LEMMA CommitRewrites ==
  ASSUME BooksInvariant, HeldTyped, NEW r \in Requests, NEW p \in Payments,
         CommitPayment(r, p)
  PROVE  Rewritten(p)
<1>1. call[r].amount \in Amounts /\ call[r].method \in Methods
  BY BillingHeldByKind DEF CommitPayment, HeldTyped, PaymentCall
<1>2. payment \in [Payments -> PaymentPlace]
  BY DEF BooksInvariant, BooksTyped
<1>3. QED
  BY <1>1, <1>2 DEF CommitPayment, Rewritten

\* The webhook of a success marks a payment there is as received.
LEMMA WebhookRewrites ==
  ASSUME BooksInvariant, NEW r \in Requests, CommitWebhook(r)
  PROVE  /\ call[r].payment \in Issuances
         /\ Rewritten(call[r].payment)
         /\ payment'[call[r].payment] =
              [payment[call[r].payment] EXCEPT !.status = "success", !.paidAt = TRUE]
<1> DEFINE p == call[r].payment
<1>1. p \in Payments /\ Issued(p)
  BY DEF CommitWebhook, BooksInvariant, BooksTyped, HeldOK
<1>2. payment \in [Payments -> PaymentPlace]
  BY DEF BooksInvariant, BooksTyped
<1>3. /\ payment'[p] = [payment[p] EXCEPT !.status = "success", !.paidAt = TRUE]
      /\ \A q \in Payments \ {p} : payment'[q] = payment[q]
  BY <1>1, <1>2 DEF CommitWebhook
<1> HIDE DEF p
<1>4. payment[p] \in PaymentPlace
  BY <1>1, <1>2
<1>5. Rewritten(p) /\ p \in Issuances
  BY <1>1, <1>3, <1>4 DEF Rewritten, Issuances, PaymentPlace
<1>6. QED
  BY <1>3, <1>5 DEF p

\* A webhook of a failure or refund leaves all but the status.
LEMMA CloseRewrites ==
  ASSUME BooksInvariant, NEW r \in Requests, NEW p \in Payments, CloseByWebhook(r, p)
  PROVE  Rewritten(p)
<1>1. payment \in [Payments -> PaymentPlace]
  BY DEF BooksInvariant, BooksTyped
<1>2. PICK outcome \in {"failed", "refunded"} :
        payment' = [payment EXCEPT ![p].status = outcome]
  BY DEF CloseByWebhook
<1>3. QED
  BY <1>1, <1>2 DEF CloseByWebhook, Rewritten, PaymentPlace

\* A step writes one payment at most.
LEMMA PaymentWritten ==
  ASSUME BooksInvariant, HeldTyped, [BillingNext]_billingVars
  PROVE  UNCHANGED payment \/ \E p \in Payments : Rewritten(p)
BY PaymentWriters, CommitRewrites, WebhookRewrites, CloseRewrites DEF Issuances

\* No step changes what a payment is for, nor un-receives it.
LEMMA PaymentsAreKept ==
  ASSUME BooksInvariant, HeldTyped, [BillingNext]_billingVars
  PROVE  PaymentsKept
<1>1. CASE UNCHANGED payment
  BY <1>1 DEF PaymentsKept, Issuances, Issued
<1>2. ASSUME NEW p \in Payments, Rewritten(p)
      PROVE  PaymentsKept
  BY <1>2 DEF PaymentsKept, Issuances, Issued, Rewritten
<1>3. QED
  BY <1>1, <1>2, PaymentWritten

\* The steps that change what requests hold.
LEMMA HeldAfter ==
  ASSUME BooksInvariant, BooksInvariant', HeldTyped, PaymentsSound,
         [BillingNext]_billingVars, NEW r \in Requests
  PROVE  \/ call'[r] = call[r]
         \/ call'[r] \in {Idle} \cup UpdateCall \cup NotifyCall
         \/ \E o \in Orders, method \in Methods, amount \in Amounts :
              BeginPayment(r, o, method, amount)
         \/ \E p \in Payments : BeginWebhook(r, p)
<1> USE DEF HeldTyped
<1>1. ASSUME NEW q \in Requests, UpdateStatus(q)
      PROVE  call'[r] = call[r] \/ call'[r] \in {Idle} \cup UpdateCall
  BY <1>1 DEF UpdateStatus, OrderServiceStep, CreateOrder, ReadForUpdate, CommitUpdate,
              AbortUpdate, UpdateCall
<1>2. ASSUME NEW q \in Requests, UpdateWeight(q)
      PROVE  call'[r] = call[r] \/ call'[r] \in NotifyCall
  <2>1. PICK o \in Orders, w \in Weights : VerifyAndApplyWeight(q, o, w)
    BY <1>2 DEF UpdateWeight
  <2>2. order'[o].total \in Nat
    BY DEF BooksInvariant, BooksTyped, Row
  <2>3. QED
    BY <2>1, <2>2 DEF VerifyAndApplyWeight, NotifyCall, Notice
<1>3. ASSUME NEW q \in Requests,
             QueueWeightMismatchNotification(q) \/ PressButton(q) \/ ConfirmInApp(q)
      PROVE  call'[r] = call[r] \/ call'[r] = Idle
  BY <1>3 DEF QueueWeightMismatchNotification, PressButton, ConfirmInApp, ConfirmWeight
<1>4. CASE ProcessNextJob \/ Crash \/ GatewayStep \/ UNCHANGED billingVars
  BY <1>4 DEF ProcessNextJob, Crash, GatewayStep, GatewaySends, tableVars, billingVars, vars
<1>5. ASSUME NEW q \in Requests, PaymentStep(q)
      PROVE  \/ call'[r] = call[r]
             \/ call'[r] = Idle
             \/ \E o \in Orders, method \in Methods, amount \in Amounts :
                  BeginPayment(r, o, method, amount)
             \/ \E p \in Payments : BeginWebhook(r, p)
  <2>1. CASE q = r
    BY <1>5, <2>1 DEF PaymentStep, CommitPayment, CommitWebhook, CloseByWebhook,
                      AbortPayment, tableVars
  <2>2. CASE q # r
    BY <1>5, <2>2 DEF PaymentStep, BeginPayment, BeginWebhook, CommitPayment,
                      CommitWebhook, CloseByWebhook, AbortPayment, tableVars
  <2>3. QED
    BY <2>1, <2>2
<1>6. QED
  BY <1>1, <1>2, <1>3, <1>4, <1>5 DEF BillingNext, Next

\* What requests hold, and what the gateway has sent, keep their types.
LEMMA HeldStaysTyped ==
  ASSUME BooksInvariant, BooksInvariant', HeldTyped, PaymentsSound,
         [BillingNext]_billingVars
  PROVE  HeldTyped'
<1>1. ASSUME NEW r \in Requests
      PROVE  /\ call'[r] \in BillingHeld
             /\ call'[r].kind = "createPayment" => call'[r].method \in Methods
  <2>1. CASE call'[r] = call[r]
    BY <2>1 DEF HeldTyped
  <2>2. CASE call'[r] \in {Idle} \cup UpdateCall \cup NotifyCall
    BY <2>2 DEF BillingHeld, Idle, UpdateCall, NotifyCall
  <2>3. ASSUME NEW o \in Orders, NEW method \in Methods, NEW amount \in Amounts,
               BeginPayment(r, o, method, amount)
        PROVE  call'[r] \in PaymentCall /\ call'[r].method = method
    <3>1. amountOf(Successful(o)) \in Nat
      BY AmountsAreNat, PaymentSets
    <3>2. order[o].total \in Nat
      BY DEF BooksInvariant, BooksTyped, Row
    <3>3. method \in {"cash", "digital"}
      BY MethodsAssumption
    <3>4. call'[r] = [kind |-> "createPayment", order |-> o, method |-> method,
                      amount |-> amount, collected |-> amountOf(Successful(o)),
                      due |-> order[o].total]
      BY <2>3 DEF BeginPayment, HeldTyped
    <3>5. QED
      BY <3>1, <3>2, <3>3, <3>4 DEF PaymentCall
  <2>4. ASSUME NEW p \in Payments, BeginWebhook(r, p)
        PROVE  call'[r] \in WebhookCall
    <3> DEFINE o == payment[p].order
    <3>1. p \in Issuances /\ o \in Orders
      BY <2>4 DEF BeginWebhook, Issuances, BooksInvariant, PaymentsTraced
    <3>2. Successful(o) \cup {p} \in SUBSET Issuances
      BY <3>1, PaymentSets
    <3>3. amountOf(Successful(o) \cup {p}) \in Nat
      BY <3>2, AmountsAreNat
    <3>4. order[o].total \in Nat
      BY <3>1 DEF BooksInvariant, BooksTyped, Row
    <3>5. call'[r] = [kind |-> "webhook", payment |-> p,
                      collected |-> amountOf(Successful(o) \cup {p}),
                      due |-> order[o].total]
      BY <2>4 DEF BeginWebhook, HeldTyped
    <3> HIDE DEF o
    <3>6. QED
      BY <3>3, <3>4, <3>5 DEF WebhookCall
  <2>5. QED
    BY <2>1, <2>2, <2>3, <2>4, HeldAfter DEF BillingHeld, WebhookCall
<1>2. call' = [r \in Requests |-> call'[r]]
  BY DEF BooksInvariant, BooksTyped
<1>3. webhooks' \in [Payments -> SUBSET Outcomes]
  <2>1. UNCHANGED webhooks \/ \E p \in Payments, outcome \in Outcomes :
          webhooks' = [webhooks EXCEPT ![p] = @ \cup {outcome}]
    BY DEF BillingNext, billingVars, paymentVars, PaymentStep, BeginPayment,
           BeginWebhook, CommitPayment, CommitWebhook, CloseByWebhook, AbortPayment,
           GatewayStep, GatewaySends
  <2>2. QED
    BY <2>1 DEF HeldTyped
<1>4. QED
  BY <1>1, <1>2, <1>3 DEF HeldTyped

\* At most one payment is made at a time.
LEMMA PaymentsStaySound ==
  ASSUME BooksInvariant, HeldTyped, PaymentsSound, [BillingNext]_billingVars
  PROVE  PaymentsSound'
<1>1. CASE UNCHANGED payment
  BY <1>1 DEF PaymentsSound, Issuances, Issued
<1>2. ASSUME NEW p \in Payments, Rewritten(p)
      PROVE  PaymentsSound'
  <2>1. Issuances' = Issuances \cup {p}
    BY <1>2 DEF Rewritten, Issuances, Issued
  <2>2. IsFiniteSet(Issuances')
    BY <2>1, FS_AddElement DEF PaymentsSound
  <2>3. \A q \in Issuances' :
          /\ payment'[q].amount \in Amounts
          /\ payment'[q].method \in Methods
          /\ payment'[q].status = "success" => payment'[q].paidAt
    BY <1>2, <2>1 DEF Rewritten, PaymentsSound, Issuances
  <2>4. QED
    BY <2>2, <2>3 DEF PaymentsSound
<1>3. QED
  BY <1>1, <1>2, PaymentWritten

\* What a request begins to hold was not too much.
LEMMA SumsBegunAreNotTooLarge ==
  ASSUME BooksInvariant, HeldTyped, PaymentsSound, NEW r \in Requests
  PROVE  /\ \A o \in Orders, method \in Methods, amount \in Amounts :
              BeginPayment(r, o, method, amount) =>
                /\ UNCHANGED payment
                /\ call'[r].kind = "createPayment" /\ call'[r].order = o
                /\ call'[r].collected <= amountOf(Received(o))
                /\ call'[r].due = order[o].total
                /\ UNCHANGED order
         /\ \A p \in Payments :
              BeginWebhook(r, p) =>
                /\ UNCHANGED payment
                /\ call'[r].kind = "webhook" /\ call'[r].payment = p
                /\ call'[r].collected <= amountOf(Received(payment[p].order) \cup {p})
                /\ call'[r].due = order[payment[p].order].total
                /\ UNCHANGED order
<1>1. ASSUME NEW o \in Orders, NEW method \in Methods, NEW amount \in Amounts,
             BeginPayment(r, o, method, amount)
      PROVE  /\ UNCHANGED payment
             /\ call'[r].kind = "createPayment" /\ call'[r].order = o
             /\ call'[r].collected <= amountOf(Received(o))
             /\ call'[r].due = order[o].total
             /\ UNCHANGED order
  <2>1. amountOf(Successful(o)) <= amountOf(Received(o))
    BY SuccessWasReceived, PaymentSets, AmountsAreMonotone
  <2>2. QED
    BY <1>1, <2>1 DEF BeginPayment, HeldTyped, paymentVars
<1>2. ASSUME NEW p \in Payments, BeginWebhook(r, p)
      PROVE  /\ UNCHANGED payment
             /\ call'[r].kind = "webhook" /\ call'[r].payment = p
             /\ call'[r].collected <= amountOf(Received(payment[p].order) \cup {p})
             /\ call'[r].due = order[payment[p].order].total
             /\ UNCHANGED order
  <2> DEFINE o == payment[p].order
  <2>1. p \in Issuances
    BY <1>2 DEF BeginWebhook, Issuances
  <2>2. /\ Received(o) \cup {p} \in SUBSET Issuances
        /\ Successful(o) \cup {p} \in SUBSET (Received(o) \cup {p})
    BY <2>1, PaymentSets, SuccessWasReceived
  <2>3. amountOf(Successful(o) \cup {p}) <= amountOf(Received(o) \cup {p})
    BY <2>2, AmountsAreMonotone
  <2>4. QED
    BY <1>2, <2>3 DEF BeginWebhook, HeldTyped, paymentVars
<1>3. QED
  BY <1>1, <1>2

\* A sum that is held through a step is not too large after it.
LEMMA NotTooLargeLasts ==
  ASSUME SumsInvariant, HeldTyped', PaymentsSound', [BillingNext]_billingVars,
         NEW c \in BillingHeld, HeldOK(c), NotTooLarge(c)
  PROVE  NotTooLarge(c)'
<1> USE DEF SumsInvariant
<1>1. PaymentsKept
  BY PaymentsAreKept
<1>2. ASSUME c.kind = "createPayment"
      PROVE  c.collected <= amountOf(Received(c.order))'
  <2>1. c.collected \in Nat
    BY <1>2, BillingHeldByKind DEF PaymentCall
  <2>2. c.collected <= amountOf(Received(c.order))
    BY <1>2 DEF NotTooLarge
  <2>3. c.collected <= SumFunctionOnSet(amounts', Received(c.order)')
    BY <1>1, <2>1, <2>2, ReceivedGrows, BoundLasts
  <2>4. QED
    BY <2>3 DEF amountOf
<1>3. ASSUME c.kind = "webhook"
      PROVE  c.collected <= amountOf(Received(payment[c.payment].order) \cup {c.payment})'
  <2> DEFINE p == c.payment
  <2>1. PICK o : o = payment[p].order
    OBVIOUS
  <2>2. p \in Issuances
    BY <1>3 DEF HeldOK, Issuances
  <2>3. p \in Issuances' /\ payment'[p].order = o
    BY <1>1, <2>1, <2>2 DEF PaymentsKept, Issuances
  <2>4. /\ Received(payment[p].order) = Received(o)
        /\ Received(payment[p].order)' = Received(o)'
    BY <2>1, <2>3 DEF Received, PaymentsOf
  <2>5. c.collected \in Nat
    BY <1>3, BillingHeldByKind DEF WebhookCall
  <2>6. c.collected <= amountOf(Received(o) \cup {p})
    BY <1>3, <2>4 DEF NotTooLarge
  <2>7. /\ Received(o) \cup {p} \in SUBSET Issuances
        /\ Received(o)' \cup {p} \in SUBSET Issuances'
        /\ Received(o) \cup {p} \subseteq Received(o)' \cup {p}
    BY <1>1, <2>2, <2>3, ReceivedGrows
  <2>8. c.collected <= SumFunctionOnSet(amounts', Received(o)' \cup {p})
    BY <1>1, <2>5, <2>6, <2>7, BoundLasts
  <2>9. QED
    BY <2>4, <2>8 DEF amountOf
<1>4. QED
  BY <1>2, <1>3 DEF NotTooLarge

\* While the payments stand, so do the sums.
LEMMA SumsStand ==
  ASSUME UNCHANGED payment, NEW c
  PROVE  NotTooLarge(c)' <=> NotTooLarge(c)
<1>1. amounts' = amounts
  BY DEF amounts
<1>2. \A o : Received(o)' = Received(o)
  BY DEF Received, PaymentsOf, Issued
<1>3. Received(payment[c.payment].order)' = Received(payment[c.payment].order)
  BY DEF Received, PaymentsOf, Issued
<1>4. QED
  BY <1>1, <1>2, <1>3 DEF NotTooLarge, amountOf

\* Held through the step or begun in it, no sum is too large after it.
LEMMA SumsStayNotTooLarge ==
  ASSUME SumsInvariant, BooksInvariant', HeldTyped', PaymentsSound',
         [BillingNext]_billingVars, NEW r \in Requests
  PROVE  NotTooLarge(call[r])'
<1> USE DEF SumsInvariant
<1>1. PICK c : c = call'[r]
  OBVIOUS
<1>2. NotTooLarge(c)' => NotTooLarge(call[r])'
  BY <1>1 DEF NotTooLarge, Received, PaymentsOf, amountOf
<1>3. CASE c = call[r]
  <2>1. c \in BillingHeld /\ HeldOK(c) /\ NotTooLarge(c)
    BY <1>3 DEF HeldTyped, BooksInvariant, BooksTyped, SumsAreNotTooLarge
  <2>2. QED
    BY <1>2, <2>1, NotTooLargeLasts
<1>4. CASE c \in {Idle} \cup UpdateCall \cup NotifyCall
  <2>1. c.kind \notin {"createPayment", "webhook"}
    BY <1>4 DEF Idle, UpdateCall, NotifyCall
  <2>2. QED
    BY <1>2, <2>1 DEF NotTooLarge
<1>5. ASSUME NEW o \in Orders, NEW method \in Methods, NEW amount \in Amounts,
             BeginPayment(r, o, method, amount)
      PROVE  NotTooLarge(call[r])'
  <2>1. NotTooLarge(c) /\ UNCHANGED payment
    BY <1>1, <1>5, SumsBegunAreNotTooLarge DEF NotTooLarge
  <2>2. QED
    BY <1>2, <2>1, SumsStand
<1>6. ASSUME NEW p \in Payments, BeginWebhook(r, p)
      PROVE  NotTooLarge(call[r])'
  <2>1. NotTooLarge(c) /\ UNCHANGED payment
    BY <1>1, <1>6, SumsBegunAreNotTooLarge DEF NotTooLarge
  <2>2. QED
    BY <1>2, <2>1, SumsStand
<1>7. QED
  BY <1>1, <1>3, <1>4, <1>5, <1>6, HeldAfter

\* Every step keeps the sums from being too large.
LEMMA SumsStep == SumsInvariant /\ [BillingNext]_billingVars => SumsInvariant'
<1> SUFFICES ASSUME SumsInvariant, [BillingNext]_billingVars PROVE SumsInvariant'
  OBVIOUS
<1>1. BooksInvariant' /\ HeldTyped' /\ PaymentsSound'
  BY BooksStep, HeldStaysTyped, PaymentsStaySound DEF SumsInvariant
<1>2. SumsAreNotTooLarge'
  BY <1>1, SumsStayNotTooLarge DEF SumsAreNotTooLarge
<1>3. QED
  BY <1>1, <1>2 DEF SumsInvariant

\* An empty database has sums that are not too large.
LEMMA SumsBegin == BillingInit => SumsInvariant
<1> SUFFICES ASSUME BillingInit PROVE SumsInvariant
  OBVIOUS
<1>1. BooksInvariant
  BY BooksBegin
<1>2. call = [r \in Requests |-> Idle] /\ webhooks = [p \in Payments |-> {}]
  BY DEF BillingInit, Init, TableInit, PaymentInit
<1>3. HeldTyped /\ SumsAreNotTooLarge
  BY <1>2 DEF HeldTyped, BillingHeld, SumsAreNotTooLarge, NotTooLarge, Idle
<1>4. Issuances = {}
  BY DEF BillingInit, PaymentInit, Issuances, Issued, NoPayment
<1>5. PaymentsSound
  BY <1>4, FS_EmptySet DEF PaymentsSound
<1>6. QED
  BY <1>1, <1>3, <1>5 DEF SumsInvariant

\* Whatever races, no handler holds a sum larger than what was received.
THEOREM SumsHold == BillingSpec => []SumsInvariant
BY SumsBegin, SumsStep, PTL DEF BillingSpec

\* Rows, calls, payments and messages keep their types for any constants, as
\* long as there may be an order a payment is for.
THEOREM BillingIsTyped ==
  ASSUME Orders # {}
  PROVE  BillingSpec => []BillingTypeOK
<1>1. SumsInvariant => BillingTypeOK
  <2>1. NoPayment.order \in Orders
    BY DEF NoPayment
  <2>2. PaymentPlace = PaymentRow
    BY <2>1 DEF PaymentPlace, PaymentRow
  <2>3. QED
    BY <2>2 DEF SumsInvariant, BooksInvariant, BooksTyped, HeldTyped, BillingHeld,
                BillingTypeOK
<1>2. QED
  BY <1>1, SumsHold, PTL
-----------------------------------------------------------------------------
(* The reports.                                                            *)

\* What a report of one order counts.
LEMMA CountedIsSuccessful ==
  ASSUME NEW o
  PROVE  counted({o}) = Successful(o)
BY DEF counted, Successful, PaymentsOf, Issued

\* What came in and was not taken back is what is counted.
LEMMA RevenueAddsUp ==
  ASSUME PaymentsSound, NEW o
  PROVE  /\ amountOf(counted({o})) \in Nat
         /\ amountOf(Returned(o)) \in Nat
         /\ amountOf(Received(o)) \in Nat
         /\ amountOf(counted({o})) + amountOf(Returned(o)) = amountOf(Received(o))
<1>1. /\ Received(o) = Successful(o) \cup Returned(o)
      /\ Successful(o) \cap Returned(o) = {}
  BY SuccessWasReceived DEF Received, Returned, Successful, PaymentsOf
<1>2. /\ Successful(o) \in SUBSET Issuances
      /\ Returned(o) \in SUBSET Issuances
      /\ Received(o) \in SUBSET Issuances
  BY <1>1, PaymentSets
<1>3. \A S \in SUBSET Issuances :
        IsFiniteSet(S) /\ (\A p \in S : amounts[p] \in Nat) /\ amountOf(S) \in Nat
  BY AmountsAreNat
<1>4. amountOf(Successful(o) \cup Returned(o))
        = amountOf(Successful(o)) + amountOf(Returned(o))
  BY <1>1, <1>2, <1>3, SumUnion DEF amountOf
<1>5. QED
  BY <1>1, <1>2, <1>3, <1>4, CountedIsSuccessful

\* The revenue by method of payment adds up to the revenue: each payment has one
\* of the methods there are.
LEMMA MethodsAddUp ==
  ASSUME PaymentsSound, NEW o
  PROVE  SumFunctionOnSet(getRevenueReport({o}).methods, Methods)
           = amountOf(counted({o}))
<1> DEFINE C == counted({o})
           by(m) == {p \in C : payment[p].method = m}
           f == [m \in Methods |-> amountOf(by(m))]
<1>1. C \in SUBSET Issuances /\ \A p \in C : payment[p].method \in Methods
  BY CountedIsSuccessful, PaymentSets DEF PaymentsSound
<1>2. \A S \in SUBSET Issuances :
        IsFiniteSet(S) /\ (\A p \in S : amounts[p] \in Nat) /\ amountOf(S) \in Nat
  BY AmountsAreNat
<1>3. \A m \in Methods : f[m] = amountOf(by(m)) /\ f[m] \in Nat
  BY <1>1, <1>2
<1>4. getRevenueReport({o}).methods = f
  BY DEF getRevenueReport
<1> HIDE DEF C
<1>5. SumFunctionOnSet(f, Methods) = amountOf(C)
  <2>1. CASE Methods = {}
    <3>1. C = {}
      BY <1>1, <2>1
    <3>2. SumFunctionOnSet(f, {}) = 0 /\ amountOf({}) = 0
      BY SumEmpty DEF amountOf
    <3>3. QED
      BY <2>1, <3>1, <3>2
  <2>2. ASSUME NEW m \in Methods, Methods = {m}
        PROVE  SumFunctionOnSet(f, Methods) = amountOf(C)
    <3>1. by(m) = C
      BY <1>1, <2>2
    <3>2. f[m] = amountOf(C) /\ f[m] \in Nat
      BY <1>3, <3>1
    <3> HIDE DEF f
    <3>3. SumFunctionOnSet(f, {} \cup {m}) = f[m] + SumFunctionOnSet(f, {})
      BY <3>2, SumAdd, FS_EmptySet
    <3>4. {} \cup {m} = {m}
      OBVIOUS
    <3>5. QED
      BY <2>2, <3>2, <3>3, <3>4, SumEmpty
  <2>3. CASE Methods = {"cash", "digital"}
    <3>1. /\ by("cash") \cup by("digital") = C
          /\ by("cash") \cap by("digital") = {}
          /\ by("cash") \in SUBSET Issuances
          /\ by("digital") \in SUBSET Issuances
      BY <1>1, <2>3
    <3>2. amountOf(C) = amountOf(by("cash")) + amountOf(by("digital"))
      <4> HIDE DEF by
      <4>1. QED
        BY <1>2, <3>1, SumUnion DEF amountOf
    <3>3. /\ f["cash"] = amountOf(by("cash")) /\ f["cash"] \in Nat
          /\ f["digital"] = amountOf(by("digital")) /\ f["digital"] \in Nat
      BY <1>3, <2>3
    <3> HIDE DEF f, by
    <3>4. SumFunctionOnSet(f, {"cash", "digital"}) = f["cash"] + f["digital"]
      BY <3>3, SumPair
    <3>5. QED
      BY <2>3, <3>2, <3>3, <3>4
  <2>4. QED
    BY <2>1, <2>2, <2>3, MethodsAssumption
<1>6. QED
  BY <1>4, <1>5 DEF C

\* Whatever races, the two reports agree, revenue is what came in less what was
\* taken back, splits by method without a rest, and is nothing while unpaid.
THEOREM ReportsAddUp == BillingSpec => []ReportAddsUp
<1>1. SumsInvariant => ReportAddsUp
  <2> SUFFICES ASSUME SumsInvariant, NEW o \in Orders, Exists(o)
               PROVE  LET reported == getRevenueReport({o})
                      IN /\ order[o].paymentStatus = "unpaid" => reported.revenue = 0
                         /\ reported.revenue + amountOf(Returned(o)) = amountOf(Received(o))
                         /\ reported.revenue = SumFunctionOnSet(reported.methods, Methods)
                         /\ reported.revenue = getBranchPerformance({o}).revenue
    BY DEF ReportAddsUp
  <2>1. PaymentsSound
    BY DEF SumsInvariant
  <2>2. /\ getRevenueReport({o}).revenue = amountOf(counted({o}))
        /\ getBranchPerformance({o}).revenue = amountOf(counted({o}))
    BY DEF getRevenueReport, getBranchPerformance
  <2>3. ASSUME order[o].paymentStatus = "unpaid"
        PROVE  amountOf(counted({o})) = 0
    <3>1. Received(o) = {}
      BY <2>3, ToldIsMeant DEF SumsInvariant, UnpaidIffNothingReceived
    <3>2. counted({o}) = {}
      BY <2>1, <3>1, SuccessWasReceived, CountedIsSuccessful
    <3>3. QED
      BY <3>2, SumEmpty DEF amountOf
  <2>4. QED
    BY <2>1, <2>2, <2>3, RevenueAddsUp, MethodsAddUp
<1>2. QED
  BY <1>1, SumsHold, PTL
-----------------------------------------------------------------------------
(* While the totals stand.  What follows rests on TotalsStand, which the   *)
(* code leaves to the staff; claim_paid_after_reweigh shows a weighing     *)
(* that breaks it.                                                         *)

\* The totals that handlers hold are then those of their orders.
DuesStand ==
  \A r \in Requests :
    LET c == call[r]
    IN /\ c.kind = "createPayment" => c.due = order[c.order].total
       /\ c.kind = "webhook" => c.due = order[payment[c.payment].order].total

DuesInvariant == SumsInvariant /\ DuesStand

\* A step that changes nothing leaves the totals alone as well.
LEMMA TotalsStandOrStutter == [TotalsStand]_billingVars => TotalsStand
BY DEF TotalsStand, billingVars, vars

\* While the totals stand, what a handler holds is the total of its order.
LEMMA DuesStep ==
  ASSUME DuesInvariant, [BillingNext]_billingVars, TotalsStand
  PROVE  DuesInvariant'
<1>1. SumsInvariant /\ SumsInvariant'
  BY SumsStep DEF DuesInvariant
<1>2. BooksInvariant /\ BooksInvariant' /\ HeldTyped /\ PaymentsSound
  BY <1>1 DEF SumsInvariant
<1>3. PaymentsKept
  BY <1>2, PaymentsAreKept
<1>4. ASSUME NEW r \in Requests
      PROVE  /\ call'[r].kind = "createPayment" =>
                  call'[r].due = order'[call'[r].order].total
             /\ call'[r].kind = "webhook" =>
                  call'[r].due = order'[payment'[call'[r].payment].order].total
  <2>1. CASE call'[r] = call[r]
    <3>1. ASSUME call[r].kind = "createPayment"
          PROVE  call[r].due = order'[call[r].order].total
      <4>1. call[r].order \in Orders /\ call[r].due = order[call[r].order].total
        BY <1>2, <3>1 DEF BooksInvariant, BooksTyped, HeldOK, DuesInvariant, DuesStand
      <4>2. Handled(call[r].order)
        BY <3>1 DEF Handled
      <4>3. QED
        BY <4>1, <4>2 DEF TotalsStand
    <3>2. ASSUME call[r].kind = "webhook"
          PROVE  call[r].due = order'[payment'[call[r].payment].order].total
      <4> DEFINE p == call[r].payment
                 o == payment[p].order
      <4>1. p \in Issuances /\ o \in Orders /\ call[r].due = order[o].total
        BY <1>2, <3>2 DEF BooksInvariant, BooksTyped, PaymentsTraced, HeldOK, Issuances,
                          DuesInvariant, DuesStand
      <4>2. Handled(o)
        BY <3>2 DEF Handled
      <4>3. payment'[p].order = o
        BY <1>3, <4>1 DEF PaymentsKept
      <4>4. order'[o].total = order[o].total
        BY <4>1, <4>2 DEF TotalsStand
      <4>5. QED
        BY <4>1, <4>3, <4>4
    <3>3. QED
      BY <2>1, <3>1, <3>2
  <2>2. CASE call'[r] \in {Idle} \cup UpdateCall \cup NotifyCall
    BY <2>2 DEF Idle, UpdateCall, NotifyCall
  <2>3. CASE \E o \in Orders, method \in Methods, amount \in Amounts :
               BeginPayment(r, o, method, amount)
    BY <1>2, <2>3, SumsBegunAreNotTooLarge
  <2>4. CASE \E p \in Payments : BeginWebhook(r, p)
    BY <1>2, <2>4, SumsBegunAreNotTooLarge
  <2>5. QED
    BY <1>2, <2>1, <2>2, <2>3, <2>4, HeldAfter
<1>5. DuesStand'
  BY <1>4 DEF DuesStand
<1>6. QED
  BY <1>1, <1>5 DEF DuesInvariant

\* What a rewritten payment changes in the sets that are added up.
LEMMA RewrittenSets ==
  ASSUME NEW p \in Payments, Rewritten(p), NEW x
  PROVE  /\ Received(x)' = IF payment'[p].order = x /\ payment'[p].paidAt
                           THEN Received(x) \cup {p} ELSE Received(x) \ {p}
         /\ Successful(x)' = IF payment'[p].order = x /\ payment'[p].status = "success"
                             THEN Successful(x) \cup {p} ELSE Successful(x) \ {p}
BY DEF Rewritten, Received, Successful, PaymentsOf, Issued

\* The sum over payments there were already stays; one more payment, or one less,
\* adds or takes its amount.
LEMMA SumsFollow ==
  ASSUME PaymentsSound, PaymentsSound', PaymentsKept, NEW S \in SUBSET Issuances
  PROVE  /\ amountOf(S) \in Nat
         /\ SumFunctionOnSet(amounts', S) = amountOf(S)
         /\ \A p \in Issuances' \ S :
              SumFunctionOnSet(amounts', S \cup {p}) = amountOf(S) + payment'[p].amount
         /\ \A p \in S :
              amountOf(S) = payment[p].amount + SumFunctionOnSet(amounts', S \ {p})
<1>1. /\ IsFiniteSet(S)
      /\ \A p \in S : amounts[p] = payment[p].amount /\ amounts[p] \in Nat
      /\ amountOf(S) \in Nat
  BY AmountsAreNat
<1>2. \A p \in Issuances' : amounts'[p] = payment'[p].amount /\ amounts'[p] \in Nat
  BY AmountsAssumption DEF PaymentsSound, Issuances, amounts
<1>3. S \in SUBSET Issuances'
  BY DEF PaymentsKept, Issuances
<1>4. \A p \in S : amounts'[p] = amounts[p]
  BY <1>1, <1>2, <1>3 DEF PaymentsKept
<1>5. SumFunctionOnSet(amounts', S) = amountOf(S)
  BY <1>1, <1>4, SumSame DEF amountOf
<1>6. ASSUME NEW p \in Issuances' \ S
      PROVE  SumFunctionOnSet(amounts', S \cup {p}) = amountOf(S) + payment'[p].amount
  <2>1. SumFunctionOnSet(amounts', S \cup {p})
          = amounts'[p] + SumFunctionOnSet(amounts', S)
    BY <1>1, <1>2, <1>3, SumAdd
  <2>2. \A a, b \in Nat : a + b = b + a
    OBVIOUS
  <2>3. QED
    BY <1>1, <1>2, <1>5, <2>1, <2>2
<1>7. ASSUME NEW p \in S
      PROVE  amountOf(S) = payment[p].amount + SumFunctionOnSet(amounts', S \ {p})
  <2>1. amountOf(S) = amounts[p] + SumFunctionOnSet(amounts, S \ {p})
    BY <1>1, SumRemove DEF amountOf
  <2>2. IsFiniteSet(S \ {p})
    BY <1>1, FS_Subset
  <2>3. SumFunctionOnSet(amounts, S \ {p}) = SumFunctionOnSet(amounts', S \ {p})
    BY <1>4, <2>2, SumSame
  <2>4. QED
    BY <1>1, <2>1, <2>3
<1>8. QED
  BY <1>1, <1>5, <1>6, <1>7
-----------------------------------------------------------------------------
(* The ledger, order by order.                                             *)

DueOf(o) == order[o].total
CameIn(o) == amountOf(Received(o))
KeptOf(o) == getRevenueReport({o}).revenue
ShownOf(o) == order[o].paymentStatus

\* The books of an order stay as they are.
Unnoticed(o) ==
  /\ DueOf(o)' = DueOf(o)
  /\ CameIn(o)' = CameIn(o)
  /\ KeptOf(o)' = KeptOf(o)
  /\ ShownOf(o)' = ShownOf(o)

\* The revenue of an order is the sum of its successful payments, now and next.
LEMMA KeptIsSuccessful ==
  ASSUME NEW o
  PROVE  /\ KeptOf(o) = amountOf(Successful(o))
         /\ KeptOf(o)' = SumFunctionOnSet(amounts', Successful(o)')
<1>1. getRevenueReport({o}).revenue = amountOf(counted({o}))
  BY DEF getRevenueReport
<1>2. counted({o}) = Successful(o) /\ counted({o})' = Successful(o)'
  BY DEF counted, Successful, PaymentsOf, Issued
<1>3. (getRevenueReport({o}).revenue)' = SumFunctionOnSet(amounts', counted({o})')
  BY DEF getRevenueReport, amountOf
<1>4. QED
  BY <1>1, <1>2, <1>3 DEF KeptOf

\* While no payment is written the sums stand.
LEMMA SumsOfStand ==
  ASSUME UNCHANGED payment, NEW o
  PROVE  CameIn(o)' = CameIn(o) /\ KeptOf(o)' = KeptOf(o)
<1>1. /\ amounts' = amounts
      /\ Received(o)' = Received(o)
      /\ Successful(o)' = Successful(o)
  BY DEF amounts, Received, Successful, PaymentsOf, Issued
<1>2. QED
  BY <1>1, KeptIsSuccessful DEF CameIn, amountOf

\* The sums of the orders a written payment is not for stand.
LEMMA SumsOfOthersStand ==
  ASSUME PaymentsSound, PaymentsSound', PaymentsKept,
         NEW p \in Payments, Rewritten(p), NEW x, x # payment'[p].order
  PROVE  CameIn(x)' = CameIn(x) /\ KeptOf(x)' = KeptOf(x)
<1>1. p \notin PaymentsOf(x)
  BY DEF Rewritten, PaymentsOf
<1>2. Received(x)' = Received(x) /\ Successful(x)' = Successful(x)
  BY <1>1, RewrittenSets DEF Received, Successful
<1>3. /\ SumFunctionOnSet(amounts', Received(x)) = amountOf(Received(x))
      /\ SumFunctionOnSet(amounts', Successful(x)) = amountOf(Successful(x))
  BY PaymentSets, SumsFollow
<1>4. QED
  BY <1>2, <1>3, KeptIsSuccessful DEF CameIn, amountOf

\* The first time money comes in for a payment, all its amount does.
LEMMA SumsReceive ==
  ASSUME PaymentsSound, PaymentsSound', PaymentsKept,
         NEW p \in Payments, Rewritten(p), payment'[p].status = "success",
         ~(Issued(p) /\ payment[p].paidAt),
         NEW o, o = payment'[p].order
  PROVE  /\ payment'[p].amount \in Amounts
         /\ CameIn(o)' = CameIn(o) + payment'[p].amount
         /\ KeptOf(o)' = KeptOf(o) + payment'[p].amount
         /\ Received(o)' = Received(o) \cup {p}
<1>1. p \in Issuances' /\ payment'[p].amount \in Amounts
  BY DEF Rewritten, Issuances, Issued, PaymentsSound
<1>2. p \notin Received(o) /\ p \notin Successful(o)
  BY SuccessWasReceived DEF Received, PaymentsOf
<1>3. Received(o)' = Received(o) \cup {p} /\ Successful(o)' = Successful(o) \cup {p}
  BY RewrittenSets DEF Rewritten
<1>4. /\ SumFunctionOnSet(amounts', Received(o) \cup {p})
           = amountOf(Received(o)) + payment'[p].amount
      /\ SumFunctionOnSet(amounts', Successful(o) \cup {p})
           = amountOf(Successful(o)) + payment'[p].amount
  BY <1>1, <1>2, PaymentSets, SumsFollow
<1>5. QED
  BY <1>1, <1>3, <1>4, KeptIsSuccessful DEF CameIn, amountOf

\* Money that had come in counts again at most.
LEMMA SumsRestate ==
  ASSUME PaymentsSound, PaymentsSound', PaymentsKept,
         NEW p \in Payments, Rewritten(p), payment'[p].status = "success",
         Issued(p), payment[p].paidAt,
         NEW o, o = payment'[p].order
  PROVE  /\ CameIn(o)' = CameIn(o)
         /\ CameIn(o) > 0
         /\ \E a \in Amounts \cup {0} :
              KeptOf(o)' = KeptOf(o) + a /\ KeptOf(o) + a <= CameIn(o)
         /\ Received(o)' = Received(o) \cup {p}
<1>1. p \in Issuances /\ p \in Issuances' /\ payment'[p].amount = payment[p].amount
  BY DEF Rewritten, Issuances, Issued
<1>2. payment[p].amount \in Nat \ {0} /\ payment[p].amount \in Amounts
  BY <1>1, AmountsAssumption DEF PaymentsSound
<1>3. p \in Received(o)
  BY DEF Received, PaymentsOf, Rewritten
<1>4. Received(o)' = Received(o) \cup {p} /\ Successful(o)' = Successful(o) \cup {p}
  BY RewrittenSets DEF Rewritten
<1>5. Received(o)' = Received(o)
  BY <1>3, <1>4
<1>6. CameIn(o)' = CameIn(o) /\ CameIn(o) \in Nat
  BY <1>5, PaymentSets, SumsFollow DEF CameIn, amountOf
<1>7. CameIn(o) > 0
  <2>1. Received(o) \ {p} \in SUBSET Issuances
    BY PaymentSets
  <2>2. SumFunctionOnSet(amounts', Received(o) \ {p}) \in Nat
    BY <2>1, SumsFollow
  <2>3. CameIn(o) = payment[p].amount + SumFunctionOnSet(amounts', Received(o) \ {p})
    BY <1>3, PaymentSets, SumsFollow DEF CameIn
  <2>4. QED
    BY <1>2, <2>2, <2>3
<1>8. KeptOf(o)' <= CameIn(o)
  <2>1. Successful(o)' \in SUBSET Received(o)'
    BY <1>3, <1>4, SuccessWasReceived
  <2>2. /\ IsFiniteSet(Received(o)')
        /\ \A q \in Received(o)' : amounts'[q] \in Nat
    <3>1. \A q \in Issuances' : amounts'[q] \in Nat
      BY AmountsAssumption DEF PaymentsSound, Issuances, amounts
    <3>2. Received(o) \in SUBSET Issuances'
      BY PaymentSets DEF PaymentsKept, Issuances
    <3>3. IsFiniteSet(Received(o))
      BY PaymentSets, AmountsAreNat
    <3>4. QED
      BY <1>5, <3>1, <3>2, <3>3
  <2>3. SumFunctionOnSet(amounts', Successful(o)')
          <= SumFunctionOnSet(amounts', Received(o)')
    BY <2>1, <2>2, SumMonotone
  <2>4. QED
    BY <1>6, <2>3, KeptIsSuccessful DEF CameIn, amountOf
<1>9. \E a \in Amounts \cup {0} : KeptOf(o)' = KeptOf(o) + a
  <2>1. CASE p \in Successful(o)
    <3>1. Successful(o)' = Successful(o)
      BY <1>4, <2>1
    <3>2. KeptOf(o)' = KeptOf(o) + 0
      BY <3>1, PaymentSets, SumsFollow, KeptIsSuccessful
    <3>3. QED
      BY <3>2
  <2>2. CASE p \notin Successful(o)
    <3>1. KeptOf(o)' = KeptOf(o) + payment'[p].amount
      BY <1>1, <1>4, <2>2, PaymentSets, SumsFollow, KeptIsSuccessful
    <3>2. QED
      BY <1>1, <1>2, <3>1
  <2>3. QED
    BY <2>1, <2>2
<1>10. QED
  BY <1>4, <1>6, <1>7, <1>8, <1>9

\* A payment that stops being successful takes its amount off what is kept, and
\* nothing off what came in.
LEMMA SumsReturn ==
  ASSUME PaymentsSound, PaymentsSound', PaymentsKept,
         NEW p \in Payments, Rewritten(p), payment'[p].status # "success",
         ~Issued(p) => ~payment'[p].paidAt,
         Issued(p) => payment'[p].paidAt = payment[p].paidAt,
         NEW o, o = payment'[p].order
  PROVE  /\ CameIn(o)' = CameIn(o)
         /\ \/ KeptOf(o)' = KeptOf(o)
            \/ \E a \in Amounts : a <= KeptOf(o) /\ KeptOf(o)' = KeptOf(o) - a
<1>1. Received(o)' = Received(o) /\ Successful(o)' = Successful(o) \ {p}
  BY RewrittenSets DEF Received, PaymentsOf, Rewritten, Issued
<1>2. CameIn(o)' = CameIn(o)
  BY <1>1, PaymentSets, SumsFollow DEF CameIn, amountOf
<1>3. CASE p \notin Successful(o)
  <2>1. Successful(o)' = Successful(o)
    BY <1>1, <1>3
  <2>2. KeptOf(o)' = KeptOf(o)
    BY <2>1, PaymentSets, SumsFollow, KeptIsSuccessful
  <2>3. QED
    BY <1>2, <2>2
<1>4. CASE p \in Successful(o)
  <2>1. payment[p].amount \in Amounts /\ payment[p].amount \in Nat
    BY <1>4, PaymentSets, AmountsAssumption DEF PaymentsSound
  <2>2. KeptOf(o) = payment[p].amount + KeptOf(o)'
    BY <1>1, <1>4, PaymentSets, SumsFollow, KeptIsSuccessful
  <2>3. Successful(o) \ {p} \in SUBSET Issuances
    BY PaymentSets
  <2>4. KeptOf(o)' \in Nat
    BY <1>1, <2>3, SumsFollow, KeptIsSuccessful
  <2>5. \A a, b \in Nat : a <= a + b /\ b = (a + b) - a
    OBVIOUS
  <2>6. QED
    BY <1>2, <2>1, <2>2, <2>4, <2>5
<1>5. QED
  BY <1>3, <1>4

\* An order is shown as partly or wholly paid, the latter only if its total has
\* come in: the sum in hand is not too large, the total in hand is the order's.
ShownRightly(o) ==
  /\ \A x \in Orders : DueOf(x)' = DueOf(x)
  /\ \A x \in Orders \ {o} : ShownOf(x)' = ShownOf(x)
  /\ ShownOf(o)' \in {"partial", "paid"}
  /\ ShownOf(o)' = "paid" => CameIn(o)' >= DueOf(o)

\* A sum that is not too large, against the right total, shows an order rightly.
LEMMA VerdictIsRight ==
  ASSUME BooksInvariant, NEW o \in Orders, NEW collected \in Nat, NEW total,
         order' = [order EXCEPT ![o].paymentStatus = verdict(collected, total)],
         total = DueOf(o), CameIn(o)' \in Nat, collected <= CameIn(o)'
  PROVE  ShownRightly(o)
<1>1. order \in [Orders -> Row]
  BY DEF BooksInvariant, BooksTyped
<1>2. /\ \A x \in Orders \ {o} : order'[x] = order[x]
      /\ order'[o].total = order[o].total
      /\ order'[o].paymentStatus = verdict(collected, total)
  BY <1>1 DEF Row
<1>3. total \in Nat
  BY <1>1 DEF DueOf, Row
<1>4. verdict(collected, total) = "paid" => collected >= total
  BY DEF verdict
<1>5. \A a \in Nat : collected <= a /\ collected >= total => a >= total
  BY <1>3
<1>6. QED
  BY <1>2, <1>4, <1>5, VerdictIsSome DEF ShownRightly, DueOf, ShownOf

\* Cash.
LEMMA CashIsReceived ==
  ASSUME DuesInvariant, DuesInvariant', PaymentsKept,
         NEW r \in Requests, NEW p \in Payments,
         CommitPayment(r, p), call[r].method = "cash"
  PROVE  /\ call[r].order \in Orders
         /\ payment'[p].order = call[r].order
         /\ Rewritten(p)
         /\ payment'[p].status = "success"
         /\ ~Issued(p)
         /\ ShownRightly(call[r].order)
<1> DEFINE c == call[r]
<1>1. PICK o : o = c.order
  OBVIOUS
<1>2. /\ BooksInvariant /\ HeldTyped /\ PaymentsSound /\ PaymentsSound'
      /\ NotTooLarge(c)
      /\ c.kind = "createPayment" /\ c.due = order[o].total
  BY <1>1 DEF DuesInvariant, SumsInvariant, SumsAreNotTooLarge, DuesStand, CommitPayment
<1>3. o \in Orders /\ c.collected \in Nat /\ c.amount \in Nat
  BY <1>1, <1>2, BillingHeldByKind, AmountsAssumption DEF HeldTyped, PaymentCall
<1>4. /\ payment'[p] = [status |-> "success", order |-> o, method |-> c.method,
                        amount |-> c.amount, paidAt |-> TRUE]
      /\ order' = [order EXCEPT ![o].paymentStatus = verdict(c.collected + c.amount, c.due)]
      /\ ~Issued(p)
  BY <1>1, <1>2 DEF CommitPayment, BooksInvariant, BooksTyped
<1>5. Rewritten(p)
  BY <1>2, CommitRewrites
<1>6. CameIn(o)' = CameIn(o) + c.amount
  BY <1>2, <1>4, <1>5, SumsReceive
<1>7. c.collected <= CameIn(o) /\ CameIn(o) \in Nat
  BY <1>1, <1>2, PaymentSets, AmountsAreNat DEF NotTooLarge, CameIn
<1>8. ShownRightly(o)
  <2>1. /\ c.collected + c.amount \in Nat
        /\ CameIn(o)' \in Nat
        /\ c.collected + c.amount <= CameIn(o)'
    BY <1>3, <1>6, <1>7
  <2>2. c.due = DueOf(o)
    BY <1>2 DEF DueOf
  <2>3. QED
    BY <1>2, <1>3, <1>4, <2>1, <2>2, VerdictIsRight
<1>9. QED
  BY <1>1, <1>3, <1>4, <1>5, <1>8

\* The gateway's message that a payment succeeded.
LEMMA WebhookIsShown ==
  ASSUME DuesInvariant, DuesInvariant', PaymentsKept, NEW r \in Requests, CommitWebhook(r),
         NEW p, p = call[r].payment
  PROVE  /\ p \in Payments
         /\ payment'[p].order \in Orders
         /\ Rewritten(p)
         /\ payment'[p].status = "success"
         /\ Issued(p)
         /\ payment'[p].order = payment[p].order
         /\ ShownRightly(payment[p].order)
<1> DEFINE c == call[r]
<1>1. /\ BooksInvariant /\ HeldTyped /\ PaymentsSound /\ PaymentsSound'
      /\ NotTooLarge(c)
      /\ c.kind = "webhook"
  BY DEF DuesInvariant, SumsInvariant, SumsAreNotTooLarge, CommitWebhook
<1>2. p \in Issuances /\ Rewritten(p) /\ payment'[p].status = "success"
  <2>1. payment[p] \in PaymentPlace /\ Rewritten(p) /\ p \in Issuances
        /\ payment'[p] = [payment[p] EXCEPT !.status = "success", !.paidAt = TRUE]
    BY <1>1, WebhookRewrites DEF BooksInvariant, BooksTyped, Issuances
  <2>2. QED
    BY <2>1 DEF PaymentPlace
<1>3. PICK o : o = payment[p].order
  OBVIOUS
<1>4. o \in Orders /\ c.due = DueOf(o) /\ payment'[p].order = o
  BY <1>1, <1>2, <1>3 DEF DuesInvariant, DuesStand, BooksInvariant, PaymentsTraced,
                          Issuances, PaymentsKept, DueOf
<1>5. order' = [order EXCEPT ![o].paymentStatus = verdict(c.collected, c.due)]
  BY <1>3 DEF CommitWebhook
<1>6. c.collected \in Nat /\ c.collected <= amountOf(Received(o) \cup {p})
  BY <1>1, <1>3, BillingHeldByKind DEF HeldTyped, WebhookCall, NotTooLarge
<1>7. /\ Received(o) \cup {p} \in SUBSET Issuances
      /\ Received(o)' = Received(o) \cup {p}
  <2>1. p \in Payments /\ payment'[p].paidAt
    BY <1>2 DEF Rewritten, Issuances
  <2>2. Received(o)' = Received(o) \cup {p}
    BY <1>2, <1>4, <2>1, RewrittenSets
  <2>3. QED
    BY <1>2, <2>2, PaymentSets
<1>8. CameIn(o)' = amountOf(Received(o) \cup {p}) /\ CameIn(o)' \in Nat
  BY <1>1, <1>7, SumsFollow DEF CameIn, amountOf
<1>9. ShownRightly(o)
  BY <1>1, <1>4, <1>5, <1>6, <1>8, VerdictIsRight
<1>10. QED
  BY <1>2, <1>3, <1>4, <1>9 DEF Issuances

\* A step of the workflow writes at most one order.
LEMMA OneOrderAtATime ==
  ASSUME BooksInvariant, [Next]_vars
  PROVE  \/ UNCHANGED order
         \/ \E o \in Orders : \A x \in Orders \ {o} : order'[x] = order[x]
<1> USE DEF BooksInvariant, BooksTyped
<1>1. ASSUME NEW r \in Requests, UpdateStatus(r)
      PROVE  \/ UNCHANGED order
             \/ \E o \in Orders : \A x \in Orders \ {o} : order'[x] = order[x]
  BY <1>1 DEF UpdateStatus, OrderServiceStep, CreateOrder, ReadForUpdate, CommitUpdate,
              AbortUpdate, HeldOK
<1>2. ASSUME NEW r \in Requests, UpdateWeight(r)
      PROVE  \E o \in Orders : \A x \in Orders \ {o} : order'[x] = order[x]
  BY <1>2 DEF UpdateWeight, VerifyAndApplyWeight
<1>3. ASSUME NEW r \in Requests, NEW o, NEW agreed \in BOOLEAN, ConfirmWeight(r, o, agreed)
      PROVE  \/ UNCHANGED order
             \/ \E x \in Orders : \A y \in Orders \ {x} : order'[y] = order[y]
  BY <1>3 DEF ConfirmWeight
<1>4. ASSUME NEW r \in Requests, PressButton(r) \/ ConfirmInApp(r)
      PROVE  \/ UNCHANGED order
             \/ \E o \in Orders : \A x \in Orders \ {o} : order'[x] = order[x]
  BY <1>3, <1>4 DEF PressButton, ConfirmInApp
<1>5. ASSUME NEW r \in Requests, QueueWeightMismatchNotification(r)
      PROVE  UNCHANGED order
  BY <1>5 DEF QueueWeightMismatchNotification
<1>6. CASE ProcessNextJob \/ Crash \/ UNCHANGED vars
  BY <1>6 DEF ProcessNextJob, Crash, tableVars, vars
<1>7. QED
  BY <1>1, <1>2, <1>4, <1>5, <1>6 DEF Next

\* A weighing or a new order: the books notice at most the total of one order,
\* and nothing has come in for that one.
WorkflowNoticed(o) ==
  /\ Received(o) = {} /\ CameIn(o) = 0
  /\ \A x \in Orders : /\ CameIn(x)' = CameIn(x)
                       /\ KeptOf(x)' = KeptOf(x)
                       /\ ShownOf(x)' = ShownOf(x)
  /\ \A x \in Orders \ {o} : DueOf(x)' = DueOf(x)

\* A step of the workflow is a stutter of the books, or sets one total.
LEMMA WorkflowInBooks ==
  ASSUME DuesInvariant, [Next]_vars, UNCHANGED payment, TotalsStand
  PROVE  \/ \A x \in Orders : Unnoticed(x)
         \/ \E o \in Orders : WorkflowNoticed(o)
<1>1. BooksInvariant
  BY DEF DuesInvariant, SumsInvariant
<1>2. \A x : CameIn(x)' = CameIn(x) /\ KeptOf(x)' = KeptOf(x)
  BY SumsOfStand
<1>3. \A x \in Orders : ShownOf(x)' = ShownOf(x)
  <2>1. Neutral
    BY <1>1, WorkflowIsNeutral
  <2>2. \A x \in Orders : ~Exists(x) => order[x].paymentStatus = "unpaid"
    BY <1>1 DEF BooksInvariant, UnpaidTold, PaymentsTraced
  <2>3. QED
    BY <2>1, <2>2 DEF Neutral, ShownOf
<1>4. CASE \A x \in Orders : DueOf(x)' = DueOf(x)
  BY <1>2, <1>3, <1>4 DEF Unnoticed
<1>5. ASSUME NEW o \in Orders, DueOf(o)' # DueOf(o)
      PROVE  WorkflowNoticed(o)
  <2>1. \A x \in Orders \ {o} : DueOf(x)' = DueOf(x)
    BY <1>1, <1>5, OneOrderAtATime DEF DueOf
  <2>2. Received(o) = {}
    BY <1>5 DEF TotalsStand, DueOf
  <2>3. CameIn(o) = 0
    BY <2>2, SumEmpty DEF CameIn, amountOf
  <2>4. QED
    BY <1>2, <1>3, <2>1, <2>2, <2>3 DEF WorkflowNoticed
<1>6. QED
  BY <1>4, <1>5

\* Money comes in; the gateway repeats itself; a payment is taken back.
MoneyComesIn(o) ==
  /\ \A x \in Orders \ {o} : CameIn(x)' = CameIn(x) /\ KeptOf(x)' = KeptOf(x)
  /\ \E a \in Amounts : /\ CameIn(o)' = CameIn(o) + a
                        /\ KeptOf(o)' = KeptOf(o) + a
  /\ ShownRightly(o)

MessageRepeated(o) ==
  /\ \A x \in Orders \ {o} : KeptOf(x)' = KeptOf(x)
  /\ \A x \in Orders : CameIn(x)' = CameIn(x)
  /\ CameIn(o) > 0
  /\ \E a \in Amounts \cup {0} :
       KeptOf(o)' = KeptOf(o) + a /\ KeptOf(o) + a <= CameIn(o)
  /\ ShownRightly(o)

TakenBack(o) ==
  /\ \A x \in Orders \ {o} : KeptOf(x)' = KeptOf(x)
  /\ \A x \in Orders : /\ CameIn(x)' = CameIn(x)
                       /\ DueOf(x)' = DueOf(x)
                       /\ ShownOf(x)' = ShownOf(x)
  /\ \E a \in Amounts : a <= KeptOf(o) /\ KeptOf(o)' = KeptOf(o) - a

InBooks ==
  \/ \A x \in Orders : Unnoticed(x)
  \/ \E o \in Orders :
       WorkflowNoticed(o) \/ MoneyComesIn(o) \/ MessageRepeated(o) \/ TakenBack(o)

\* A payment that is noted or taken back leaves the orders alone.
LEMMA NoteInBooks ==
  ASSUME DuesInvariant, DuesInvariant', PaymentsKept, UNCHANGED order,
         NEW p \in Payments, Rewritten(p), payment'[p].order \in Orders,
         payment'[p].status # "success",
         ~Issued(p) => ~payment'[p].paidAt,
         Issued(p) => payment'[p].paidAt = payment[p].paidAt
  PROVE  InBooks
<1>1. PICK o \in Orders : o = payment'[p].order
  OBVIOUS
<1>2. PaymentsSound /\ PaymentsSound'
  BY DEF DuesInvariant, SumsInvariant
<1>3. \A x \in Orders \ {o} : CameIn(x)' = CameIn(x) /\ KeptOf(x)' = KeptOf(x)
  BY <1>1, <1>2, SumsOfOthersStand
<1>4. /\ CameIn(o)' = CameIn(o)
      /\ \/ KeptOf(o)' = KeptOf(o)
         \/ \E a \in Amounts : a <= KeptOf(o) /\ KeptOf(o)' = KeptOf(o) - a
  BY <1>1, <1>2, SumsReturn
<1>5. \A x \in Orders : DueOf(x)' = DueOf(x) /\ ShownOf(x)' = ShownOf(x)
  BY DEF DueOf, ShownOf
<1>6. CASE KeptOf(o)' = KeptOf(o)
  BY <1>3, <1>4, <1>5, <1>6 DEF InBooks, Unnoticed
<1>7. CASE KeptOf(o)' # KeptOf(o)
  <2>1. TakenBack(o)
    BY <1>3, <1>4, <1>5, <1>7 DEF TakenBack
  <2>2. QED
    BY <2>1 DEF InBooks
<1>8. QED
  BY <1>6, <1>7

\* What each step is in the books.
LEMMA StepInBooks ==
  ASSUME DuesInvariant, DuesInvariant', [BillingNext]_billingVars, TotalsStand
  PROVE  InBooks
<1>1. /\ BooksInvariant /\ HeldTyped /\ PaymentsSound /\ PaymentsSound'
      /\ PaymentsKept
  BY PaymentsAreKept DEF DuesInvariant, SumsInvariant
<1>2. CASE [Next]_vars /\ UNCHANGED payment
  BY <1>2, WorkflowInBooks DEF InBooks
<1>3. ASSUME NEW r \in Requests, NEW p \in Payments, CommitPayment(r, p)
      PROVE  InBooks
  <2>1. CASE call[r].method = "cash"
    <3>1. PICK o \in Orders : o = call[r].order
      BY <1>1, <1>3, <2>1, CashIsReceived
    <3>2. /\ payment'[p].order = o /\ Rewritten(p) /\ payment'[p].status = "success"
          /\ ~Issued(p) /\ ShownRightly(o)
      BY <1>1, <1>3, <2>1, <3>1, CashIsReceived
    <3>3. \A x \in Orders \ {o} : CameIn(x)' = CameIn(x) /\ KeptOf(x)' = KeptOf(x)
      BY <1>1, <3>2, SumsOfOthersStand
    <3>4. MoneyComesIn(o)
      BY <1>1, <3>2, <3>3, SumsReceive DEF MoneyComesIn
    <3>5. QED
      BY <3>4 DEF InBooks
  <2>2. CASE call[r].method # "cash"
    <3>1. call[r].order \in Orders
      BY <1>1, <1>3 DEF CommitPayment, BooksInvariant, BooksTyped, HeldOK
    <3>2. /\ payment'[p].order = call[r].order /\ payment'[p].status = "pending"
          /\ ~payment'[p].paidAt /\ ~Issued(p) /\ UNCHANGED order
      BY <1>1, <1>3, <2>2 DEF CommitPayment, BooksInvariant, BooksTyped
    <3>3. Rewritten(p)
      BY <1>1, <1>3, CommitRewrites
    <3>4. QED
      BY <1>1, <3>1, <3>2, <3>3, NoteInBooks
  <2>3. QED
    BY <2>1, <2>2
<1>4. ASSUME NEW r \in Requests, CommitWebhook(r)
      PROVE  InBooks
  <2>1. PICK p \in Payments : p = call[r].payment
    BY <1>1, <1>4, WebhookIsShown
  <2>2. PICK o \in Orders : o = payment'[p].order /\ o = payment[p].order
    BY <1>1, <1>4, <2>1, WebhookIsShown
  <2>3. Rewritten(p) /\ payment'[p].status = "success" /\ Issued(p) /\ ShownRightly(o)
    BY <1>1, <1>4, <2>1, <2>2, WebhookIsShown
  <2>4. \A x \in Orders \ {o} : CameIn(x)' = CameIn(x) /\ KeptOf(x)' = KeptOf(x)
    BY <1>1, <2>2, <2>3, SumsOfOthersStand
  <2>5. CASE ~payment[p].paidAt
    <3>1. MoneyComesIn(o)
      BY <1>1, <2>2, <2>3, <2>4, <2>5, SumsReceive DEF MoneyComesIn
    <3>2. QED
      BY <3>1 DEF InBooks
  <2>6. CASE payment[p].paidAt
    <3>1. /\ CameIn(o)' = CameIn(o)
          /\ CameIn(o) > 0
          /\ \E a \in Amounts \cup {0} :
               KeptOf(o)' = KeptOf(o) + a /\ KeptOf(o) + a <= CameIn(o)
      BY <1>1, <2>2, <2>3, <2>6, SumsRestate
    <3>2. MessageRepeated(o)
      BY <2>3, <2>4, <3>1 DEF MessageRepeated
    <3>3. QED
      BY <3>2 DEF InBooks
  <2>7. QED
    BY <2>5, <2>6
<1>5. ASSUME NEW r \in Requests, NEW p \in Payments, CloseByWebhook(r, p)
      PROVE  InBooks
  <2>1. Rewritten(p)
    BY <1>1, <1>5, CloseRewrites
  <2>2. PICK outcome \in {"failed", "refunded"} :
          payment' = [payment EXCEPT ![p].status = outcome]
    BY <1>5 DEF CloseByWebhook
  <2>3. /\ payment[p] \in PaymentPlace /\ Issued(p) /\ payment[p].order \in Orders
        /\ payment'[p] = [payment[p] EXCEPT !.status = outcome]
        /\ UNCHANGED order
    BY <1>1, <1>5, <2>2
    DEF CloseByWebhook, BooksInvariant, BooksTyped, PaymentsTraced, tableVars
  <2>4. /\ payment'[p].status # "success"
        /\ payment'[p].paidAt = payment[p].paidAt
        /\ payment'[p].order \in Orders
    BY <2>3 DEF PaymentPlace
  <2>5. QED
    BY <1>1, <2>1, <2>3, <2>4, NoteInBooks
<1>6. CASE UNCHANGED <<order, payment>>
  BY <1>6, SumsOfStand DEF InBooks, Unnoticed, DueOf, ShownOf
<1>7. QED
  BY <1>2, <1>3, <1>4, <1>5, <1>6
  DEF BillingNext, billingVars, paymentVars, PaymentStep, BeginPayment, BeginWebhook,
      AbortPayment, GatewayStep, GatewaySends, tableVars

\* An empty database is an empty ledger.
LEMMA LedgerBegins == BillingInit => DuesInvariant /\ Books!Init
<1> SUFFICES ASSUME BillingInit PROVE DuesInvariant /\ Books!Init
  OBVIOUS
<1>1. SumsInvariant
  BY SumsBegin
<1>2. DuesStand
  BY DEF BillingInit, Init, TableInit, DuesStand, Idle
<1>3. \A o \in Orders : order[o].total = 0 /\ order[o].paymentStatus = "unpaid"
  BY DEF BillingInit, Init, TableInit, NoRow
<1>4. \A o : Received(o) = {} /\ counted({o}) = {}
  BY DEF BillingInit, PaymentInit, NoPayment, Received, PaymentsOf, Issued, counted
<1>5. amountOf({}) = 0
  BY SumEmpty DEF amountOf
<1>6. \A o : getRevenueReport({o}).revenue = 0
  BY <1>4, <1>5 DEF getRevenueReport
<1>7. Books!Init
  BY <1>3, <1>4, <1>5, <1>6 DEF Books!Init
<1>8. QED
  BY <1>1, <1>2, <1>7 DEF DuesInvariant

\* What a step is in the books is a step of the ledger.
LEMMA LedgerStep ==
  ASSUME InBooks
  PROVE  [Books!Next]_(Books!vars)
<1> USE DEF DueOf, CameIn, KeptOf, ShownOf
<1>1. CASE \A x \in Orders : Unnoticed(x)
  BY <1>1 DEF Unnoticed, Books!vars
<1>2. ASSUME NEW o \in Orders, WorkflowNoticed(o)
      PROVE  Books!Bill(o)
  BY <1>2 DEF WorkflowNoticed, Books!Bill
<1>3. ASSUME NEW o \in Orders, ShownRightly(o)
      PROVE  /\ Books!Show(o)
             /\ [x \in Orders |-> order'[x].total] = [x \in Orders |-> order[x].total]
  BY <1>3 DEF ShownRightly, Books!Show
<1>4. ASSUME NEW o \in Orders, MoneyComesIn(o)
      PROVE  Books!Receive(o)
  BY <1>3, <1>4 DEF MoneyComesIn, Books!Receive
<1>5. ASSUME NEW o \in Orders, MessageRepeated(o)
      PROVE  Books!Restate(o)
  BY <1>3, <1>5 DEF MessageRepeated, Books!Restate
<1>6. ASSUME NEW o \in Orders, TakenBack(o)
      PROVE  Books!Return(o)
  BY <1>6 DEF TakenBack, Books!Return
<1>7. QED
  BY <1>1, <1>2, <1>4, <1>5, <1>6 DEF InBooks, Books!Next

\* While the totals stand, payments at the counter, the gateway's messages in any
\* order and number, their races and failures implement the ledger.
THEOREM LedgerIsKept ==
  BillingSpec /\ [][TotalsStand]_billingVars => LedgerSpec
<1>1. /\ DuesInvariant /\ [BillingNext]_billingVars /\ [TotalsStand]_billingVars
      => DuesInvariant' /\ [Books!Next]_(Books!vars)
  BY TotalsStandOrStutter, DuesStep, StepInBooks, LedgerStep
<1>2. QED
  BY <1>1, LedgerBegins, PTL DEF BillingSpec, LedgerSpec, Books!Spec

\* 'paid' is never granted on credit while the totals stand.
LEMMA PaidStaysCovered ==
  ASSUME DuesInvariant, DuesInvariant', PaidIsCovered, InBooks
  PROVE  PaidIsCovered'
<1> SUFFICES ASSUME NEW o \in Orders, ShownOf(o)' = "paid"
             PROVE  CameIn(o)' >= DueOf(o)'
  BY DEF PaidIsCovered, ShownOf, CameIn, DueOf
<1>1. ShownOf(o) = "paid" => CameIn(o) >= DueOf(o) /\ Received(o) # {}
  BY ToldIsMeant DEF DuesInvariant, SumsInvariant, PaidIsCovered,
                     UnpaidIffNothingReceived, ShownOf, CameIn, DueOf
<1>2. /\ CameIn(o) \in Nat /\ DueOf(o) \in Nat /\ CameIn(o)' \in Nat
      /\ Amounts \subseteq Nat
  <2>1. CameIn(o) \in Nat
    BY AmountsAreNat, PaymentSets DEF DuesInvariant, SumsInvariant, CameIn
  <2>2. CameIn(o)' \in Nat
    <3>1. IsFiniteSet(Issuances') /\ \A p \in Issuances' : amounts'[p] \in Nat
      BY AmountsAssumption
      DEF DuesInvariant, SumsInvariant, PaymentsSound, Issuances, amounts
    <3>2. Received(o)' \in SUBSET Issuances'
      BY DEF Received, PaymentsOf, Issuances
    <3>3. IsFiniteSet(Received(o)')
      BY <3>1, <3>2, FS_Subset
    <3>4. QED
      BY <3>1, <3>2, <3>3, SumType DEF CameIn, amountOf
  <2>3. DueOf(o) \in Nat
    BY DEF DuesInvariant, SumsInvariant, BooksInvariant, BooksTyped, Row, DueOf
  <2>4. QED
    BY <2>1, <2>2, <2>3, AmountsAssumption
<1>3. CASE \A x \in Orders : Unnoticed(x)
  BY <1>1, <1>3 DEF Unnoticed
<1>4. ASSUME NEW x \in Orders, WorkflowNoticed(x)
      PROVE  CameIn(o)' >= DueOf(o)'
  BY <1>1, <1>4 DEF WorkflowNoticed
<1>5. ASSUME NEW x \in Orders, MoneyComesIn(x)
      PROVE  CameIn(o)' >= DueOf(o)'
  BY <1>1, <1>5 DEF MoneyComesIn, ShownRightly
<1>6. ASSUME NEW x \in Orders, MessageRepeated(x)
      PROVE  CameIn(o)' >= DueOf(o)'
  BY <1>1, <1>6 DEF MessageRepeated, ShownRightly
<1>7. ASSUME NEW x \in Orders, TakenBack(x)
      PROVE  CameIn(o)' >= DueOf(o)'
  BY <1>1, <1>7 DEF TakenBack
<1>8. QED
  BY <1>3, <1>4, <1>5, <1>6, <1>7 DEF InBooks

\* While the totals stand, what is held and what is covered stay so.
LEMMA CoverStands ==
  BillingSpec /\ [][TotalsStand]_billingVars => [](DuesInvariant /\ PaidIsCovered)
<1>1. BillingInit => PaidIsCovered
  BY DEF BillingInit, Init, TableInit, NoRow, PaidIsCovered
<1>2. /\ DuesInvariant /\ PaidIsCovered
      /\ [BillingNext]_billingVars /\ [TotalsStand]_billingVars
      => DuesInvariant' /\ PaidIsCovered'
  BY TotalsStandOrStutter, DuesStep, StepInBooks, PaidStaysCovered
<1>3. QED
  BY <1>1, <1>2, LedgerBegins, PTL DEF BillingSpec

\* 'paid' is never granted on credit while the totals stand: whatever handlers
\* race on old sums and messages repeat or overtake each other, an order shown
\* as paid has received its total.
THEOREM PaidIsBacked ==
  BillingSpec /\ [][TotalsStand]_billingVars => []PaidIsCovered
BY CoverStands, PTL

\* The reports agree with the books while the totals stand: revenue is what was
\* received less what was taken back, split by method, and a paid order brings
\* its total less what was taken back.
THEOREM ReportsMatchBooks ==
  BillingSpec /\ [][TotalsStand]_billingVars => []ReportMatchesBooks
<1>1. DuesInvariant /\ PaidIsCovered => PaidIsReported
  <2> SUFFICES ASSUME DuesInvariant, PaidIsCovered, NEW o \in Orders,
                      order[o].paymentStatus = "paid"
               PROVE  getRevenueReport({o}).revenue + amountOf(Returned(o))
                        >= order[o].total
    BY DEF PaidIsReported
  <2>1. getRevenueReport({o}).revenue + amountOf(Returned(o)) = amountOf(Received(o))
    BY RevenueAddsUp DEF DuesInvariant, SumsInvariant, getRevenueReport
  <2>2. QED
    BY <2>1 DEF PaidIsCovered
<1>2. BillingSpec => []ReportAddsUp
  BY ReportsAddUp
<1>3. PaidIsReported /\ ReportAddsUp => ReportMatchesBooks
  BY DEF ReportMatchesBooks
<1>4. QED
  BY <1>1, <1>2, <1>3, CoverStands, PTL

\* The specification that keeps to it by construction, which TLC checks, is of
\* the kind these theorems are about.
THEOREM StandingBooksAreRight ==
  StandingSpec => LedgerSpec /\ []PaidIsCovered /\ []ReportMatchesBooks
<1>1. StandingSpec => BillingSpec /\ [][TotalsStand]_billingVars
  BY PTL DEF StandingSpec, BillingSpec
<1>2. QED
  BY <1>1, LedgerIsKept, PaidIsBacked, ReportsMatchBooks, PTL
=============================================================================
