------------------------- MODULE WeightVerification -------------------------
(***************************************************************************)
(* weight-verification.service.ts: the cashier's weighing and the          *)
(* customer's answer to a mismatch.                                        *)
(***************************************************************************)
EXTENDS OrderTable

CONSTANT
  WeighableStatuses  \* statuses in which cashiers weigh; the code accepts all
ASSUME WeighableAssumption == WeighableStatuses \subseteq OrderStatus

\* What queueWeightMismatchNotification is given: the payload, less the texts.
Notice == [order : Orders, weight : Weights, total : Nat]

\* verifyAndApplyWeight after its transaction, awaiting the queue.
NotifyCall == [kind : {"notify"}, notice : Notice]

\* Mutant: the new total forgets the discount.
weighedWithoutDiscount(row, weight) ==
  [row EXCEPT
     !.actual = weight,
     !.quantity = weight,
     !.weightStatus = calculateTolerance(row.estimated, weight, TolerancePercent),
     !.total = totalAmount(row.price, weight, 0, row.fee)]

weighedRow(row, weight) ==
  [row EXCEPT
     !.actual = weight,
     !.quantity = weight,
     !.weightStatus = calculateTolerance(row.estimated, weight, TolerancePercent),
     !.total = totalAmount(row.price, weight, row.discount, row.fee)]

\* Mutant: a customer is told of a mismatch only once.
notifiesOnChange(before, after) ==
  after.weightStatus = "mismatched" /\ before.weightStatus # "mismatched"

\* Every mismatching weighing notifies, whatever was known before it.
notifies(before, after) == after.weightStatus = "mismatched"

\* verifyAndApplyWeight up to its commit.  What it reads first never changes
\* once the order exists (estimate, prices, discount, fees), so the read and the
\* transaction are one step.  Neither the status nor an earlier confirmation is
\* looked at, and weight_confirmed_at and payment_status are left as they are.
VerifyAndApplyWeight(r, o, weight) ==
  /\ Free(r)
  /\ Exists(o)
  /\ order[o].status \in WeighableStatuses
  /\ order' = [order EXCEPT ![o] = weighedRow(@, weight)]
  /\ call' = IF notifies(order[o], order'[o])
             THEN [call EXCEPT ![r] =
                     [kind |-> "notify",
                      notice |-> [order |-> o, weight |-> weight,
                                  total |-> order'[o].total]]]
             ELSE call
  /\ UNCHANGED statusLog

\* confirmWeight: agreement writes 'confirmed' whatever the weight status was;
\* a refusal is only logged.
ConfirmWeight(r, o, confirmed) ==
  /\ Free(r)
  /\ Exists(o)
  /\ order' = IF confirmed
              THEN [order EXCEPT ![o].weightStatus = "confirmed",
                                 ![o].confirmedAt = TRUE]
              ELSE order
  /\ UNCHANGED <<statusLog, call>>
=============================================================================
