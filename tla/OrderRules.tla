----------------------------- MODULE OrderRules -----------------------------
(***************************************************************************)
(* The rules an order obeys, as pure operators: the status machine of      *)
(* order.constants.ts and order-state-machine.service.ts, the mandatory    *)
(* hand-over photos of photo-verification, and the weight statuses that    *)
(* open the way to 'process'.                                              *)
(***************************************************************************)

OrderStatus ==
  {"pending", "pickup", "received", "process", "delivery", "done", "cancelled"}

ORDER_STATUS_TRANSITIONS ==
  [s \in OrderStatus |->
     CASE s = "pending"  -> {"pickup", "cancelled"}
       [] s = "pickup"   -> {"received", "cancelled"}
       [] s = "received" -> {"process", "cancelled"}
       [] s = "process"  -> {"delivery"}
       [] s = "delivery" -> {"done"}
       [] OTHER          -> {}]

CANCELLABLE_STATUSES == {"pending", "pickup", "received"}

TERMINAL_STATUSES == {"done", "cancelled"}

getAllowedTransitions(status) == ORDER_STATUS_TRANSITIONS[status]

\* validateTransition rejects the call (HTTP 422) exactly when this is false.
canTransition(from, to) == to \in getAllowedTransitions(from)

isCancellable(status) == status \in CANCELLABLE_STATUSES

isTerminal(status) == status \in TERMINAL_STATUSES

\* Every transition into one of these carries the photo of a hand-over.
PHOTO_REQUIRED_STATUSES == {"pickup", "received", "delivery"}

isPhotoRequired(status) == status \in PHOTO_REQUIRED_STATUSES

\* validatePhotoRequirement; hasPhoto: the request has a non-blank photo_url.
photoAccepted(status, hasPhoto) == isPhotoRequired(status) => hasPhoto

WeightStatus == {"pending", "matched", "mismatched", "confirmed", "not_required"}

ALLOWED_PROCESS_WEIGHT_STATUSES == {"matched", "confirmed", "not_required"}

\* Mutant: a list of the statuses that hold an order instead of those that do not.
notHeld(weightStatus) == weightStatus # "mismatched"

canProceedToProcess(weightStatus) ==
  weightStatus \in ALLOWED_PROCESS_WEIGHT_STATUSES
=============================================================================
