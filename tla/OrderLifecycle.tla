--------------------------- MODULE OrderLifecycle ---------------------------
(***************************************************************************)
(* What the order service promises of an order when nothing races: one     *)
(* stage at a time along the matrix of order.constants.ts, cancelled only  *)
(* before the washing, never washed while the weight is not cleared, a     *)
(* photo kept for every hand-over.                                         *)
(* The weight is abstracted to whether it lets the order be washed, which  *)
(* a weighing or an answer of the customer may change at any moment.       *)
(***************************************************************************)
EXTENDS OrderRules

CONSTANT Orders

VARIABLES
  stage,    \* stage[o]: where the order is, "none" before it is opened
  cleared,  \* cleared[o]: its weight does not hold it back
  proof     \* proof[o]: the hand-overs for which a photo is on file

vars == <<stage, cleared, proof>>

Init ==
  /\ stage = [o \in Orders |-> "none"]
  /\ cleared = [o \in Orders |-> FALSE]
  /\ proof = [o \in Orders |-> {}]

Open(o) ==
  /\ stage[o] = "none"
  /\ \E s \in {"pending", "received"}, c \in BOOLEAN :
       /\ stage' = [stage EXCEPT ![o] = s]
       /\ cleared' = [cleared EXCEPT ![o] = c]
  /\ UNCHANGED proof

Advance(o) ==
  /\ stage[o] # "none"
  /\ \E s \in getAllowedTransitions(stage[o]) \ {"cancelled"} :
       /\ s = "process" => cleared[o]
       /\ stage' = [stage EXCEPT ![o] = s]
       /\ proof' = [proof EXCEPT ![o] =
                      IF isPhotoRequired(s) THEN @ \cup {s} ELSE @]
  /\ UNCHANGED cleared

Cancel(o) ==
  /\ isCancellable(stage[o])
  /\ stage' = [stage EXCEPT ![o] = "cancelled"]
  /\ UNCHANGED <<cleared, proof>>

Weigh(o) ==
  /\ stage[o] # "none"
  /\ \E c \in BOOLEAN : cleared' = [cleared EXCEPT ![o] = c]
  /\ UNCHANGED <<stage, proof>>

Next == \E o \in Orders : Open(o) \/ Advance(o) \/ Cancel(o) \/ Weigh(o)

Spec == Init /\ [][Next]_vars
=============================================================================
