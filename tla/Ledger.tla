------------------------------- MODULE Ledger -------------------------------
(***************************************************************************)
(* What the payments of an order promise while its total stands, whatever  *)
(* races: money comes in one payment at a time and each payment once, an   *)
(* order stops being 'unpaid' with the first money and never goes back,    *)
(* 'paid' is only ever written when the total has come in, and money given *)
(* back or a payment revoked changes what is kept and not what the order   *)
(* shows.                                                                  *)
(***************************************************************************)
EXTENDS Naturals

CONSTANTS Orders, Amounts

VARIABLES
  due,       \* due[o]: the total of the order
  received,  \* received[o]: all that ever came in for it
  kept,      \* kept[o]: what of it is reported as revenue
  shown      \* shown[o]: the payment status of the order

vars == <<due, received, kept, shown>>

Init ==
  /\ due = [o \in Orders |-> 0]
  /\ received = [o \in Orders |-> 0]
  /\ kept = [o \in Orders |-> 0]
  /\ shown = [o \in Orders |-> "unpaid"]

\* The total is set before any money comes in.
Bill(o) ==
  /\ received[o] = 0
  /\ due' = [due EXCEPT ![o] = due'[o]]
  /\ UNCHANGED <<received, kept, shown>>

\* The order is shown as partly or wholly paid; the sum in hand may be stale,
\* and then it is too small and never too large.
Show(o) ==
  \E status \in {"partial", "paid"} :
    /\ status = "paid" => received'[o] >= due[o]
    /\ shown' = [shown EXCEPT ![o] = status]

Receive(o) ==
  /\ \E a \in Amounts :
       /\ received' = [received EXCEPT ![o] = @ + a]
       /\ kept' = [kept EXCEPT ![o] = @ + a]
  /\ Show(o)
  /\ UNCHANGED due

\* The gateway repeats itself: nothing new comes in, and what had been taken
\* off the revenue may count again.
Restate(o) ==
  /\ received[o] > 0
  /\ \E a \in Amounts \cup {0} :
       /\ kept[o] + a <= received[o]
       /\ kept' = [kept EXCEPT ![o] = @ + a]
  /\ UNCHANGED <<due, received>>
  /\ Show(o)

\* A refund, or a payment that failed after all.
Return(o) ==
  /\ \E a \in Amounts :
       /\ a <= kept[o]
       /\ kept' = [kept EXCEPT ![o] = @ - a]
  /\ UNCHANGED <<due, received, shown>>

Next == \E o \in Orders : Bill(o) \/ Receive(o) \/ Restate(o) \/ Return(o)

Spec == Init /\ [][Next]_vars
=============================================================================
