---------------------------- MODULE ItemWeighing ----------------------------
(***************************************************************************)
(* The transaction of verifyAndApplyWeight, row by row: it writes the      *)
(* items of an order one at a time, each locked from then on, and the      *)
(* order last.  The items come from a query that gives no order, so that   *)
(* two weighings of one order may wait for each other's items; PostgreSQL  *)
(* then rolls one of them back, as it does when a statement fails, the     *)
(* transaction takes too long or the process dies.                         *)
(***************************************************************************)
EXTENDS OrderIntake

CONSTANT Weights   \* weights the cashier may enter, in Grain-ths of 0.01 kg
ASSUME WeightsAssumption == Weights \subseteq Nat \ {0}

VARIABLE weighing  \* weighing[r]: the transaction of request r

weighingVars == <<intakeVars, weighing>>

NoWeighing == [order |-> 0, undo |-> <<>>]

Weighing(r) == weighing[r] # NoWeighing

\* Up to the transaction.  What was read of the order (prices, discount, fee)
\* never changes; todo: the items still to be written; undo: what the items
\* written so far held before.
BeginWeighing(r, i, weight) ==
  /\ Free(r) /\ ~Weighing(r)
  /\ \E todo \in SetToSeqs(DOMAIN bill[i].items) :
       weighing' = [weighing EXCEPT ![r] =
         [order |-> i, weight |-> weight, todo |-> todo, undo |-> <<>>]]
  /\ UNCHANGED intakeVars

Locked(i, k) ==
  \E q \in Requests : weighing[q].order = i /\ k \in DOMAIN weighing[q].undo

\* The columns of an item that a weighing writes: both are rounded.
weighedItem(item, weight) ==
  [item EXCEPT !.quantity = rounded(weight, Grain),
               !.subtotal = rounded(item.price * weight, Part)]

\* Mutant: the items are not written through the transaction, so that they are
\* not locked.
WriteItemOutside(r) ==
  LET w == weighing[r]
      k == Head(w.todo)
  IN /\ Weighing(r)
     /\ w.todo # <<>>
     /\ bill' = [bill EXCEPT ![w.order].items[k] = weighedItem(@, w.weight)]
     /\ weighing' = [weighing EXCEPT ![r].todo = Tail(@)]
     /\ UNCHANGED <<registryVars, catalogueVars, quote, scope>>

\* tx.orderItem.update, once nobody else holds the row.
WriteItem(r) ==
  LET w == weighing[r]
      k == Head(w.todo)
  IN /\ Weighing(r)
     /\ w.todo # <<>>
     /\ ~Locked(w.order, k)
     /\ bill' = [bill EXCEPT ![w.order].items[k] = weighedItem(@, w.weight)]
     /\ weighing' = [weighing EXCEPT
          ![r].todo = Tail(@),
          ![r].undo = [n \in {k} \cup DOMAIN @ |->
             IF n = k THEN bill[w.order].items[k] ELSE @[n]]]
     /\ UNCHANGED <<registryVars, catalogueVars, quote, scope>>

\* What the items come to at a weight, in Part-ths.
priceOf(items, weight) ==
  SumFunction([k \in DOMAIN items |-> items[k].price * weight])

\* tx.order.update and the commit.  The subtotal is the rounded sum, not the sum
\* of what the items were rounded to.
CommitWeighing(r) ==
  LET w == weighing[r]
      b == bill[w.order]
      subtotal == priceOf(b.items, w.weight)
  IN /\ Weighing(r)
     /\ w.todo = <<>>
     /\ bill' = [bill EXCEPT
          ![w.order].subtotal = rounded(subtotal, Part),
          ![w.order].actual = rounded(w.weight, Grain),
          ![w.order].total =
             rounded(positive(subtotal + Part * (b.fee - b.discount)), Part)]
     /\ weighing' = [weighing EXCEPT ![r] = NoWeighing]
     /\ UNCHANGED <<registryVars, catalogueVars, quote, scope>>

\* What the items of order i held before weighing w.
Undone(items, w) ==
  [k \in DOMAIN items |->
     IF k \in DOMAIN w.undo THEN w.undo[k] ELSE items[k]]

AbortWeighing(r) ==
  LET i == weighing[r].order
  IN /\ Weighing(r)
     /\ bill' = [bill EXCEPT ![i].items = Undone(@, weighing[r])]
     /\ weighing' = [weighing EXCEPT ![r] = NoWeighing]
     /\ UNCHANGED <<registryVars, catalogueVars, quote, scope>>

WeighingStep(r) ==
  \/ \E i \in Ids(bill), weight \in Weights : BeginWeighing(r, i, weight)
  \/ WriteItem(r)
  \/ CommitWeighing(r)
  \/ AbortWeighing(r)

WeighingInit == IntakeInit /\ weighing = [r \in Requests |-> NoWeighing]

WeighingNext ==
  \/ \E r \in Requests :
       \/ ~Weighing(r) /\ IntakeStep(r) /\ UNCHANGED weighing
       \/ scope = "orders" /\ WeighingStep(r)
  \/ ChangeCatalogue /\ UNCHANGED weighing

WeighingSpec == WeighingInit /\ [][WeighingNext]_weighingVars
-----------------------------------------------------------------------------
\* The items of order i as anyone outside the weighings under way reads them.
Committed(i) ==
  [k \in DOMAIN bill[i].items |->
     IF Locked(i, k)
     THEN Undone(bill[i].items, weighing[CHOOSE q \in Requests :
            weighing[q].order = i /\ k \in DOMAIN weighing[q].undo])[k]
     ELSE bill[i].items[k]]

\* Whoever reads an order and its items finds them as far apart as rounding puts
\* them and no further, although two weighings may write them at once, wait for
\* each other, and be rolled back half-way: the subtotal is the sum of the items
\* to within half a unit of money for each of them, so exactly if there is one;
\* every item has the weight of the order once there is one; and the total is
\* what is left of the subtotal with the fee, never below 0.  Until the order is
\* weighed the total may be a unit off: it was rounded from the same sums as the
\* subtotal and the discount, not from these.
ItemsMatchOrder ==
  \A i \in Ids(bill) :
    LET b == bill[i]
        n == Len(b.items)
        owed == positive(b.subtotal - b.discount + b.fee)
    IN /\ 2 * (b.subtotal - subtotalOf(Committed(i))) \in -n .. n
       /\ b.actual # Absent =>
            \A k \in DOMAIN b.items : Committed(i)[k].quantity = b.actual
       /\ IF b.actual = Absent THEN b.total \in owed - 1 .. owed + 1
          ELSE b.total = owed
=============================================================================
