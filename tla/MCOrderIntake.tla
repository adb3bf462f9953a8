---------------------------- MODULE MCOrderIntake ----------------------------
(***************************************************************************)
(* A small instance of ItemWeighing, and with it of OrderIntake, for TLC.  *)
(***************************************************************************)
EXTENDS ItemWeighing

\* Two services, the second of which is off sale at first.
MCServices == <<[price |-> 1, isActive |-> TRUE], [price |-> 3, isActive |-> FALSE]>>
MCServiceRows == {[price |-> 2, isActive |-> TRUE]}
MCServiceEdits == {[isActive |-> FALSE], [isActive |-> TRUE], [price |-> 5]}

\* Half off.
MCDiscounts ==
  <<[type |-> "percent", percent |-> 5000, price |-> 0, isActive |-> TRUE]>>
MCDiscountRows ==
  {[type |-> "nominal", percent |-> 0, price |-> 2, isActive |-> TRUE]}
\* The percent is taken away, so that the price counts; the promotion ends.
MCDiscountEdits == {[percent |-> 0, price |-> 9], [isActive |-> FALSE]}

MCMemberships == <<[isActive |-> TRUE, percent |-> 1000]>>

\* A free round trip and a pickup without a price of its own; no price at all.
MCRules ==
  [customers |-> {},
   orders |-> {[flat |-> 4, pickup |-> Absent, delivery |-> 3, both |-> 0],
               [flat |-> Absent, pickup |-> Absent, delivery |-> Absent,
                both |-> 6]}]

\* Quantities of 1 and 1.505, and an estimate of 2.005 kg.
Plain == [lines |-> <<[service |-> 1, given |-> 200]>>, discount |-> 0,
          membership |-> 0, estimated |-> 0]
Two == <<[service |-> 1, given |-> 0], [service |-> 2, given |-> 301]>>

MCAsks ==
  [customers |-> {Plain},
   orders |-> {[Plain EXCEPT !.lines = Two, !.discount = 1, !.membership = 1],
               [Plain EXCEPT !.lines = Two, !.membership = 1, !.estimated = 401],
               [Plain EXCEPT !.discount = 2]}]

\* 1.505 and 0.5 kg: at these the items of an order are rounded up one by one, by
\* more than their order is.
MCWeights == {301, 100}

Symmetry ==
  Permutations(Tenants) \cup Permutations(Subscribers) \cup Permutations(Requests)
=============================================================================
