------------------------------ MODULE MCBilling ------------------------------
(***************************************************************************)
(* Small instances of Billing and its reports for TLC.                     *)
(***************************************************************************)
EXTENDS Reports, TLC

\* A price of 1 per unit: the order costs 2 (or 5 with the fee) at first.
MCTariffs == {[price |-> 1, discount |-> 0, fee |-> 0]}
MCTariffsWithFee == MCTariffs \cup {[price |-> 1, discount |-> 3, fee |-> 1]}

Symmetry == Permutations(Requests) \cup Permutations(Payments)
=============================================================================
