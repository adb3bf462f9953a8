--------------------------- MODULE MCOrderWorkflow ---------------------------
(***************************************************************************)
(* Small instances of OrderWorkflow for TLC.                               *)
(***************************************************************************)
EXTENDS OrderWorkflow, TLC

\* An estimate of 5 kg with 10 % tolerance: 5.40 kg matches, as does 5.50 kg just
\* at the limit, 6 and 7 kg do not.
MCWeights == {540, 600}
MCTwoMismatches == {600, 700}
MCThreeWeights == {550, 600, 700}

\* One price; without and with a discount larger than the dearest subtotal.
MCTariffs == {[price |-> 1, discount |-> 0, fee |-> 3]}
MCDiscountedTariff == {[price |-> 1, discount |-> 550, fee |-> 0]}
MCTariffsWithDiscount == MCTariffs \cup MCDiscountedTariff

Symmetry == Permutations(Requests)
=============================================================================
