---------------------------- MODULE OrderPricing ----------------------------
(***************************************************************************)
(* What createOrder charges: the quantity of an item, the discount or      *)
(* membership, the courier fee and the total, as pure operators.           *)
(*                                                                         *)
(* Money is an integer in the smallest unit of the NUMERIC(14,2) columns,  *)
(* a percent in hundredths (DECIMAL(5,2)), and a quantity in whatever unit *)
(* makes the given ones whole: "one" is the quantity 1 in it.  A price     *)
(* times a quantity is then in one-ths of a unit of money, a percentage of *)
(* that in 10000 * one-ths, and what a column keeps is rounded half up.    *)
(***************************************************************************)
EXTENDS Integers

\* A column that is null; a Decimal of 0 is not.
Absent == -1

\* item.quantity || (estimated_weight || 1); 0 stands for left out.
itemQuantity(given, estimated, one) ==
  IF given # 0 THEN given ELSE IF estimated # 0 THEN estimated ELSE one

\* The discount, of a subtotal in one-ths.  A "percent" one without a percent
\* takes its price off; percents and prices of 0 are stored as null and read as
\* 0 here.
discountOf(row, subtotal, one) ==
  CASE ~row.isActive -> 0
    [] row.isActive /\ row.type = "percent" /\ row.percent # 0 ->
         subtotal * row.percent
    [] OTHER -> 10000 * one * row.price

membershipOf(row, subtotal) == IF row.isActive THEN subtotal * row.percent ELSE 0

\* Mutant: a fee of 0 is taken for one that is not set.
ownFeeIfPositive(own, flat) ==
  IF own > 0 THEN own ELSE IF flat > 0 THEN flat ELSE 0

\* own || flatFee || 0 on Decimals: an object is truthy whatever its value.
ownFee(own, flat) ==
  IF own # Absent THEN own ELSE IF flat # Absent THEN flat ELSE 0

\* legs: which of "pickup" and "delivery" have an address.
courierFee(rules, legs) ==
  CASE legs = {"pickup", "delivery"} -> ownFee(rules.both, rules.flat)
    [] legs = {"pickup"}             -> ownFee(rules.pickup, rules.flat)
    [] legs = {"delivery"}           -> ownFee(rules.delivery, rules.flat)
    [] OTHER                         -> 0

\* A number of parts of a unit, as a column in whole units keeps it.
rounded(n, parts) == (2 * n + parts) \div (2 * parts)

positive(amount) == IF amount > 0 THEN amount ELSE 0

\* Math.max(0, subtotalAmount - discountAmount + courierFee), as stored.
orderTotal(subtotal, discount, fee, one) ==
  rounded(positive(10000 * subtotal - discount + 10000 * one * fee), 10000 * one)
=============================================================================
