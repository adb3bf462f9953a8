-------------------------- MODULE WeightTolerance --------------------------
(***************************************************************************)
(* calculateTolerance of weight-verification.service.ts.  Weights are      *)
(* integers in hundredths of a kilogram, the scale of the Decimal(8,2)     *)
(* columns they are stored in; an estimate of 0 stands for the null (or    *)
(* non-positive) estimate of an order that has none.  The tolerance is in  *)
(* hundredths of a percent, the scale of weight_tolerance_percent.         *)
(***************************************************************************)
EXTENDS Integers

\* Math.abs(actualWeight - estimatedWeight)
difference(estimated, actual) ==
  IF actual >= estimated THEN actual - estimated ELSE estimated - actual

\* diff <= estimated * (percent / 100) + 0.00001, multiplied by 1000000 so that
\* both sides are integers: the epsilon becomes 10.
isWithinTolerance(estimated, actual, percent) ==
  10000 * difference(estimated, actual) <= estimated * percent + 10

calculateTolerance(estimated, actual, percent) ==
  IF estimated <= 0 THEN "not_required"
  ELSE IF isWithinTolerance(estimated, actual, percent)
       THEN "matched" ELSE "mismatched"
=============================================================================
