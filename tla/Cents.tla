-------------------------------- MODULE Cents --------------------------------
(* Money as whole cents: Decimal.quantize(Decimal("0.01"), ROUND_HALF_UP). *)
EXTENDS Integers

\* num / den to the nearest integer, halves away from zero, for den > 0.
RoundHalfUp(num, den) == IF num >= 0 THEN (2 * num + den) \div (2 * den)
                         ELSE -((den - 2 * num) \div (2 * den))

AtMost(bound, n) == IF n <= bound THEN n ELSE bound
AtLeast(bound, n) == IF n >= bound THEN n ELSE bound
=============================================================================
