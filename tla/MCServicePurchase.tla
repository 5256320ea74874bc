-------------------------- MODULE MCServicePurchase --------------------------
(* ServicePurchase with one type per moment of granting, one of them a refund *)
(* that may carry a certification date and one that is paid at once.          *)
EXTENDS ServicePurchase, TLC

Setting(method, installments, moment) ==
    [method |-> method, rate |-> IF method = "rate_based" THEN 75 ELSE 50, installments |-> installments,
     grantOn |-> moment, restores |-> method = "refund_repayment"]

MCTypes == {"military", "single", "first", "upfront", "refund"}
MCSettings == [t \in MCTypes |->
    CASE t = "military" -> Setting("rate_based", TRUE, "completion")
      [] t = "single"   -> Setting("rate_based", FALSE, "completion")
      [] t = "first"    -> Setting("rate_based", TRUE, "first_payment")
      [] t = "upfront"  -> Setting("rate_based", FALSE, "approval")
      [] t = "refund"   -> Setting("refund_repayment", TRUE, "completion")]

\* The older row and the one that takes effect after the period do not count.
MCSalaries == {[effective |-> 1, annual |-> 9], [effective |-> 2, annual |-> 2],
               [effective |-> 4, annual |-> 7]}

\* A refund of 2 a year before the period end costs 3, one of 0 costs nothing; the
\* later one is refused.
MCRefunds == {[amount |-> 2, paidOut |-> 2], [amount |-> 0, paidOut |-> 3], [amount |-> 5, paidOut |-> 4]}

\* A payment may also take something back.
MCAmounts == {-1, 0, 2}

Symmetry == Permutations(Workers)
=============================================================================
