--------------------------- MODULE MCDisbursementTx ---------------------------
(* DisbursementTx with the lines and the bounds of MCPaymentDisbursement. *)
EXTENDS DisbursementTx, TLC

NoOrders == [rows |-> 0, pretax |-> 0, posttax |-> 0]
TwoOrders == [rows |-> 2, pretax |-> 1, posttax |-> 1]
NoManualLines == {NoLines}
OnlyNoOrders == {NoOrders}
OnlyTwoOrders == {TwoOrders}
MCOrderSets == {NoOrders, TwoOrders}
QuarterOrExempt(e, taxable) ==
    IF e = "formula" /\ taxable > 0 THEN taxable \div 4 ELSE 0

Symmetry == Permutations(Workers)
=============================================================================
