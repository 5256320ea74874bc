----------------------- MODULE MCPaymentDisbursement -----------------------
(* PaymentDisbursement on a few payments and batches. *)
EXTENDS PaymentDisbursement, TLC

\* The deduction lines a payment can meet: one given at its creation, and an
\* election, in effect or not, that withholds a quarter of the taxable gross.
MCManualLines == {NoLines, [rows |-> 1, total |-> 1]}
MCOrderSets == {[rows |-> 0, pretax |-> 0, posttax |-> 0]}
Quarter(e, taxable) == IF taxable > 0 THEN taxable \div 4 ELSE 0

Symmetry == Permutations(Batches) \cup Permutations(Payments)
=============================================================================
