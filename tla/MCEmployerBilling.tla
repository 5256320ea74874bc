-------------------------- MODULE MCEmployerBilling --------------------------
(* EmployerBilling with one rate row of every specificity, two of them dated. *)
EXTENDS EmployerBilling, TLC

Rate(e, t, p, from, until) ==
    [employer |-> e, type |-> t, employee |-> p, employers |-> 2 * p, from |-> from, until |-> until]

MCRateRows == {Rate(Every, Every, 4, 1, NoEnd), Rate(Every, "police", 6, 1, 1),
               Rate("uni", Every, 5, 1, NoEnd),
               Rate("uni", "police", 9, 2, NoEnd)}

Row(status, type, gross, paid, end) ==
    [status |-> status, type |-> type, gross |-> gross, employee |-> paid,
     employers |-> 2 * paid, end |-> end]

\* A report paid at 5 percent over two periods, and one of rows that count for
\* nothing.
MCReports == [f \in {"r1", "r2"} |->
    IF f = "r1" THEN <<Row("applied", "police", 1000, 50, 1), Row("flagged", "staff", 1000, 50, 2)>>
    ELSE <<Row("error", "police", 5000, 0, 2), Row("applied", Every, 5000, 0, 2)>>]

\* A payment, or a supplemental invoice, may also give something back.
MCAmounts == {-250, 500}
MCCharges == {-250, 750}

Symmetry == Permutations(Workers)
=============================================================================
