-------------------------- MODULE MCPayrollIngestion --------------------------
(* PayrollIngestion with months of two days and years of two months, one member *)
(* with two jobs side by side, one with a job without a type, and files that    *)
(* meet every check.                                                            *)
EXTENDS PayrollIngestion, TLC

MCDays == 0..7

In(member, start, end, gross, employee, days) ==
    [member |-> member, start |-> start, end |-> end, gross |-> gross,
     employee |-> employee, employer |-> employee, days |-> days]

J(id, member, until, type, percent, group) ==
    [id |-> id, member |-> member, employer |-> "uni", from |-> id, until |-> until,
     type |-> type, percent |-> percent, group |-> group]

\* ann works at the university and at the college; bob, who has no plan, left on
\* day 1 and joe has a job without an employment type.
MCJobs == {J(0, "ann", None, "staff", 50, "g"),
           [J(1, "ann", None, "police", 50, "g") EXCEPT !.employer = "college"],
           J(2, "bob", 1, "staff", 100, None),
           J(3, "joe", None, Every, 100, None)}

MCPlans == [m \in {"ann", "bob", "joe"} |->
    CASE m = "ann" -> "traditional" [] m = "bob" -> None [] m = "joe" -> "portable"]

File(employer, rows) == [employer |-> employer, rows |-> rows]
MCFiles == {
    File("uni", <<In("ann", 0, 1, 100, 10, 2), In("ann", 0, 1, 100, 10, 2)>>),
    File("uni", <<In("ann", 2, 3, 100, 5, 2), In("joe", 2, 3, 100, 5, 2)>>),
    File("college", <<In("ann", 0, 3, 100, 9, 3)>>),
    File("uni", <<In("bob", 2, 3, 300, 30, 2), In("joe", 0, 1, 900, 90, 2), In("ann", 3, 2, 100, 10, 1)>>),
    File("uni", <<In("bob", 0, 1, 100, 10, 3), In("eve", 0, 1, 100, 10, 0), In("joe", 2, 4, 100, 30, 0)>>),
    File("uni", <<In("ann", 4, 4, 100, 10, 1)>>),
    File("college", <<In("ann", 6, 7, 100, 10, 2)>>),
    File("uni", <<In("ann", 6, 7, 100, 10, 2)>>)}

Rate(e, t, p) == [employer |-> e, type |-> t, employee |-> p, employers |-> p,
                  from |-> 0, until |-> NoEnd]
MCRates == {Rate(Every, Every, 8), Rate(Every, "police", 10)}

Fund(mode) == [mode |-> mode, maxGross |-> None, maxDays |-> None, employeeRate |-> 10,
               employerRate |-> None, tolerance |-> 10, planCaps |-> [p \in {"portable"} |-> 500],
               limit |-> 200]

\* From day 3 the fund rejects, from day 4 only staff is an allowed type; the
\* accrual rule of day 4 is one nobody knows, and there is none on day 7.
MCValidation == [d \in MCDays |-> IF d <= 2 THEN Fund("warn") ELSE Fund("reject")]
MCAllowedTypes == [d \in MCDays |-> IF d < 4 THEN {} ELSE {"staff"}]
MCAccrualRule == [d \in MCDays |->
    CASE d < 4 -> "proportional_percent_time" [] d = 4 -> "daily" [] d \in {5, 6} -> "monthly_floor"
      [] d = 7 -> None]
\* The cap is raised within the first year.
MCAnnualCap == [d \in MCDays |-> IF d < 2 THEN 120 ELSE 130]
=============================================================================
