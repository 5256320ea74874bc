----------------------------- MODULE Withholding -----------------------------
(***************************************************************************)
(* calculate_net_pay and its withholding formulas: deductions before tax,  *)
(* federal withholding by IRS worksheet 1B, state withholding at a flat    *)
(* rate, deductions after tax and payments to third parties.  Amounts are  *)
(* in cents, rates of the tables in percent.                               *)
(***************************************************************************)
EXTENDS Cents, FiniteSets, FiniteSetsExt, Functions, Sequences

CONSTANT Unbounded          \* null: the ceiling of the last bracket

ASSUME UnboundedAssumption == Unbounded \notin Int

Statuses == {"single", "married_filing_jointly", "married_filing_separately",
             "head_of_household", "qualifying_surviving_spouse"}

PayPeriods == [monthly |-> 12, semi_monthly |-> 24, biweekly |-> 26, weekly |-> 52]

\* _FILING_STATUS_ALIAS
Alias(status) ==
    CASE status \in {"married_filing_separately", "head_of_household"} -> "single"
      [] status = "qualifying_surviving_spouse" -> "married_filing_jointly"
      [] OTHER -> status

\* A status without a table of its own uses that of its alias, else "single".
TableOf(tables, status) ==
    CASE status \in DOMAIN tables -> tables[status]
      [] status \notin DOMAIN tables /\ Alias(status) \in DOMAIN tables -> tables[Alias(status)]
      [] OTHER -> tables["single"]
-----------------------------------------------------------------------------
(* Brackets *)

TaxBands == [min : Nat, max : Nat \cup {Unbounded}, rate : Nat, base : Nat]

\* Where the loop over a table stops: at the first band that starts at or above the
\* amount, for no tax, or that reaches it.  Nobody checks that bands follow on one
\* another, nor that a base is the tax on all that lies below.
Stops(taxable, band) == taxable <= band.min \/ band.max = Unbounded \/ taxable <= band.max

\* Base taxes that count a band from nothing.
ApplyBracketsWithoutBase(taxable, brackets) ==
    LET stops == {i \in DOMAIN brackets : Stops(taxable, brackets[i])}
        b == brackets[Min(stops)]
    IN  IF stops = {} \/ taxable <= b.min THEN 0 ELSE RoundHalfUp((taxable - b.min) * b.rate, 100)

\* _apply_brackets
ApplyBrackets(taxable, brackets) ==
    LET stops == {i \in DOMAIN brackets : Stops(taxable, brackets[i])}
        b == brackets[Min(stops)]
    IN  IF stops = {} \/ taxable <= b.min THEN 0
        ELSE RoundHalfUp(b.base * 100 + (taxable - b.min) * b.rate, 100)
-----------------------------------------------------------------------------
(* Withholding for one election *)

Exempt(e) == e.type = "exempt" \/ e.exempt

\* The lines of worksheet 1B that step 2 changes: the brackets and line 1g.  A
\* configuration with step2Brackets uses those and no deduction; an older one
\* takes the higher deduction and the same brackets.
Brackets(e, cfg) ==
    TableOf(IF e.step2 /\ cfg.step2Brackets # Unbounded THEN cfg.step2Brackets ELSE cfg.brackets, e.status)

Line1g(e, cfg) ==
    IF ~e.step2 THEN TableOf(cfg.deduction, e.status)
    ELSE IF cfg.step2Brackets # Unbounded THEN 0
    ELSE TableOf(cfg.higher, e.status)

\* _federal_formula_steps; per-period tax is rounded half up.
FederalFormula(taxable, e, periods, cfg) ==
    LET adjusted  == AtLeast(0, taxable * periods + e.income - (e.deductions + Line1g(e, cfg)))
        tentative == ApplyBrackets(adjusted, Brackets(e, cfg))
    IN  AtLeast(0, RoundHalfUp(AtLeast(0, tentative - e.credit), periods) + e.extra)

FederalWithholding(taxable, e, periods, cfg) ==
    IF Exempt(e) THEN 0
    ELSE IF e.type = "flat_amount" THEN AtLeast(0, e.extra)
    ELSE FederalFormula(taxable, e, periods, cfg)

\* _compute_state_withholding, the rate in hundredths of a percent.
StateWithholding(taxable, e, rate) ==
    IF Exempt(e) THEN 0
    ELSE IF e.type = "flat_amount" THEN AtLeast(0, e.extra)
    ELSE AtLeast(0, RoundHalfUp(taxable * rate, 10000) + e.extra)
-----------------------------------------------------------------------------
(* Net pay *)

\* A fixed amount, or a permille of gross.
LineAmount(o, gross) == IF o.kind = "fixed" THEN o.amount ELSE RoundHalfUp(gross * o.amount, 1000)

\* The lines of one calculation: a payment to a third party comes after tax
\* whatever the order says of itself; an election of another jurisdiction than
\* these two has no line; a missing table for an election ends the request.
PreTaxOfAll(orders) == {o \in orders : o.pretax}
PreTax(orders) == {o \in orders : ~o.thirdParty /\ o.pretax}

AmountOf(lines, gross) == SumFunction([o \in lines |-> LineAmount(o, gross)])

Taxable(orders, gross) == gross - AmountOf(PreTax(orders), gross)

TaxLines(elections, taxable, periods, federal, state) ==
    {[election |-> e,
      amount |-> IF e.jurisdiction = "federal" THEN FederalWithholding(taxable, e, periods, federal)
                 ELSE StateWithholding(taxable, e, state)] :
        e \in {x \in elections : x.jurisdiction \in {"federal", "state"}}}

Calculable(elections, federal, state) ==
    \A e \in elections : /\ e.jurisdiction = "federal" => federal # Unbounded
                         /\ e.jurisdiction = "state" => state # Unbounded

NetPay(orders, elections, gross, frequency, federal, state) ==
    LET taxable == Taxable(orders, gross)
        taxes   == TaxLines(elections, taxable, PayPeriods[frequency], federal, state)
        total   == AmountOf(PreTax(orders), gross) + SumFunction([t \in taxes |-> t.amount])
                   + AmountOf({o \in orders : ~o.thirdParty /\ ~o.pretax}, gross)
                   + AmountOf({o \in orders : o.thirdParty}, gross)
    IN  [gross |-> gross, taxable |-> taxable, taxes |-> taxes, lines |-> orders,
         total |-> total, net |-> gross - total]
=============================================================================
