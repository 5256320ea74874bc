--------------------------- MODULE PensionPaycheck ---------------------------
(***************************************************************************)
(* From a member's file to a check stub: estimates and stateless           *)
(* calculations until an annuity is awarded, then standing deductions, tax *)
(* elections and the net pay of a payment at a date.  `answer` is what the *)
(* last request returned.                                                  *)
(***************************************************************************)
EXTENDS BenefitCalculator, Withholding

CONSTANTS
    Members,            \* what can be on file, see EstimateRequest
    Retirements, SickDays, OptionForms,
    Slots,              \* service_purchase_types: the slot of an entry type
    Requests,           \* bodies of POST /calculate/benefit
    Fund,               \* the fund's FundConfig
    ImportedOrders,     \* orders on file; no request creates one for a third party
    OrderForms, ElectionForms, PayDays,
    MaxElections,       \* bound: forms filed
    Federal, State      \* the tax tables of a payment date, Unbounded where none is on file

\* The tables of a status, where one is missing that of single; what is in their
\* rows is anybody's configuration.
WholeTables(tables) == "single" \in DOMAIN tables /\ \A s \in DOMAIN tables : tables[s] \in Seq(TaxBands)
WholeAmounts(tables) == "single" \in DOMAIN tables /\ \A s \in DOMAIN tables : tables[s] \in Nat

WholeFederal(cfg) ==
    /\ WholeTables(cfg.brackets)
    /\ cfg.step2Brackets # Unbounded => WholeTables(cfg.step2Brackets)
    /\ WholeAmounts(cfg.deduction) /\ WholeAmounts(cfg.higher)

ASSUME TablesAssumption ==
    \A day \in PayDays : /\ Federal[day] # Unbounded => WholeFederal(Federal[day])
                         /\ State[day] \in Nat \cup {Unbounded}

WholeOrder(o) ==
    /\ DOMAIN o = {"id", "kind", "amount", "pretax", "thirdParty", "from", "until"}
    /\ o.amount \in Nat

ASSUME FilesAssumption ==
    /\ \A m \in Members : WholeFile(m)
    /\ Retirements \subseteq Int /\ SickDays \subseteq Nat
    /\ \A o \in OptionForms : o.age \in Int \cup {Never} /\ o.desired \in Nat \cup {Never}
    /\ \A r \in Requests : WholeRequest(r)
    /\ WholeConfig(Fund)

ASSUME FormsAssumption ==
    /\ IsFiniteSet(ImportedOrders)
    /\ \A o \in ImportedOrders \cup OrderForms : WholeOrder(o)
    /\ \A f \in ElectionForms : f.extra \in Int /\ f.from \in Int

VARIABLES
    member,             \* the file; the requests here leave it alone
    answer,             \* what the last request returned
    annuity,            \* gross amount of the member's payments, once awarded
    orders,             \* deduction_orders
    taxElections        \* tax_withholding_elections

paycheckVars == <<member, answer, annuity, orders, taxElections>>

Nothing == [kind |-> "nothing"]

PaycheckInit ==
    /\ member \in Members
    /\ answer = Nothing
    /\ annuity = 0
    /\ orders = ImportedOrders
    /\ taxElections = {}
-----------------------------------------------------------------------------
(* Benefits *)

\* Bound: benefits are calculated one at a time and before the award; they
\* change nothing on file.
Calculating == answer = Nothing /\ annuity = 0

Answer(kind, r, c) ==
    [kind |-> kind, request |-> r, config |-> c, result |-> CalculateBenefit(r, c)]

\* GET /members/{id}/benefit-estimate, which also starts a retirement case.
Estimate(retirement, sickDays, option) ==
    LET r == EstimateRequest(member, retirement, sickDays, option, Slots)
    IN  /\ Estimable(member)
        /\ ~Refused(option, member.plan)
        /\ answer' = Answer("estimate", r, Fund)
        /\ UNCHANGED <<member, annuity, orders, taxElections>>

\* POST /calculate/benefit always uses the rules of SURS.
Calculate(r) ==
    /\ ~Refused(r.option, r.plan)
    /\ answer' = Answer("calculation", r, SursConfig(Fund.minimumPerYear))
    /\ UNCHANGED <<member, annuity, orders, taxElections>>

\* The case is approved and activated at the amount of its estimate.
Award ==
    /\ answer.kind = "estimate"
    /\ answer.result.final > 0
    /\ annuity' = answer.result.final
    /\ answer' = Nothing
    /\ UNCHANGED <<member, orders, taxElections>>
-----------------------------------------------------------------------------
(* Orders and elections *)

CreateDeductionOrder(o) ==
    /\ annuity > 0
    /\ ~\E x \in orders : x.id = o.id
    /\ orders' = orders \cup {o}
    /\ answer' = Nothing
    /\ UNCHANGED <<member, annuity, taxElections>>

EndDeductionOrder(o, day) ==
    /\ o \in orders
    /\ o.until = Never
    /\ orders' = (orders \ {o}) \cup {[o EXCEPT !.until = day]}
    /\ answer' = Nothing
    /\ UNCHANGED <<member, annuity, taxElections>>

\* The columns the row gets from the form; the others have their defaults.
Stored(f) == [jurisdiction |-> f.jurisdiction, status |-> f.status, extra |-> f.extra,
              exempt |-> f.exempt, type |-> "formula", step2 |-> FALSE, credit |-> 0,
              income |-> 0, deductions |-> 0, from |-> f.from, until |-> Never]

Superseded(f) == {[e EXCEPT !.until = f.from] :
                    e \in {x \in taxElections : x.jurisdiction = f.jurisdiction /\ x.until = Never}}

\* set_tax_withholding: rows of the jurisdiction that are current end with the
\* new form's date, even when it lies ahead.
SetTaxWithholding(f) ==
    /\ annuity > 0
    /\ Cardinality(taxElections) < MaxElections
    /\ taxElections' = {e \in taxElections : e.jurisdiction # f.jurisdiction \/ e.until # Never}
                    \cup Superseded(f) \cup {Stored(f)}
    /\ answer' = Nothing
    /\ UNCHANGED <<member, annuity, orders>>
-----------------------------------------------------------------------------
(* Net pay *)

\* _load_active_orders and _build_tax_election_inputs
OrdersOn(day) == {o \in orders : o.from <= day /\ (o.until # Never => o.until > day)}

ElectionsOn(day) == {e \in taxElections : e.from <= day /\ e.until = Never}

\* GET /payments/{id}/net-pay for a payment of the annuity at a date.
Preview(day) ==
    /\ annuity > 0
    /\ Calculable(ElectionsOn(day), Federal[day], State[day])
    /\ answer' = [kind |-> "slip", day |-> day,
                  result |-> NetPay(OrdersOn(day), ElectionsOn(day), annuity, "monthly",
                                    Federal[day], State[day])]
    /\ UNCHANGED <<member, annuity, orders, taxElections>>

PaycheckNext ==
    \/ Calculating /\ \E r \in Retirements, s \in SickDays, o \in OptionForms : Estimate(r, s, o)
    \/ Calculating /\ \E r \in Requests : Calculate(r)
    \/ Award
    \/ \E o \in OrderForms : CreateDeductionOrder(o)
    \/ \E o \in orders, day \in PayDays : EndDeductionOrder(o, day)
    \/ \E f \in ElectionForms : SetTaxWithholding(f)
    \/ \E day \in PayDays : Preview(day)

PaycheckSpec == PaycheckInit /\ [][PaycheckNext]_paycheckVars
-----------------------------------------------------------------------------
(* Properties *)

IsBenefit == answer.kind \in {"estimate", "calculation"}

\* Waiting never costs: with employment ended and the sick leave still counted,
\* retiring a month later never lowers the annuity before the option.
LaterIsNotLess ==
    IsBenefit =>
        LET r == answer.request
            later == CalculateBenefit([r EXCEPT !.retirement = @ + MonthDays], answer.config)
        IN  r.termination < r.retirement /\ later.sick = answer.result.sick
            => later.base >= answer.result.base

\* The rate of one quarter of service by the band it falls in, or none beyond
\* the last band.
RateOf(q, bands) ==
    LET ends == [i \in DOMAIN bands |->
                    IF \E j \in 1..i : bands[j].years = Never THEN q
                    ELSE Quarters * SumFunction([j \in 1..i |-> bands[j].years])]
        over == {i \in DOMAIN bands : ends[i] >= q}
    IN  IF over = {} THEN 0 ELSE bands[Min(over)].rate

\* Graduated formulas are marginal: a quarter of service adds the rate of the
\* band it falls in, and crossing a boundary reprices nothing before it.
BandsAreMarginal ==
    IsBenefit =>
        LET q == answer.result.service
        IN  q > 0 => \A bands \in {answer.config.preBands, answer.config.pfBands, answer.config.bands} :
                        ApplyBands(q, bands) = ApplyBands(q - 1, bands) + RateOf(q, bands)

\* The final average is that of the best years: no stretch of calendar years
\* that counts has a better average, and the best year bounds it.
FinalAverageIsBest ==
    IsBenefit =>
        LET fae == answer.result.fae
            Average(years) == RoundHalfUp(SumOver(fae.earnings, years), fae.n)
            Stretch(y) == y..y + fae.n - 1
        IN  fae.method = "high" =>
                /\ \A y \in fae.years : Stretch(y) \subseteq fae.years => Average(Stretch(y)) <= fae.annual
                /\ \E y \in fae.years : fae.annual <= fae.earnings[y]

\* The tax a table means, in hundredths of a cent: the rate of each bracket on what
\* falls into it.
MarginalTax(taxable, brackets) ==
    SumFunction([i \in DOMAIN brackets |->
        AtLeast(0, (IF brackets[i].max = Unbounded THEN taxable
                    ELSE AtMost(taxable, brackets[i].max)) - brackets[i].min)
          * brackets[i].rate])

\* How far a base is from the tax on all that lies below its bracket.
BaseError(brackets, i) == brackets[i].base * 100 - MarginalTax(brackets[i].min, brackets)

\* Each bracket starts where the one before it ends; the last has no end.
Contiguous(brackets) ==
    /\ brackets # <<>> /\ brackets[1].min = 0
    /\ \A i \in 1..Len(brackets) - 1 :
          /\ brackets[i].max \in Nat /\ brackets[i].max >= brackets[i].min
          /\ brackets[i + 1].min = brackets[i].max
    /\ brackets[Len(brackets)].max = Unbounded

Within(taxable, band) == taxable > band.min /\ (band.max # Unbounded => taxable <= band.max)

\* Withholding is marginal but for the bases: for every election on file and the gross
\* of the payment, an amount pays the rates of all brackets up to its own, and the
\* error in the base of that one.  A wrong base changes the tax in its own bracket
\* only, by its own error, and where the base is right no increase of an annuity is
\* taxed past itself.
TaxIsMarginal ==
    annuity > 0 =>
        \A day \in {d \in PayDays : Federal[d] # Unbounded}, e \in taxElections :
            LET adjusted == AtLeast(0, annuity * 12 + e.income - (e.deductions + Line1g(e, Federal[day])))
                table == Brackets(e, Federal[day])
            IN  adjusted > 0 /\ Contiguous(table) =>
                    \E i \in DOMAIN table :
                        /\ Within(adjusted, table[i])
                        /\ ApplyBrackets(adjusted, table)
                              = RoundHalfUp(MarginalTax(adjusted, table) + BaseError(table, i), 100)

\* A check stub accounts for its gross: each order in force on the payment date
\* is taken once, each jurisdiction is taxed at most once, and what is left is
\* the net amount.
PaycheckIsWhole ==
    answer.kind = "slip" =>
        LET slip == answer.result
        IN  /\ slip.lines = OrdersOn(answer.day)
            /\ slip.gross = slip.net + AmountOf(slip.lines, slip.gross)
                                     + SumFunction([t \in slip.taxes |-> t.amount])
            /\ \A t, u \in slip.taxes : t.election.jurisdiction = u.election.jurisdiction => t = u
=============================================================================
