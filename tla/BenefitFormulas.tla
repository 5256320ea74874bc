--------------------------- MODULE BenefitFormulas ---------------------------
(***************************************************************************)
(* The arithmetic of app/services/benefit: credit, final average earnings, *)
(* formulas, reductions and caps.  Money is in cents, service in quarters  *)
(* of a year, rates and factors in units of 1/10000, percentages in units  *)
(* of 1/100, dates in days of a calendar of twelve equal months.           *)
(***************************************************************************)
EXTENDS Cents, FiniteSets, FiniteSetsExt, Functions, Sequences

CONSTANTS
    MonthDays,          \* days of a month
    Never               \* a missing date, an unbounded band or rule

ASSUME CalendarAssumption == MonthDays \in Nat \ {0} /\ Never \notin Int

One == 10000
Quarters == 4
YearDays == 12 * MonthDays

Date(y, m, d) == y * YearDays + (m - 1) * MonthDays + d - 1
YearOf(day) == day \div YearDays

\* Bands of service with their rates, and the salary periods on file.
Bands == Seq([years : Nat \cup {Never}, rate : Nat])
Salaries(history) ==
    /\ IsFiniteSet(history)
    /\ \A p \in history : p.start \in Int /\ p.end \in Int \cup {Never} /\ p.salary \in Nat
-----------------------------------------------------------------------------
(* Ages and tiers *)

\* age_years_months as a number of months.
AgeInMonths(birth, day) ==
    day \div MonthDays - birth \div MonthDays
        - (IF day % MonthDays < birth % MonthDays THEN 1 ELSE 0)

Age(birth, day) == AgeInMonths(birth, day) \div 12

Tier(cert, cutoff) == IF cert < cutoff THEN "I" ELSE "II"
-----------------------------------------------------------------------------
(* Service credit *)

\* The step of the table, which lists its steps from the longest down.
StepCredit(days, table) ==
    LET steps == {i \in DOMAIN table : days >= table[i].days}
    IN  IF steps = {} THEN 0 ELSE table[CHOOSE i \in steps : \A j \in steps : i <= j].credit

\* sick_leave_credit; the proportional method counts months of leave.
SickLeaveCredit(days, retirement, termination, c) ==
    IF days < c.sickMinDays \/ retirement - termination > c.sickMaxGap THEN 0
    ELSE IF c.sickMethod = "step_table" THEN StepCredit(days, c.sickSteps)
    ELSE AtMost(c.sickMaxCredit, RoundHalfUp(days * Quarters, c.sickDaysPerMonth * 12))

TotalService(r, sick) == r.system + sick + r.ope + r.military + r.reciprocal
-----------------------------------------------------------------------------
(* Final average earnings *)

\* _ay_start: the academic year, numbered by the calendar year it starts in.
AcademicYear(day, c) ==
    IF day % YearDays >= (c.ayMonth - 1) * MonthDays + c.ayDay - 1 THEN YearOf(day) ELSE YearOf(day) - 1

YearStart(ay, c) == Date(ay, c.ayMonth, c.ayDay)

\* build_academic_year_earnings: what one salary period pays in a year.
Earned(p, ay, asOf, c) ==
    LET end  == IF p.end = Never THEN asOf ELSE p.end
        days == AtMost(end, YearStart(ay + 1, c) - 1) - AtLeast(p.start, YearStart(ay, c)) + 1
    IN  IF days <= 0 THEN 0 ELSE RoundHalfUp(p.salary * days, YearDays)

Earnings(history, asOf, c) ==
    LET End(p) == IF p.end = Never THEN asOf ELSE p.end
        years == UNION {AcademicYear(p.start, c)..AcademicYear(End(p), c) : p \in history}
    IN  [ay \in years |-> SumFunction([p \in history |-> Earned(p, ay, asOf, c)])]

Sorted(years) ==
    [i \in 1..Cardinality(years) |-> CHOOSE y \in years : Cardinality({x \in years : x < y}) = i - 1]

\* apply_spike_cap: each year against the capped year before it in the list,
\* which need not be the calendar year before it.
SpikeCapped(earnings, c) ==
    LET years == Sorted(DOMAIN earnings)
        capped[i \in DOMAIN years] ==
            LET own   == earnings[years[i]]
                prior == IF i = 1 THEN 0 ELSE capped[i - 1]
            IN  IF prior = 0 \/ YearStart(years[i], c) < c.spikeFrom THEN own
                ELSE AtMost(own, RoundHalfUp(prior * (One + c.spikeRate), One))
    IN  IF ~c.spikeCap THEN earnings
        ELSE [ay \in DOMAIN earnings |-> capped[CHOOSE i \in DOMAIN years : years[i] = ay]]

Active(earnings) == {ay \in DOMAIN earnings : earnings[ay] > 0}

SumOver(earnings, years) == SumFunctionOnSet(earnings, years)

\* The windows of n years that follow each other in the sorted list.
Windows(years, n) ==
    LET list == Sorted(years)
    IN  {{list[j] : j \in i..i + n - 1} : i \in 1..Len(list) - n + 1}

\* The first n years instead of the best.
FirstWindow(earnings, years, n) ==
    IF Cardinality(years) < n THEN 0
    ELSE RoundHalfUp(SumOver(earnings, {ay \in years : Cardinality({x \in years : x < ay}) < n}), n)

\* _best_consecutive_window: the average of the best window, 0 without one.
BestWindow(earnings, years, n) ==
    IF Cardinality(years) < n THEN 0
    ELSE RoundHalfUp(Max({SumOver(earnings, w) : w \in Windows(years, n)}), n)

\* compute_fae: the best n consecutive years, among the last ones in Tier II;
\* the average of all years when there is no such window.
FinalAverage(r, tier, c) ==
    LET capped == SpikeCapped(Earnings(r.history, r.termination, c), c)
        n      == IF tier = "I" THEN c.faeYearsI ELSE c.faeYearsII
        from   == AcademicYear(r.termination - c.faeLastYears * YearDays, c)
        years  == {ay \in Active(capped) : tier = "I" \/ c.faeLastYears = Never \/ ay >= from}
        best   == BestWindow(capped, years, n)
    IN  IF best > 0 THEN [annual |-> best, method |-> "high", earnings |-> capped, years |-> years, n |-> n]
        ELSE [annual |-> IF Active(capped) = {} THEN 0
                         ELSE RoundHalfUp(SumOver(capped, Active(capped)), Cardinality(Active(capped))),
              method |-> "actual", earnings |-> capped, years |-> Active(capped), n |-> n]
-----------------------------------------------------------------------------
(* Formulas *)

\* Every band priced from the first year of service.
BandsFromZero(service, bands) ==
    SumFunction([i \in DOMAIN bands |->
        (IF bands[i].years = Never THEN service ELSE AtMost(service, bands[i].years * Quarters))
        * bands[i].rate])

\* _apply_bands: each band takes what it can hold of the service left over by
\* the bands before it.
ApplyBands(service, bands) ==
    LET left[i \in 0..Len(bands)] ==
            IF i = 0 THEN service
            ELSE IF bands[i].years = Never THEN 0
            ELSE AtLeast(0, left[i - 1] - bands[i].years * Quarters)
    IN  SumFunction([i \in DOMAIN bands |-> (left[i - 1] - left[i]) * bands[i].rate])

\* compute_general_annual
GeneralFactor(service, termination, c) ==
    IF c.alwaysBands /\ c.bands # <<>> THEN ApplyBands(service, c.bands)
    ELSE IF termination >= c.generalFrom THEN service * c.multiplier
    ELSE ApplyBands(service, c.preBands)

GeneralAnnual(service, fae, termination, c) ==
    RoundHalfUp(GeneralFactor(service, termination, c) * fae, Quarters * One)

\* Months after the normal age counted like months before it.
MonthsFromNormalAge(tier, birth, retirement, service, c) ==
    LET months == 12 * (IF tier = "I" THEN c.normalAgeI ELSE c.normalAgeII) - AgeInMonths(birth, retirement)
    IN  IF months >= 0 THEN months ELSE -months

\* compute_age_reduction: the factor left after the reduction for each month
\* short of the normal age.
MonthsShort(tier, birth, retirement, service, c) ==
    IF tier = "I" /\ service >= c.noReductionYears * Quarters THEN 0
    ELSE AtLeast(0, 12 * (IF tier = "I" THEN c.normalAgeI ELSE c.normalAgeII)
                      - AgeInMonths(birth, retirement))

AgeFactor(tier, short, c) ==
    AtLeast(0, One - short * (IF tier = "I" THEN c.reductionI ELSE c.reductionII))

\* check_pf_eligibility, where the contribution threshold is taken as met.
PoliceFireEligible(tier, age, service, c) ==
    IF tier = "II" THEN age >= c.pfAgeII /\ service >= c.pfYearsII * Quarters
    ELSE \E rule \in c.pfRules :
            /\ age >= rule.age
            /\ service >= rule.years * Quarters
            /\ rule.below # Never => service < rule.below * Quarters

\* compute_police_fire_monthly
PoliceFireMonthly(service, fae, c) ==
    RoundHalfUp(RoundHalfUp(AtMost(c.pfMax * Quarters, ApplyBands(service, c.pfBands)) * fae,
                            Quarters * One), 12)

\* compute_money_purchase_monthly: contributions and interest by their
\* multipliers over an actuarial factor in hundredths.
MoneyPurchaseMonthly(mp, factor) ==
    IF factor = 0 THEN 0
    ELSE RoundHalfUp(mp.normal * 240, factor) + RoundHalfUp(mp.ope * 200, factor)
         + RoundHalfUp(mp.military * 100, factor)
-----------------------------------------------------------------------------
(* The maximum benefit, in hundredths of a percent of the final average *)

\* _pre_modern_cap: up to each date, the percentage by age from the first age
\* listed to the last.
HistoricCaps == <<
    [before |-> Date(1969, 8, 15), from |-> 60, caps |-> <<6000, 6167, 6333, 6500, 6667, 6833, 7000>>],
    [before |-> Date(1973, 8, 27), from |-> 60, caps |-> <<7000, 7167, 7333, 7500, 7667, 7833, 8000>>],
    [before |-> Date(1977, 9, 14), from |-> 60, caps |-> <<7000, 7200, 7400, 7600, 7800, 8000>>],
    [before |-> Never, from |-> 62, caps |-> <<7500, 7600, 7800, 8000>>]>>

HistoricCap(termination, age, cert) ==
    LET i == CHOOSE k \in DOMAIN HistoricCaps :
                /\ HistoricCaps[k].before # Never => termination < HistoricCaps[k].before
                /\ \A j \in 1..k - 1 : termination >= HistoricCaps[j].before
        t == HistoricCaps[i]
    IN  IF cert >= Date(1977, 9, 15) THEN 7500
        ELSE t.caps[AtLeast(1, AtMost(Len(t.caps), age - t.from + 1))]

\* determine_benefit_cap
BenefitCap(termination, age, cert, c) ==
    IF termination >= c.capModern \/ ~c.capTable THEN c.capPercent
    ELSE HistoricCap(termination, age, cert)
-----------------------------------------------------------------------------
(* Annual increase *)

\* _next_period_start and compute_aai: the date of the first increase.
NextIncreaseDay(day, c) ==
    LET this == Date(YearOf(day), c.increaseMonth, c.increaseDay)
    IN  IF day <= this THEN this ELSE this + YearDays

FirstIncrease(tier, retirement, birth, c) ==
    IF tier = "I" THEN NextIncreaseDay(retirement, c)
    ELSE NextIncreaseDay(AtLeast(retirement + YearDays, birth + c.deferralAge * YearDays), c)
=============================================================================
