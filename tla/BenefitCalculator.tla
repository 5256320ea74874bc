-------------------------- MODULE BenefitCalculator --------------------------
(***************************************************************************)
(* calculate_benefit: from a request and the fund's configuration to the   *)
(* annuity, step by step as in calculator.py; and get_estimate, which      *)
(* puts the request together from what is on file for a member.            *)
(***************************************************************************)
EXTENDS BenefitFormulas

CONSTANTS
    JsFactor,           \* joint and survivor table: option, beneficiary age, member age
    ReversionaryFactor, \* reversionary reduction, in millionths
    MaxTableAge

Survivors == [js_50 |-> 50, js_75 |-> 75, js_100 |-> 100]

ASSUME FactorsAssumption ==
    /\ MaxTableAge \in Nat \ {0}
    /\ \A i, j \in 1..MaxTableAge : /\ ReversionaryFactor[i][j] \in Nat
                                    /\ \A o \in DOMAIN Survivors : JsFactor[o][i][j] \in Nat

\* What the tables hold: numbers that are not negative.
WholeConfig(c) ==
    /\ {c.faeYearsI, c.faeYearsII, c.sickDaysPerMonth} \subseteq Nat \ {0}
    /\ {c.ayMonth, c.ayDay, c.normalAgeI, c.normalAgeII, c.pfAgeII} \subseteq Int
    /\ \A rule \in c.pfRules : rule.age \in Int
    /\ {c.spikeRate, c.multiplier, c.reductionI, c.reductionII, c.capPercent, c.sickMaxCredit,
        c.pfMax} \subseteq Nat
    /\ {c.bands, c.preBands, c.pfBands} \subseteq Bands
    /\ c.sickSteps \in Seq([days : Nat, credit : Nat])

WholePurchase(mp) == {mp.normal, mp.ope, mp.military} \subseteq Nat

WholeRequest(r) ==
    /\ DOMAIN r = {"plan", "cert", "birth", "retirement", "termination", "system", "ope", "military",
                   "reciprocal", "sickDays", "history", "purchase", "factor", "policeFire",
                   "policeFireService", "option"}
    /\ {r.cert, r.birth, r.retirement, r.termination} \subseteq Int
    /\ {r.system, r.ope, r.military, r.reciprocal, r.sickDays} \subseteq Nat
    /\ Salaries(r.history)
    /\ r.purchase # Never => WholePurchase(r.purchase)
    /\ {r.factor, r.policeFireService} \subseteq Nat \cup {Never}
    /\ r.option.age \in Int \cup {Never} /\ r.option.desired \in Nat \cup {Never}

WholeFile(file) ==
    /\ file.cert \in Int \cup {Never} /\ file.birth \in Int
    /\ Salaries(file.salaries)
    /\ IsFiniteSet(file.credits) /\ \A e \in file.credits : e.credit \in Nat
    /\ IsFiniteSet(file.jobs) /\ \A j \in file.jobs : j.until \in Int \cup {Never}
    /\ file.contributions # Never => WholePurchase(file.contributions)

Band(years, rate) == [years |-> years, rate |-> rate]

\* FundConfig without overrides: the rules of SURS.  The minimum per year of
\* service is an amount and left to the fund.
SursConfig(minimum) == [
    tierCutoff |-> Date(2011, 1, 1),
    faeYearsI |-> 4, faeYearsII |-> 8, faeLastYears |-> 10, ayMonth |-> 7, ayDay |-> 1,
    spikeCap |-> TRUE, spikeRate |-> 2000, spikeFrom |-> Date(1997, 7, 1),
    multiplier |-> 220, generalFrom |-> Date(1997, 7, 7), alwaysBands |-> FALSE, bands |-> <<>>,
    preBands |-> <<Band(10, 167), Band(10, 190), Band(10, 210), Band(Never, 230)>>,
    normalAgeI |-> 60, reductionI |-> 50, noReductionYears |-> 30,
    normalAgeII |-> 67, reductionII |-> 50,
    capPercent |-> 8000, capModern |-> Date(1997, 7, 7), capTable |-> TRUE,
    deferralAge |-> 67, increaseMonth |-> 1, increaseDay |-> 1,
    sickMethod |-> "step_table", sickDaysPerMonth |-> 20, sickMaxCredit |-> 4,
    sickMinDays |-> 20, sickMaxGap |-> 60,
    sickSteps |-> <<[days |-> 180, credit |-> 4], [days |-> 120, credit |-> 3],
                    [days |-> 60, credit |-> 2], [days |-> 20, credit |-> 1]>>,
    minimum |-> TRUE, minimumPerYear |-> minimum, minimumYears |-> 30,
    mpCutoff |-> Date(2005, 7, 1),
    pfBands |-> <<Band(10, 225), Band(10, 250), Band(Never, 275)>>, pfMax |-> 8000,
    pfRules |-> {[age |-> 50, years |-> 25, below |-> Never], [age |-> 55, years |-> 20, below |-> 25]},
    pfAgeII |-> 60, pfYearsII |-> 20]
-----------------------------------------------------------------------------
(* The options *)

\* The tables stop at an age on both sides.
TableAge(age) == AtLeast(1, AtMost(MaxTableAge, age))

\* The request was refused with a ValueError.
Refused(o, plan) ==
    \/ o.type = "reversionary" /\ (plan # "traditional" \/ o.age = Never \/ o.desired = Never)
    \/ o.type \in DOMAIN Survivors /\ (plan # "portable" \/ o.age = Never)

\* _apply_benefit_option: what the member keeps, gives up and leaves behind.
Reversionary(o, base, age) ==
    LET reduction == RoundHalfUp(o.desired * ReversionaryFactor[TableAge(o.age)][TableAge(age)], 1000000)
    IN  [final |-> AtLeast(0, base - reduction), reduction |-> reduction, survivor |-> o.desired]

JointAndSurvivor(o, base, age) ==
    LET final == RoundHalfUp(base * JsFactor[o.type][TableAge(o.age)][TableAge(age)], One)
    IN  [final |-> final, reduction |-> base - final,
         survivor |-> RoundHalfUp(final * Survivors[o.type], 100)]

ApplyOption(o, base, age) ==
    IF o.type = "reversionary" THEN Reversionary(o, base, age)
    ELSE IF o.type \in DOMAIN Survivors THEN JointAndSurvivor(o, base, age)
    ELSE [final |-> base, reduction |-> 0, survivor |-> 0]
-----------------------------------------------------------------------------
(* calculate_benefit *)

\* Steps 5 to 8 before the cap: the highest of the formulas that apply.  Without
\* a service of their own the police and fire formula does not apply, without a
\* factor the money purchase formula does not.
GeneralMonthly(r, tier, service, fae, c) ==
    RoundHalfUp(RoundHalfUp(GeneralAnnual(service, fae, r.termination, c), 12)
                  * AgeFactor(tier, MonthsShort(tier, r.birth, r.retirement, service, c), c), One)

MoneyPurchase(r, c) ==
    IF /\ c.mpCutoff # Never => r.cert < c.mpCutoff
       /\ r.purchase # Never
       /\ r.factor # Never
    THEN MoneyPurchaseMonthly(r.purchase, r.factor) ELSE 0

PoliceFire(r, tier, fae, c) ==
    IF /\ r.policeFire
       /\ r.policeFireService # Never
       /\ PoliceFireEligible(tier, Age(r.birth, r.retirement), r.policeFireService, c)
    THEN PoliceFireMonthly(r.policeFireService, fae, c) ELSE 0

CalculateBenefit(r, c) ==
    LET tier    == Tier(r.cert, c.tierCutoff)
        sick    == SickLeaveCredit(r.sickDays, r.retirement, r.termination, c)
        service == TotalService(r, sick)
        fae     == FinalAverage(r, tier, c)
        age     == Age(r.birth, r.retirement)
        cap     == RoundHalfUp(fae.annual * BenefitCap(r.termination, age, r.cert, c), 12 * One)
        base    == AtMost(cap, Max({GeneralMonthly(r, tier, service, fae.annual, c), MoneyPurchase(r, c),
                                    PoliceFire(r, tier, fae.annual, c)}))
        option  == ApplyOption(r.option, base, age)
        floor   == IF c.minimum
                   THEN RoundHalfUp(c.minimumPerYear * AtMost(c.minimumYears * Quarters, service), Quarters)
                   ELSE 0
    IN  [tier |-> tier, sick |-> sick, service |-> service, fae |-> fae, cap |-> cap, base |-> base,
         option |-> option, final |-> option.final,
         increase |-> FirstIncrease(tier, r.retirement, r.birth, c),
         \* the increase of a portable annuity is counted from the reduced one
         basis |-> IF r.plan = "traditional" THEN base ELSE option.final,
         supplement |-> AtLeast(0, floor - option.final)]
-----------------------------------------------------------------------------
(* get_estimate *)

\* _service_credit_by_slot: voided entries count nothing, an entry type nobody
\* configured is service of the system, and a slot the request does not take
\* from the totals is lost.
SlotOf(entry, slots) == IF entry.type \in DOMAIN slots THEN slots[entry.type] ELSE "system"

Credit(file, slot, slots) ==
    SumFunction([e \in {x \in file.credits : ~x.voided /\ SlotOf(x, slots) = slot} |-> e.credit])

\* _latest_termination_date, or the date of retirement.
TerminationOf(file, retirement) ==
    LET ends == {j.until : j \in file.jobs} \ {Never}
    IN  IF ends = {} THEN retirement ELSE Max(ends)

\* The errors of get_estimate, which end the request.
Estimable(file) == file.cert # Never /\ file.plan # Never /\ file.salaries # {}

\* No service or actuarial factor is on file for the two other formulas.
EstimateRequest(file, retirement, sickDays, option, slots) ==
    [plan |-> file.plan, cert |-> file.cert, birth |-> file.birth, retirement |-> retirement,
     termination |-> TerminationOf(file, retirement),
     system |-> Credit(file, "system", slots), ope |-> Credit(file, "ope", slots),
     military |-> Credit(file, "military", slots), reciprocal |-> 0, sickDays |-> sickDays,
     history |-> file.salaries, purchase |-> file.contributions, factor |-> Never,
     policeFire |-> \E j \in file.jobs : j.type = "police_fire", policeFireService |-> Never,
     option |-> option]
=============================================================================
