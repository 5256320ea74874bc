-------------------------- MODULE ContributionRates --------------------------
(***************************************************************************)
(* The employer contribution rates and their two readers: get_effective_   *)
(* rate, one query for an employer, a type and a date, and the cache that  *)
(* payroll ingestion and the deficiency calculation build once per report. *)
(***************************************************************************)
EXTENDS Cents, FiniteSets, FiniteSetsExt, Functions, Sequences

CONSTANTS
    Employers,
    EmploymentTypes,
    Every,        \* null in employer_id or employment_type: applies to all
    Days        \* dates

\* Null is no employer, no type and no date.
ASSUME KeysAssumption == Every \notin Employers /\ Every \notin EmploymentTypes /\ Every \notin Days

ASSUME DatesAssumption == Days \subseteq Int

NoEnd == Every

\* A row of employer_contribution_rates; rates are in percent.
RateRow == [employer: Employers \cup {Every}, type: EmploymentTypes \cup {Every},
            employee: 0..100, employers: 0..100, from: Days, until: Days \cup {NoEnd}]

InForce(r, day) == r.from <= day /\ (r.until # NoEnd => r.until >= day)

\* The ORDER BY of both queries: rows of the employer first, then rows of a
\* type, then the latest.
BeforeByDate(r, s) ==
    \/ r.from > s.from
    \/ r.from = s.from /\ r.employer # Every /\ s.employer = Every

Before(r, s) ==
    \/ r.employer # Every /\ s.employer = Every
    \/ /\ (r.employer = Every) = (s.employer = Every)
       /\ \/ r.type # Every /\ s.type = Every
          \/ (r.type = Every) = (s.type = Every) /\ r.from > s.from

First(S) == {r \in S : ~\E s \in S : Before(s, r)}

\* get_effective_rate: the first row, if there is one.
EffectiveRate(rates, employer, type, day) ==
    First({r \in rates : /\ r.employer \in {employer, Every}
                         /\ r.type \in {type, Every}
                         /\ InForce(r, day)})

\* build_rate_cache and lookup_rate_from_cache: the first row of the type, else
\* the first row for all types.
CacheEntry(rates, employer, key, day) ==
    First({r \in rates : r.employer \in {employer, Every} /\ r.type = key /\ InForce(r, day)})

CachedRate(rates, employer, type, day) ==
    LET typed == IF type = Every THEN {} ELSE CacheEntry(rates, employer, type, day)
    IN  IF typed # {} THEN typed ELSE CacheEntry(rates, employer, Every, day)

\* What is missing from one contribution.
Shortfall(gross, rate, submitted) == AtLeast(0, RoundHalfUp(gross * rate, 100) - submitted)

\* check_contribution_variance: the contributions that fall short of a rate row.
Variances(row, rate) ==
    {who \in {"employee", "employer"} :
        IF who = "employee" THEN Shortfall(row.gross, rate.employee, row.employee) > 0
                            ELSE Shortfall(row.gross, rate.employers, row.employers) > 0}

\* calculate_deficiency for one row of a report.  Rows that were not applied, or
\* have no employment type or no rate, count nothing.
RowDeficiency(row, rates, employer, day) ==
    LET found == CachedRate(rates, employer, row.type, day)
        rate  == CHOOSE r \in found : TRUE
    IN  IF row.status \notin {"applied", "flagged"} \/ row.type = Every \/ found = {} THEN 0
        ELSE Shortfall(row.gross, rate.employee, row.employee)
             + Shortfall(row.gross, rate.employers, row.employers)

\* For a whole report the rates are those of the period end of one of its rows,
\* the one the database returns first.
ReportDeficiency(rows, rates, employer, day) ==
    SumFunction([i \in DOMAIN rows |-> RowDeficiency(rows[i], rates, employer, day)])
=============================================================================
