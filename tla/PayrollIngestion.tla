--------------------------- MODULE PayrollIngestion ---------------------------
(***************************************************************************)
(* Payroll reports.  A report is one request and one transaction: every    *)
(* row in turn is validated, matched to a member and an employment, looked *)
(* up in the contribution ledger, credited by the accrual rule within the  *)
(* annual cap of concurrent jobs, and posted.  A row sees what others have *)
(* committed so far and what its own report has flushed, so two reports    *)
(* may be at work on the same period; `met` remembers which ones were.     *)
(***************************************************************************)
EXTENDS ContributionRates

CONSTANTS
    Reports,
    Files,              \* the files employers send: [employer, rows], see RowInput
    Jobs,               \* employment_records, see Job
    Plans,              \* the plan of each member number, or None; others are unknown
    Rates,              \* employer_contribution_rates
    Validation,         \* payroll_validation_config by day, or None
    AllowedTypes,       \* employment_types by day, {} when not configured
    AccrualRule,        \* service_credit_accrual_rule by day, any name, or None
    AnnualCap,          \* concurrent_employment_max_annual_credit by day, or None
    MonthDays, YearMonths,
    None

RowInput == [member: STRING, start: Days, end: Days, gross: Nat, employee: Nat,
             employer: Nat, days: Nat]

\* Percent of full time; jobs held side by side share a group.
Job == [id: Nat, member: STRING, employer: Employers, from: Days, until: Days \cup {None},
        type: EmploymentTypes \cup {Every}, percent: 1..100, group: STRING \cup {None}]

ASSUME JobsAssumption == Jobs \subseteq Job /\ None \notin Jobs
ASSUME FilesAssumption == Files \subseteq [employer : Employers, rows : Seq(RowInput)]
ASSUME RatesAssumption == Rates \subseteq RateRow
ASSUME CapAssumption == AnnualCap \in [Days -> Nat \cup {None}] /\ MonthDays \in Nat \ {0}

VARIABLES
    report,         \* payroll_reports with their rows
    posted,         \* committed contribution_records
    credited,       \* committed service_credit_entries
    met             \* pairs of reports that were processed at the same time

vars == <<report, posted, credited, met>>

Absent == [status |-> "absent", rows |-> <<>>, posts |-> {}, credits |-> {}]

Init == /\ report = [r \in Reports |-> Absent]
        /\ posted = {}
        /\ credited = {}
        /\ met = {}
-----------------------------------------------------------------------------
(* Validation: the warnings of a row *)

\* validate_system: a structural error stops the row at once.
SystemError(in) == in.end < in.start \/ in.days > in.end - in.start + 1

\* A rate off the expected percentage by more than the tolerance.
OffRate(gross, amount, expected, tolerance) ==
    LET off == amount * 100 - gross * expected
    IN  gross > 0 /\ (off > gross * tolerance \/ -off > gross * tolerance)

\* validate_fund; every threshold is optional.
FundWarnings(in, v) ==
    IF v = None THEN {}
    ELSE {w \in {"gross", "days", "employee_rate", "employer_rate"} :
            CASE w = "gross" -> v.maxGross # None /\ in.gross > v.maxGross
              [] w = "days" -> v.maxDays # None /\ in.days > v.maxDays
              [] w = "employee_rate" ->
                     v.employeeRate # None /\ OffRate(in.gross, in.employee, v.employeeRate, v.tolerance)
              [] w = "employer_rate" ->
                     v.employerRate # None /\ OffRate(in.gross, in.employer, v.employerRate, v.tolerance)}

\* check_plan_type_earnings_cap: the cap of the plan, else the general limit; a
\* member without a plan is not checked.
PlanWarnings(in, v) ==
    LET cap == IF v = None \/ Plans[in.member] = None THEN None
               ELSE IF Plans[in.member] \in DOMAIN v.planCaps THEN v.planCaps[Plans[in.member]]
               ELSE v.limit
    IN  IF cap # None /\ in.gross > cap THEN {"plan_cap"} ELSE {}

TypeWarnings(job, allowed) ==
    IF allowed # {} /\ job.type # Every /\ job.type \notin allowed THEN {"type"} ELSE {}

Rejects(v) == v # None /\ v.mode = "reject"

RateWarningsOfAnyType(in, job, day) ==
    LET found == CachedRate(Rates, job.employer, Every, day)
    IN  IF found = {} THEN {}
        ELSE Variances([gross |-> in.gross, employee |-> in.employee, employers |-> in.employer],
                       CHOOSE r \in found : TRUE)

\* Warnings of the rates, see check_contribution_variance.
RateWarnings(in, job, day) ==
    LET found == CachedRate(Rates, job.employer, job.type, day)
    IN  IF found = {} THEN {}
        ELSE Variances([gross |-> in.gross, employee |-> in.employee, employers |-> in.employer],
                       CHOOSE r \in found : TRUE)
-----------------------------------------------------------------------------
(* Matching and credit *)

\* The employment at the employer that was hired into last, among those not
\* terminated before the period.
JobOf(in, employer) ==
    LET jobs == {j \in Jobs : /\ j.member = in.member /\ j.employer = employer
                              /\ j.until = None \/ j.until >= in.start}
    IN  {j \in jobs : \A k \in jobs : k.from <= j.from}

SamePeriod(x, y) == x.job = y.job /\ x.start = y.start /\ x.end = y.end

Month(day) == day \div MonthDays
Year(day) == Month(day) \div YearMonths

\* count_months_in_period and compute_service_credit_years, in hundredths of a
\* month.
Months(start, end) == Month(end) - Month(start) + 1

Accrued(rule, in, percent) ==
    IF in.days = 0 THEN 0
    ELSE Months(in.start, in.end) * (IF rule = "monthly_floor" THEN 100 ELSE percent)

CreditOf(entries) == SumFunction([e \in entries |-> e.credit])

\* What the jobs of a group have been credited for the year of a period end.
OfYear(entries, job, year) ==
    {e \in entries : e.member = job.member /\ e.group = job.group /\ Year(e.end) = year}

CreditOfYear(entries, job, year) == CreditOf(OfYear(entries, job, year))

CappedAlone(entries, job, day, credit) ==
    IF credit = 0 \/ job.group = None \/ AnnualCap[day] = None THEN credit
    ELSE AtMost(credit, AnnualCap[day])

Capped(entries, job, day, credit) ==
    IF credit = 0 \/ job.group = None \/ AnnualCap[day] = None THEN credit
    ELSE AtLeast(0, AtMost(credit, AnnualCap[day] - CreditOfYear(entries, job, Year(day))))
-----------------------------------------------------------------------------
(* One row *)

\* What processing decides of a row: its status, its warnings, the job it was
\* matched to and the credit it gets; `counts` is whether its warnings count.
Decision(status, warnings, job, credit, counts) ==
    [status |-> status, warnings |-> warnings, job |-> job, credit |-> credit, counts |-> counts]

Refused(warnings, counts) == Decision("error", warnings, None, 0, counts)

PromotedBeforeTheCap(warnings) ==
    IF warnings \ {"credit_cap"} # {} THEN "flagged" ELSE "applied"

\* The status ingest_json leaves on a row that was posted.
Promoted(warnings) == IF warnings # {} THEN "flagged" ELSE "applied"

\* The row is matched and not rejected: duplicate check, accrual, cap, posting.
Posting(in, job, warnings, posts, entries) ==
    LET full == Accrued(AccrualRule[in.end], in, job.percent)
        credit == Capped(entries, job, in.end, full)
        all == IF credit < full THEN warnings \cup {"credit_cap"} ELSE warnings
        row == [job |-> job.id, start |-> in.start, end |-> in.end]
    IN  IF \E x \in posts : SamePeriod(x, row) THEN Decision("skipped", warnings, job, 0, TRUE)
        ELSE IF AccrualRule[in.end] = None THEN Decision("error", warnings, job, 0, TRUE)
        ELSE Decision(Promoted(all), all, job, credit, TRUE)

\* _process_row after the fund validation, whose warnings are `fund`.  `day` is
\* the period end of the first row: the day of the report's configuration.
Matched(in, employer, day, fund, posts, entries) ==
    LET v == Validation[day]
        plan == fund \cup PlanWarnings(in, v)
        jobs == JobOf(in, employer)
        job  == CHOOSE j \in jobs : TRUE
        type == plan \cup TypeWarnings(job, AllowedTypes[day])
    IN  IF Rejects(v) /\ PlanWarnings(in, v) # {} THEN Refused(plan, TRUE)
        ELSE IF jobs = {} THEN Refused(plan, TRUE)
        ELSE IF Rejects(v) /\ TypeWarnings(job, AllowedTypes[day]) # {} THEN Refused(type, TRUE)
        ELSE Posting(in, job, type \cup RateWarnings(in, job, day), posts, entries)

Process(in, employer, day, posts, entries) ==
    LET v == Validation[day]
        fund == FundWarnings(in, v)
    IN  IF SystemError(in) THEN Refused({}, FALSE)
        ELSE IF Rejects(v) /\ fund # {} THEN Refused(fund, FALSE)
        ELSE IF in.member \notin DOMAIN Plans THEN Refused(fund, TRUE)
        ELSE Matched(in, employer, day, fund, posts, entries)
-----------------------------------------------------------------------------
(* Requests *)

StartReport(r, file) ==
    /\ report[r].status = "absent"
    /\ report' = [report EXCEPT ![r] = [status |-> "processing", employer |-> file.employer,
                                        file |-> file.rows, rows |-> <<>>, posts |-> {}, credits |-> {}]]
    /\ met' = met \cup {{r, s} : s \in {x \in Reports : report[x].status = "processing"}}
    /\ UNCHANGED <<posted, credited>>

\* What a row finds in the ledgers: the committed rows and, by autoflush, those
\* of its own report.
PostsSeenUnflushed(r) == posted
PostsSeen(r) == posted \cup report[r].posts
CreditsSeen(r) == credited \cup report[r].credits

KnownRules == {"monthly_floor", "proportional_percent_time"}

\* The next row of the file.  An accrual rule nobody knows raises when a row with
\* days worked comes to it, and takes the whole report with it (see Abort).
ProcessRow(r) ==
    LET p  == report[r]
        k  == Len(p.rows) + 1
        in == p.file[k]
        d  == Process(in, p.employer, p.file[1].end, PostsSeen(r), CreditsSeen(r))
        applied == d.status \in {"applied", "flagged"}
        post  == [report |-> r, row |-> k, job |-> d.job.id, start |-> in.start, end |-> in.end]
        entry == [report |-> r, row |-> k, member |-> in.member, group |-> d.job.group,
                  end |-> in.end, credit |-> d.credit]
    IN  /\ p.status = "processing"
        /\ k <= Len(p.file)
        /\ applied /\ in.days > 0 => AccrualRule[in.end] \in KnownRules
        /\ report' = [report EXCEPT
               ![r].rows = Append(@, d),
               ![r].posts = IF applied THEN @ \cup {post} ELSE @,
               ![r].credits = IF applied /\ d.credit > 0 THEN @ \cup {entry} ELSE @]
        /\ UNCHANGED <<posted, credited, met>>

Count(rows, S) == Cardinality({k \in DOMAIN rows : rows[k].status \in S})

CompleteReportOmittingFlagged(r) ==
    LET p == report[r]
    IN  /\ p.status = "processing"
        /\ Len(p.rows) = Len(p.file)
        /\ report' = [report EXCEPT ![r] =
               [status |-> "completed", employer |-> p.employer, file |-> p.file, rows |-> p.rows,
                posts |-> {}, credits |-> {}, processed |-> Count(p.rows, {"applied"}),
                errors |-> Count(p.rows, {"error"}), skipped |-> Count(p.rows, {"skipped"})]]
        /\ posted' = posted \cup p.posts
        /\ credited' = credited \cup p.credits
        /\ UNCHANGED met

\* The header is completed with its counts and the transaction commits.
CompleteReport(r) ==
    LET p == report[r]
    IN  /\ p.status = "processing"
        /\ Len(p.rows) = Len(p.file)
        /\ report' = [report EXCEPT ![r] =
               [status |-> "completed", employer |-> p.employer, file |-> p.file, rows |-> p.rows,
                posts |-> {}, credits |-> {},
                processed |-> Count(p.rows, {"applied", "flagged"}),
                errors |-> Count(p.rows, {"error"}), skipped |-> Count(p.rows, {"skipped"}),
                warned |-> Cardinality({k \in DOMAIN p.rows :
                                          p.rows[k].counts /\ p.rows[k].warnings # {}})]]
        /\ posted' = posted \cup p.posts
        /\ credited' = credited \cup p.credits
        /\ UNCHANGED met

\* An exception or a lost connection rolls the report back.
Abort(r) == /\ report[r].status = "processing"
            /\ report' = [report EXCEPT ![r] = Absent]
            /\ UNCHANGED <<posted, credited, met>>

Next == \E r \in Reports :
            \/ \E file \in Files : StartReport(r, file)
            \/ ProcessRow(r) \/ CompleteReport(r) \/ Abort(r)

Spec == Init /\ [][Next]_vars
-----------------------------------------------------------------------------
(* Properties *)

Completed == {r \in Reports : report[r].status = "completed"}

RowStatus == {"applied", "flagged", "error", "skipped"}

\* The counts of a completed report and the rows of its response tell what the
\* ledgers got from it: one contribution for each row applied or flagged, none
\* for the others, and no credit without a contribution.
RowsTellTheLedger ==
    \A r \in Completed :
        LET rows == report[r].rows
            own  == {x \in posted : x.report = r}
        IN  /\ {x.row : x \in own} = {k \in DOMAIN rows : rows[k].status \in {"applied", "flagged"}}
            /\ Cardinality(own) = report[r].processed
            /\ report[r].processed + report[r].errors + report[r].skipped = Len(report[r].file)
            /\ \A e \in credited : e.report = r =>
                   \E x \in own : x.row = e.row /\ rows[e.row].credit = e.credit

\* Two contributions for one job and one period come from two reports that were
\* processed at the same time: a file sent again later, or twice in one report,
\* is skipped.
PostedOncePerPeriod ==
    \A x, y \in posted : x # y /\ SamePeriod(x, y) => {x.report, y.report} \in met

\* The jobs a member holds side by side earn no more credit in a year than a cap
\* that was in force on one of the credited days, unless reports that credit them
\* were processed at the same time.
CapHolds ==
    \A e \in credited :
        LET year == OfYear(credited, e, Year(e.end))
        IN  e.group # None
            => \/ \E f, g \in year : {f.report, g.report} \in met
               \/ \E f \in year : AnnualCap[f.end] = None \/ CreditOf(year) <= AnnualCap[f.end]

\* A row whose credit the cap cut is never shown as plainly applied, although
\* _process_row sets "applied" after the cap has set "flagged".
CutCreditIsFlagged ==
    \A r \in Reports : \A k \in DOMAIN report[r].rows :
        LET row == report[r].rows[k]
            in  == report[r].file[k]
        IN  /\ row.status \in {"applied", "flagged"}
            /\ row.credit < Accrued(AccrualRule[in.end], in, row.job.percent)
            => row.status = "flagged"

\* The row a deficiency invoice would be calculated from.
BilledRow(r, k) ==
    LET row == report[r].rows[k]
        in  == report[r].file[k]
    IN  [status |-> row.status, type |-> IF row.job = None THEN Every ELSE row.job.type,
         gross |-> in.gross, employee |-> in.employee, employers |-> in.employer]

\* What the employer was warned of is what it can be billed for: with the rates
\* of the ingestion, a report whose rows end on one day has a deficiency exactly
\* when an applied row of a typed job was warned of a short contribution.
BilledIsWarned ==
    \A r \in Completed :
        LET rows == report[r].rows
            days == {report[r].file[k].end : k \in DOMAIN rows}
            short == {k \in DOMAIN rows : /\ rows[k].status = "flagged"
                                          /\ rows[k].job.type # Every
                                          /\ rows[k].warnings \cap {"employee", "employer"} # {}}
        IN  Cardinality(days) = 1 =>
              (short # {}) = (ReportDeficiency([k \in DOMAIN rows |-> BilledRow(r, k)], Rates,
                                report[r].employer, CHOOSE d \in days : TRUE) > 0)
=============================================================================
