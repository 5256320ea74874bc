----------------------- MODULE PayrollIngestionProofs -----------------------
(***************************************************************************)
(* What payroll ingestion guarantees for any reports, files, jobs, rates   *)
(* and configuration, however the reports overlap.                         *)
(***************************************************************************)
EXTENDS PayrollIngestion, ContributionRatesProofs

Posted == {"applied", "flagged"}

RateNames == {"employee", "employer"}
OtherNames == {"gross", "days", "employee_rate", "employer_rate", "plan_cap", "type", "credit_cap"}
Names == OtherNames \cup RateNames

\* Contributions, credit entries and reports.
Post == [report : Reports, row : Nat, job : Nat, start : Days, end : Days]
Entry == [report : Reports, row : Nat, member : STRING, group : STRING \cup {None},
          end : Days, credit : Nat]

IsWorking(p) ==
    /\ p = [status |-> "processing", employer |-> p.employer, file |-> p.file, rows |-> p.rows,
            posts |-> p.posts, credits |-> p.credits]
    /\ p.posts \in SUBSET Post
    /\ p.credits \in SUBSET Entry /\ IsFiniteSet(p.credits)
    /\ Len(p.rows) <= Len(p.file)

IsCompleted(p) ==
    /\ p.status = "completed" /\ p.posts = {} /\ p.credits = {}
    /\ p.processed = Count(p.rows, {"applied", "flagged"})
    /\ p.errors = Count(p.rows, {"error"})
    /\ p.skipped = Count(p.rows, {"skipped"})
    /\ Len(p.rows) = Len(p.file)

\* A report that started is on one of the files and has decided on its first rows.
IsStarted(p) ==
    /\ p.employer \in Employers /\ p.file \in Seq(RowInput)
    /\ \E S : p.rows \in Seq(S)
    /\ IsWorking(p) \/ IsCompleted(p)

PayrollType == /\ DOMAIN report = Reports
               /\ \A r \in Reports : report[r] = Absent \/ IsStarted(report[r])
               /\ posted \in SUBSET Post
               /\ credited \in SUBSET Entry /\ IsFiniteSet(credited)
               /\ met \in SUBSET SUBSET Reports

\* What a decision tells of the row it was made on.
Tells(d, in, employer, day) ==
    /\ d.status \in RowStatus
    /\ d.status \in Posted =>
        /\ d.job \in Jobs /\ d.job.employer = employer
        /\ d.status = "applied" => d.warnings = {}
        /\ d.credit < Accrued(AccrualRule[in.end], in, d.job.percent) => d.status = "flagged"
        /\ d.warnings \cap RateNames = RateWarnings(in, d.job, day)

RowsTell == \A r \in Reports : \A k \in DOMAIN report[r].rows :
    Tells(report[r].rows[k], report[r].file[k], report[r].employer, report[r].file[1].end)

\* The rows of a report that were posted, and what the ledgers have of it.
PostedRows(rows) == {k \in DOMAIN rows : rows[k].status \in Posted}
PostsOf(r) == report[r].posts \cup {x \in posted : x.report = r}
CreditsOf(r) == report[r].credits \cup {e \in credited : e.report = r}

PostsTell == \A r \in Reports :
    /\ {x.row : x \in PostsOf(r)} = PostedRows(report[r].rows)
    /\ \A x \in PostsOf(r) : x.report = r
    /\ \A x, y \in PostsOf(r) : x.row = y.row => x = y

CreditsTell == \A r \in Reports : \A e \in CreditsOf(r) :
    /\ e.report = r /\ e.row \in PostedRows(report[r].rows)
    /\ report[r].rows[e.row].credit = e.credit

OnlyCompletedPost ==
    /\ \A x \in posted : report[x.report].status = "completed"
    /\ \A e \in credited : report[e.report].status = "completed"

\* Reports at work at once have met, and only those repeat a job and a period.
AtWorkHaveMet == \A r, s \in Reports :
    r # s /\ report[r].status = "processing" /\ report[s].status = "processing" => {r, s} \in met

AllPosts == posted \cup UNION {report[r].posts : r \in Reports}
PeriodsMet == \A x, y \in AllPosts : x # y /\ SamePeriod(x, y) => {x.report, y.report} \in met

\* The credit of a year in a ledger of credit entries is within a cap, or has
\* overlapping reports to explain it.
CapOn(entries) == \A e \in entries :
    LET year == OfYear(entries, e, Year(e.end))
    IN  e.group # None
        => \/ \E f, g \in year : {f.report, g.report} \in met
           \/ \E f \in year : AnnualCap[f.end] = None \/ CreditOf(year) <= AnnualCap[f.end]

CapsSeen == CapOn(credited) /\ \A r \in Reports : CapOn(CreditsSeen(r))

PayrollInv == /\ PayrollType /\ RowsTell
              /\ PostsTell /\ CreditsTell /\ OnlyCompletedPost
              /\ AtWorkHaveMet /\ PeriodsMet /\ CapsSeen
-----------------------------------------------------------------------------
(* Credit *)

\* One entry more adds its credit.
LEMMA CreditOfOneMore ==
    ASSUME NEW S, IsFiniteSet(S), NEW e, e \notin S, \A x \in S \cup {e} : x.credit \in Nat
    PROVE  CreditOf(S \cup {e}) = CreditOf(S) + e.credit /\ CreditOf(S) \in Nat
<1> DEFINE T == S \cup {e}
           w == [x \in T |-> x.credit]
           v == [x \in S |-> x.credit]
<1>1. IsFiniteSet(T)
  BY FS_AddElement
<1>2. CreditOf(T) = SumFunctionOnSet(w, T) /\ CreditOf(S) = SumFunctionOnSet(v, S)
  BY DEF CreditOf, SumFunction
<1>3. \A x \in S : v[x] = w[x]
  OBVIOUS
<1>4. w[e] = e.credit /\ \A x \in T : w[x] \in Nat
  OBVIOUS
<1> HIDE DEF v, w
<1>5. SumFunctionOnSet(v, S) = SumFunctionOnSet(w, S)
  BY <1>3, SumIsLocal
<1>6. SumFunctionOnSet(w, T) = SumFunctionOnSet(w, S) + w[e] /\ SumFunctionOnSet(w, S) \in Nat
  BY <1>4, AddOne, SumOfNaturals
<1> QED  BY <1>2, <1>4, <1>5, <1>6

\* The credit of a ledger is whole.
LEMMA CreditIsNatural ==
    ASSUME NEW S, IsFiniteSet(S), \A x \in S : x.credit \in Nat
    PROVE  CreditOf(S) \in Nat
<1> DEFINE v == [x \in S |-> x.credit]
<1>1. \A x \in S : v[x] \in Nat
  OBVIOUS
<1>2. CreditOf(S) = SumFunctionOnSet(v, S)
  BY DEF CreditOf, SumFunction
<1> HIDE DEF v
<1> QED  BY <1>1, <1>2, SumOfNaturals

\* Hundredths of a month.
LEMMA AccruedIsWhole ==
    ASSUME NEW rule, NEW in \in RowInput, NEW percent \in 1..100
    PROVE  Accrued(rule, in, percent) \in Int
<1>1. in.start \in Int /\ in.end \in Int /\ MonthDays \in Nat \ {0}
  BY DatesAssumption, CapAssumption DEF RowInput
<1>2. Months(in.start, in.end) \in Int
  BY <1>1 DEF Months, Month
<1> DEFINE m == Months(in.start, in.end)
           p == IF rule = "monthly_floor" THEN 100 ELSE percent
<1>3. p \in Int /\ Accrued(rule, in, percent) = IF in.days = 0 THEN 0 ELSE m * p
  BY DEF Accrued
<1> HIDE DEF m, p
<1> QED  BY <1>2, <1>3 DEF m

\* Credit within a cap and what the year has already; or no cap, no group.
LEMMA CappedCredit ==
    ASSUME NEW E \in SUBSET Entry, IsFiniteSet(E), NEW job \in Jobs, NEW day \in Days,
           NEW full \in Int
    PROVE  /\ Capped(E, job, day, full) \in Int
           /\ CreditOfYear(E, job, Year(day)) \in Nat
           /\ Capped(E, job, day, full) > 0 =>
                \/ job.group = None
                \/ AnnualCap[day] = None
                \/ /\ AnnualCap[day] \in Nat
                   /\ CreditOfYear(E, job, Year(day)) + Capped(E, job, day, full) <= AnnualCap[day]
<1> DEFINE year == OfYear(E, job, Year(day))
           sum == CreditOf(year)
<1>1. sum \in Nat
  <2>1. IsFiniteSet(year) /\ \A x \in year : x.credit \in Nat
    BY FS_Subset DEF OfYear, Entry
  <2> HIDE DEF year
  <2> QED  BY <2>1, CreditIsNatural
<1>2. CreditOfYear(E, job, Year(day)) = sum
  BY DEF CreditOfYear
<1>3. AnnualCap[day] = None \/ AnnualCap[day] \in Nat
  BY CapAssumption
<1> HIDE DEF sum
<1>4. Capped(E, job, day, full) = IF full = 0 \/ job.group = None \/ AnnualCap[day] = None THEN full
                                  ELSE AtLeast(0, AtMost(full, AnnualCap[day] - sum))
  BY <1>2 DEF Capped
<1> QED  BY <1>1, <1>2, <1>3, <1>4 DEF AtLeast, AtMost
-----------------------------------------------------------------------------
(* One row *)

\* What the checks warn of, beside the rates.
LEMMA WarningNames ==
    ASSUME NEW in \in RowInput, NEW v, NEW job, NEW allowed, NEW day
    PROVE  /\ FundWarnings(in, v) \subseteq OtherNames
           /\ PlanWarnings(in, v) \subseteq OtherNames
           /\ TypeWarnings(job, allowed) \subseteq OtherNames
           /\ RateWarnings(in, job, day) \subseteq RateNames
BY DEF FundWarnings, PlanWarnings, TypeWarnings, RateWarnings, Variances, OtherNames, RateNames

\* A job that matches is one of the member's at the employer.
LEMMA MatchedJob ==
    ASSUME NEW in, NEW employer, JobOf(in, employer) # {}
    PROVE  LET job == CHOOSE j \in JobOf(in, employer) : TRUE
           IN  job \in Jobs /\ job.employer = employer /\ job.member = in.member
BY DEF JobOf

\* What is true of a decision to post for a job, with the warnings of its rates.
PostsFor(d, in, job, rates, P, E) ==
    LET full == Accrued(AccrualRule[in.end], in, job.percent)
    IN  d.status \in Posted =>
            /\ d.job = job
            /\ d.status = "applied" => d.warnings = {}
            /\ d.credit < full => d.status = "flagged"
            /\ d.warnings \cap RateNames = rates
            /\ d.credit = Capped(E, job, in.end, full)
            /\ \A x \in P : ~SamePeriod(x, [job |-> job.id, start |-> in.start, end |-> in.end])

\* A row that is not rejected.
LEMMA PostingTells ==
    ASSUME NEW in, NEW job, NEW P, NEW E, NEW warnings, NEW rates,
           warnings \subseteq OtherNames, rates \subseteq RateNames,
           NEW d, d = Posting(in, job, warnings \cup rates, P, E)
    PROVE  d.status \in RowStatus /\ PostsFor(d, in, job, rates, P, E)
<1> DEFINE full == Accrued(AccrualRule[in.end], in, job.percent)
           credit == Capped(E, job, in.end, full)
           some == warnings \cup rates
           all == IF credit < full THEN some \cup {"credit_cap"} ELSE some
           row == [job |-> job.id, start |-> in.start, end |-> in.end]
<1>1. all \cap RateNames = rates /\ (credit < full => all # {})
  BY DEF OtherNames, RateNames
<1>2. d = IF \E x \in P : SamePeriod(x, row) THEN Decision("skipped", some, job, 0, TRUE)
          ELSE IF AccrualRule[in.end] = None THEN Decision("error", some, job, 0, TRUE)
          ELSE Decision(Promoted(all), all, job, credit, TRUE)
  BY DEF Posting
<1> HIDE DEF all, some, row, full, credit
<1>3. CASE d = Decision("skipped", some, job, 0, TRUE) \/ d = Decision("error", some, job, 0, TRUE)
  <2>1. d.status = "skipped" \/ d.status = "error"
    BY <1>3 DEF Decision
  <2> QED  BY <2>1 DEF PostsFor, RowStatus, Posted
<1>4. CASE /\ d = Decision(Promoted(all), all, job, credit, TRUE)
           /\ ~\E x \in P : SamePeriod(x, row)
  <2>1. /\ d.warnings = all /\ d.job = job /\ d.credit = credit
        /\ d.status = Promoted(all)
    BY <1>4 DEF Decision
  <2>2. IF all = {} THEN Promoted(all) = "applied" ELSE Promoted(all) = "flagged"
    BY DEF Promoted
  <2> QED  BY <1>1, <1>4, <2>1, <2>2 DEF PostsFor, RowStatus, row, full, credit
<1> QED  BY <1>2, <1>3, <1>4

\* Every decision on a row tells what was done with it.
LEMMA ProcessTells ==
    ASSUME NEW in \in RowInput, NEW employer, NEW day, NEW P, NEW E,
           NEW d, d = Process(in, employer, day, P, E)
    PROVE  /\ Tells(d, in, employer, day)
           /\ d.status \in Posted =>
                /\ d.job.member = in.member
                /\ d.credit = Capped(E, d.job, in.end, Accrued(AccrualRule[in.end], in, d.job.percent))
                /\ \A x \in P : ~SamePeriod(x, [job |-> d.job.id, start |-> in.start, end |-> in.end])
<1> DEFINE v == Validation[day]
           fund == FundWarnings(in, v)
           plan == fund \cup PlanWarnings(in, v)
           jobs == JobOf(in, employer)
           job == CHOOSE j \in jobs : TRUE
           type == plan \cup TypeWarnings(job, AllowedTypes[day])
           rates == RateWarnings(in, job, day)
<1>1. type \subseteq OtherNames /\ rates \subseteq RateNames
  BY WarningNames
<1>2. \/ d = Refused({}, FALSE) \/ d = Refused(fund, FALSE) \/ d = Refused(fund, TRUE)
      \/ d = Refused(plan, TRUE) \/ d = Refused(type, TRUE)
      \/ jobs # {} /\ d = Posting(in, job, type \cup rates, P, E)
  BY DEF Process, Matched
<1> HIDE DEF fund, plan, type, rates
<1>3. CASE jobs # {} /\ d = Posting(in, job, type \cup rates, P, E)
  <2>1. job \in Jobs /\ job.employer = employer /\ job.member = in.member
    BY <1>3, MatchedJob
  <2> HIDE DEF job, jobs
  <2>2. d.status \in RowStatus /\ PostsFor(d, in, job, rates, P, E)
    BY <1>1, <1>3, PostingTells
  <2>3. Tells(d, in, employer, day)
    BY <2>1, <2>2 DEF Tells, PostsFor, rates
  <2> QED  BY <2>1, <2>2, <2>3 DEF PostsFor
<1>4. CASE ~(jobs # {} /\ d = Posting(in, job, type \cup rates, P, E))
  <2>1. d.status = "error"
    BY <1>2, <1>4 DEF Refused, Decision
  <2> QED  BY <2>1 DEF Tells, Posted, RowStatus
<1> QED  BY <1>3, <1>4
-----------------------------------------------------------------------------
(* What the next row of a report does *)

NextRow(r) == Len(report[r].rows) + 1
Given(r) == report[r].file[NextRow(r)]
Decided(r) == Process(Given(r), report[r].employer, report[r].file[1].end, PostsSeen(r), CreditsSeen(r))

NewPosts(r) ==
    {x \in {[report |-> r, row |-> NextRow(r), job |-> Decided(r).job.id,
             start |-> Given(r).start, end |-> Given(r).end]} : Decided(r).status \in Posted}

NewCredits(r) ==
    {e \in {[report |-> r, row |-> NextRow(r), member |-> Given(r).member,
             group |-> Decided(r).job.group, end |-> Given(r).end, credit |-> Decided(r).credit]} :
        Decided(r).status \in Posted /\ Decided(r).credit > 0}

\* A row at the end of a sequence.
LEMMA OneRowMore ==
    ASSUME NEW S, NEW rows \in Seq(S), NEW d
    PROVE  /\ Append(rows, d) \in Seq(S \cup {d})
           /\ Len(Append(rows, d)) = Len(rows) + 1 /\ Len(rows) \in Nat
           /\ DOMAIN rows = 1..Len(rows)
           /\ DOMAIN Append(rows, d) = DOMAIN rows \cup {Len(rows) + 1}
           /\ Len(rows) + 1 \notin DOMAIN rows
           /\ \A k \in DOMAIN rows : Append(rows, d)[k] = rows[k]
           /\ Append(rows, d)[Len(rows) + 1] = d
<1>1. rows \in Seq(S \cup {d})
  OBVIOUS
<1> QED  BY <1>1

\* One report changes.
LEMMA OneReport ==
    ASSUME PayrollType, NEW r \in Reports, NEW p, report' = [report EXCEPT ![r] = p]
    PROVE  /\ DOMAIN report' = Reports /\ report'[r] = p
           /\ \A s \in Reports \ {r} : report'[s] = report[s]
BY DEF PayrollType

\* A report that is being processed has its columns.
LEMMA AtWork ==
    ASSUME PayrollType, NEW r \in Reports, report[r].status = "processing"
    PROVE  IsStarted(report[r]) /\ IsWorking(report[r])
BY DEF PayrollType, Absent, IsStarted, IsCompleted

\* What a row changes.
LEMMA RowEffect ==
    ASSUME PayrollType, NEW r \in Reports, ProcessRow(r)
    PROVE  /\ report[r].status = "processing"
           /\ NextRow(r) \in Nat /\ NextRow(r) <= Len(report[r].file) /\ Given(r) \in RowInput
           /\ DOMAIN report' = Reports
           /\ \A s \in Reports \ {r} : report'[s] = report[s]
           /\ report'[r] = [status |-> "processing", employer |-> report[r].employer,
                            file |-> report[r].file, rows |-> Append(report[r].rows, Decided(r)),
                            posts |-> report[r].posts \cup NewPosts(r),
                            credits |-> report[r].credits \cup NewCredits(r)]
           /\ UNCHANGED <<posted, credited, met>>
<1> DEFINE p == report[r]
           d == Decided(r)
           k == NextRow(r)
           applied == d.status \in {"applied", "flagged"}
           post == [report |-> r, row |-> k, job |-> d.job.id, start |-> Given(r).start, end |-> Given(r).end]
           entry == [report |-> r, row |-> k, member |-> Given(r).member, group |-> d.job.group,
                     end |-> Given(r).end, credit |-> d.credit]
           posts == IF applied THEN p.posts \cup {post} ELSE p.posts
           credits == IF applied /\ d.credit > 0 THEN p.credits \cup {entry} ELSE p.credits
           after == [p EXCEPT !.rows = Append(p.rows, d), !.posts = posts, !.credits = credits]
<1>1. p.status = "processing" /\ k <= Len(p.file) /\ UNCHANGED <<posted, credited, met>>
  BY DEF ProcessRow, NextRow
<1>2. report' = [report EXCEPT ![r] = after]
  BY DEF ProcessRow, NextRow, Given, Decided
<1>3. IsStarted(p) /\ IsWorking(p)
  BY <1>1, AtWork
<1>4. k \in Nat /\ Given(r) \in RowInput
  <2>1. Len(p.rows) \in Nat /\ p.file \in Seq(RowInput)
    BY <1>3 DEF IsStarted
  <2> QED  BY <1>1, <2>1 DEF NextRow, Given
<1>5. p.posts \cup NewPosts(r) = posts /\ p.credits \cup NewCredits(r) = credits
  BY DEF NewPosts, NewCredits, Posted
<1>6. after = [p EXCEPT !.rows = Append(p.rows, d), !.posts = posts, !.credits = credits]
  OBVIOUS
<1> HIDE DEF posts, credits, k, d, after, p
<1>7. after = [status |-> "processing", employer |-> p.employer, file |-> p.file,
               rows |-> Append(p.rows, d), posts |-> p.posts \cup NewPosts(r),
               credits |-> p.credits \cup NewCredits(r)]
  <2>1. PICK e, f, a, b, c : p = [status |-> "processing", employer |-> e, file |-> f, rows |-> a,
                                  posts |-> b, credits |-> c]
    BY <1>3 DEF IsWorking
  <2>2. after = [status |-> "processing", employer |-> e, file |-> f,
                 rows |-> Append(p.rows, d), posts |-> posts, credits |-> credits]
    BY <1>6, <2>1
  <2>3. p.employer = e /\ p.file = f
    BY <2>1
  <2> QED  BY <1>5, <2>2, <2>3
<1>8. DOMAIN report' = Reports /\ report'[r] = after /\ \A s \in Reports \ {r} : report'[s] = report[s]
  BY <1>2, OneReport
<1> QED  BY <1>1, <1>4, <1>7, <1>8 DEF d, k, p

\* What the ledgers see is typed.
LEMMA LedgersSeen ==
    ASSUME PayrollType, NEW r \in Reports
    PROVE  /\ PostsSeen(r) \in SUBSET Post
           /\ CreditsSeen(r) \in SUBSET Entry /\ IsFiniteSet(CreditsSeen(r))
<1>1. /\ report[r].posts \in SUBSET Post
      /\ report[r].credits \in SUBSET Entry /\ IsFiniteSet(report[r].credits)
  <2>1. CASE report[r] = Absent
    BY <2>1, FS_EmptySet DEF Absent
  <2>2. CASE IsStarted(report[r])
    <3>1. CASE IsWorking(report[r])
      BY <3>1 DEF IsWorking
    <3>2. CASE IsCompleted(report[r])
      BY <3>2, FS_EmptySet DEF IsCompleted
    <3> QED  BY <2>2, <3>1, <3>2 DEF IsStarted
  <2> QED  BY <2>1, <2>2 DEF PayrollType
<1>2. IsFiniteSet(CreditsSeen(r))
  BY <1>1, FS_Union DEF PayrollType, CreditsSeen
<1> QED  BY <1>1, <1>2 DEF PayrollType, PostsSeen, CreditsSeen

\* The new contribution and the new credit.
LEMMA RowPosts ==
    ASSUME PayrollType, NEW r \in Reports, Given(r) \in RowInput, NextRow(r) \in Nat
    PROVE  /\ Tells(Decided(r), Given(r), report[r].employer, report[r].file[1].end)
           /\ NewPosts(r) \in SUBSET Post /\ NewCredits(r) \in SUBSET Entry
           /\ \A x \in PostsSeen(r), y \in NewPosts(r) : ~SamePeriod(x, y)
           /\ \A e \in NewCredits(r) :
                \/ e.group = None
                \/ AnnualCap[e.end] = None
                \/ AnnualCap[e.end] \in Nat
                   /\ CreditOf(OfYear(CreditsSeen(r), e, Year(e.end))) + e.credit <= AnnualCap[e.end]
<1> DEFINE in == Given(r)
           d == Decided(r)
           full == Accrued(AccrualRule[in.end], in, d.job.percent)
<1>1. /\ Tells(d, in, report[r].employer, report[r].file[1].end)
      /\ d.status \in Posted =>
           /\ d.job.member = in.member
           /\ d.credit = Capped(CreditsSeen(r), d.job, in.end, full)
           /\ \A x \in PostsSeen(r) : ~SamePeriod(x, [job |-> d.job.id, start |-> in.start, end |-> in.end])
  BY ProcessTells DEF Decided
<1>2. d.status \in Posted => d.job \in Jobs /\ d.job \in Job
  BY <1>1, JobsAssumption DEF Tells
<1>3. in.member \in STRING /\ in.start \in Days /\ in.end \in Days
  BY DEF RowInput
<1>4. ASSUME d.status \in Posted
      PROVE  /\ d.credit \in Int
             /\ d.credit > 0 => \/ d.job.group = None
                                \/ AnnualCap[in.end] = None
                                \/ /\ AnnualCap[in.end] \in Nat
                                   /\ CreditOfYear(CreditsSeen(r), d.job, Year(in.end)) + d.credit <= AnnualCap[in.end]
  <2>1. full \in Int
    BY <1>2, <1>4, AccruedIsWhole DEF Job
  <2> HIDE DEF full, d, in
  <2> QED  BY <1>1, <1>2, <1>3, <1>4, <2>1, LedgersSeen, CappedCredit
<1> HIDE DEF full
<1>5. NewPosts(r) \in SUBSET Post
  BY <1>2, <1>3 DEF NewPosts, Post, Job
<1>6. NewCredits(r) \in SUBSET Entry
  BY <1>2, <1>3, <1>4 DEF NewCredits, Entry, Job
<1>7. \A x \in PostsSeen(r), y \in NewPosts(r) : ~SamePeriod(x, y)
  BY <1>1 DEF NewPosts, SamePeriod
<1>8. ASSUME NEW e \in NewCredits(r)
      PROVE  \/ e.group = None
             \/ AnnualCap[e.end] = None
             \/ AnnualCap[e.end] \in Nat
                /\ CreditOf(OfYear(CreditsSeen(r), e, Year(e.end))) + e.credit <= AnnualCap[e.end]
  <2>1. d.status \in Posted /\ d.credit > 0 /\ e.credit = d.credit /\ e.end = in.end
        /\ e.group = d.job.group /\ e.member = d.job.member
    BY <1>1 DEF NewCredits
  <2>2. CreditOfYear(CreditsSeen(r), d.job, Year(in.end)) = CreditOf(OfYear(CreditsSeen(r), e, Year(e.end)))
    BY <2>1 DEF CreditOfYear, OfYear
  <2> QED  BY <1>4, <2>1, <2>2
<1> QED  BY <1>1, <1>5, <1>6, <1>7, <1>8
-----------------------------------------------------------------------------
(* Caps *)

\* More pairs have met: nothing else is asked of the credit.
LEMMA CapOfMoreMet ==
    ASSUME NEW S, CapOn(S), met \subseteq met'
    PROVE  CapOn(S)'
BY DEF CapOn, OfYear

\* One entry more, within the cap of its day.
LEMMA CapOneMore ==
    ASSUME NEW S \in SUBSET Entry, IsFiniteSet(S), CapOn(S), NEW e \in Entry, e \notin S,
           \/ e.group = None
           \/ AnnualCap[e.end] = None
           \/ AnnualCap[e.end] \in Nat /\ CreditOf(OfYear(S, e, Year(e.end))) + e.credit <= AnnualCap[e.end]
    PROVE  CapOn(S \cup {e})
<1> SUFFICES ASSUME NEW x \in S \cup {e}, x.group # None,
                    NEW year, year = OfYear(S \cup {e}, x, Year(x.end))
             PROVE  \/ \E f, g \in year : {f.report, g.report} \in met
                    \/ \E f \in year : AnnualCap[f.end] = None \/ CreditOf(year) <= AnnualCap[f.end]
  BY DEF CapOn
<1>1. CASE e \in year
  <2> DEFINE before == OfYear(S, e, Year(e.end))
  <2>1. year = before \cup {e} /\ e \notin before /\ e.group # None
    BY <1>1 DEF OfYear
  <2>2. IsFiniteSet(before) /\ \A y \in before \cup {e} : y.credit \in Nat
    BY FS_Subset DEF OfYear, Entry
  <2> HIDE DEF before
  <2>3. CreditOf(year) = CreditOf(before) + e.credit
    BY <2>1, <2>2, CreditOfOneMore
  <2>4. AnnualCap[e.end] = None \/ CreditOf(year) <= AnnualCap[e.end]
    BY <2>1, <2>3 DEF before
  <2> QED  BY <1>1, <2>4
<1>2. CASE e \notin year
  <2>1. x \in S /\ year = OfYear(S, x, Year(x.end))
    BY <1>2 DEF OfYear
  <2> QED  BY <2>1 DEF CapOn
<1> QED  BY <1>1, <1>2

\* The entries of two reports that met, beside what was committed.
LEMMA CapTogether ==
    ASSUME NEW S, NEW A, NEW B, CapOn(S \cup A), CapOn(S \cup B),
           \A a \in A, b \in B : {a.report, b.report} \in met
    PROVE  CapOn((S \cup A) \cup B)
<1> DEFINE all == (S \cup A) \cup B
<1> SUFFICES ASSUME NEW x \in all, x.group # None, NEW year, year = OfYear(all, x, Year(x.end))
             PROVE  \/ \E f, g \in year : {f.report, g.report} \in met
                    \/ \E f \in year : AnnualCap[f.end] = None \/ CreditOf(year) <= AnnualCap[f.end]
  BY DEF CapOn
<1>0. x \in year
  BY DEF OfYear
<1>1. CASE year \cap A = {}
  <2>1. x \in S \cup B /\ year = OfYear(S \cup B, x, Year(x.end))
    BY <1>0, <1>1 DEF OfYear
  <2> QED  BY <2>1 DEF CapOn
<1>2. CASE year \cap B = {}
  <2>1. x \in S \cup A /\ year = OfYear(S \cup A, x, Year(x.end))
    BY <1>0, <1>2 DEF OfYear
  <2> QED  BY <2>1 DEF CapOn
<1>3. CASE year \cap A # {} /\ year \cap B # {}
  BY <1>3
<1> QED  BY <1>1, <1>2, <1>3
-----------------------------------------------------------------------------
(* Every step keeps the invariant *)

\* What is new and what is not after a row.
RowAdded(r) ==
    LET rows == Append(report[r].rows, Decided(r))
    IN  /\ report[r].status = "processing" /\ IsStarted(report[r]) /\ IsWorking(report[r])
        /\ NextRow(r) \in Nat /\ NextRow(r) <= Len(report[r].file) /\ Given(r) \in RowInput
        /\ DOMAIN report' = Reports
        /\ \A s \in Reports \ {r} : report'[s] = report[s]
        /\ report'[r] = [status |-> "processing", employer |-> report[r].employer,
                         file |-> report[r].file, rows |-> rows,
                         posts |-> report[r].posts \cup NewPosts(r),
                         credits |-> report[r].credits \cup NewCredits(r)]
        /\ UNCHANGED <<posted, credited, met>>
        /\ \E S : rows \in Seq(S)
        /\ Len(rows) = NextRow(r)
        /\ DOMAIN rows = DOMAIN report[r].rows \cup {NextRow(r)} /\ NextRow(r) \notin DOMAIN report[r].rows
        /\ \A k \in DOMAIN report[r].rows : rows[k] = report[r].rows[k]
        /\ rows[NextRow(r)] = Decided(r)
        /\ Tells(Decided(r), Given(r), report[r].employer, report[r].file[1].end)
        /\ NewPosts(r) \in SUBSET Post /\ NewCredits(r) \in SUBSET Entry

\* A row adds a decision and what it posts.
LEMMA RowAdds ==
    ASSUME PayrollType, NEW r \in Reports, ProcessRow(r)
    PROVE  RowAdded(r)
<1>1. /\ report[r].status = "processing"
      /\ NextRow(r) \in Nat /\ NextRow(r) <= Len(report[r].file) /\ Given(r) \in RowInput
      /\ DOMAIN report' = Reports
      /\ \A s \in Reports \ {r} : report'[s] = report[s]
      /\ report'[r] = [status |-> "processing", employer |-> report[r].employer,
                       file |-> report[r].file, rows |-> Append(report[r].rows, Decided(r)),
                       posts |-> report[r].posts \cup NewPosts(r),
                       credits |-> report[r].credits \cup NewCredits(r)]
      /\ UNCHANGED <<posted, credited, met>>
  BY RowEffect
<1>2. IsStarted(report[r]) /\ IsWorking(report[r])
  BY <1>1, AtWork
<1>3. PICK S : report[r].rows \in Seq(S)
  BY <1>2 DEF IsStarted
<1>4. /\ Append(report[r].rows, Decided(r)) \in Seq(S \cup {Decided(r)})
      /\ Len(Append(report[r].rows, Decided(r))) = NextRow(r)
      /\ DOMAIN Append(report[r].rows, Decided(r)) = DOMAIN report[r].rows \cup {NextRow(r)}
      /\ NextRow(r) \notin DOMAIN report[r].rows
      /\ \A k \in DOMAIN report[r].rows : Append(report[r].rows, Decided(r))[k] = report[r].rows[k]
      /\ Append(report[r].rows, Decided(r))[NextRow(r)] = Decided(r)
  BY <1>3, OneRowMore DEF NextRow
<1>5. /\ Tells(Decided(r), Given(r), report[r].employer, report[r].file[1].end)
      /\ NewPosts(r) \in SUBSET Post /\ NewCredits(r) \in SUBSET Entry
  BY <1>1, RowPosts
<1> QED  BY <1>1, <1>2, <1>4, <1>5 DEF RowAdded

\* The next row of a report: types, and what the decisions tell.
LEMMA RowKeepsTypes ==
    ASSUME PayrollInv, NEW r \in Reports, ProcessRow(r)
    PROVE  PayrollType' /\ RowsTell'
<1>0. PayrollType
  BY DEF PayrollInv
<1>1. RowAdded(r)
  BY <1>0, RowAdds
<1>2. PayrollType'
  <2>1. IsStarted(report'[r])
    <3>1. IsFiniteSet(report[r].credits \cup NewCredits(r))
      <4>1. IsFiniteSet(NewCredits(r))
        <5> DEFINE e == [report |-> r, row |-> NextRow(r), member |-> Given(r).member,
                         group |-> Decided(r).job.group, end |-> Given(r).end,
                         credit |-> Decided(r).credit]
        <5>1. IsFiniteSet({e}) /\ NewCredits(r) \subseteq {e}
          BY FS_Singleton DEF NewCredits
        <5> QED  BY <5>1, FS_Subset
      <4> QED  BY <1>1, <4>1, FS_Union DEF RowAdded, IsWorking
    <3>2. IsWorking(report'[r])
      BY <1>1, <3>1 DEF RowAdded, IsWorking
    <3> QED  BY <1>1, <3>2 DEF RowAdded, IsStarted
  <2>2. ASSUME NEW s \in Reports \ {r} PROVE report'[s] = Absent \/ IsStarted(report'[s])
    BY <1>0, <1>1 DEF RowAdded, PayrollType
  <2> QED  BY <1>0, <1>1, <2>1, <2>2 DEF RowAdded, PayrollType
<1>3. RowsTell'
  <2>1. ASSUME NEW s \in Reports \ {r}, NEW k \in DOMAIN report'[s].rows
        PROVE  Tells(report'[s].rows[k], report'[s].file[k], report'[s].employer, report'[s].file[1].end)
    BY <1>1, <2>1 DEF RowAdded, PayrollInv, RowsTell
  <2>2. ASSUME NEW k \in DOMAIN report'[r].rows
        PROVE  Tells(report'[r].rows[k], report'[r].file[k], report'[r].employer, report'[r].file[1].end)
    <3>1. CASE k = NextRow(r)
      BY <1>1, <3>1 DEF RowAdded, Given
    <3>2. CASE k \in DOMAIN report[r].rows
      BY <1>1, <3>2 DEF RowAdded, PayrollInv, RowsTell
    <3> QED  BY <1>1, <2>2, <3>1, <3>2 DEF RowAdded
  <2>3. \A s \in Reports : \A k \in DOMAIN report'[s].rows :
            Tells(report'[s].rows[k], report'[s].file[k], report'[s].employer, report'[s].file[1].end)
    BY <2>1, <2>2
  <2> QED  BY <2>3 DEF RowsTell, Tells, RateWarnings, Accrued
<1> QED  BY <1>2, <1>3

\* The next row of a report: the ledgers.
LEMMA RowKeepsLedgers ==
    ASSUME PayrollInv, NEW r \in Reports, ProcessRow(r)
    PROVE  PostsTell' /\ CreditsTell' /\ OnlyCompletedPost' /\ AtWorkHaveMet'
<1>0. PayrollType
  BY DEF PayrollInv
<1>1. RowAdded(r)
  BY <1>0, RowAdds
<1> DEFINE k == NextRow(r)
           before == report[r].rows
           after == report'[r].rows
<1>2. /\ DOMAIN after = DOMAIN before \cup {k} /\ k \notin DOMAIN before
      /\ \A i \in DOMAIN before : after[i] = before[i]
      /\ after[k] = Decided(r)
      /\ \A s \in Reports \ {r} : report'[s] = report[s]
  BY <1>1 DEF RowAdded
<1>3. /\ \A x \in NewPosts(r) : x.report = r /\ x.row = k /\ Decided(r).status \in Posted
      /\ \A x, y \in NewPosts(r) : x = y
      /\ Decided(r).status \in Posted => NewPosts(r) # {}
      /\ \A e \in NewCredits(r) : /\ e.report = r /\ e.row = k /\ e.credit = Decided(r).credit
                                  /\ Decided(r).status \in Posted
  <2> DEFINE post == [report |-> r, row |-> k, job |-> Decided(r).job.id,
                      start |-> Given(r).start, end |-> Given(r).end]
  <2>1. /\ NewPosts(r) = IF Decided(r).status \in Posted THEN {post} ELSE {}
        /\ post.report = r /\ post.row = k
    BY DEF NewPosts
  <2>2. \A e \in NewCredits(r) : /\ e.report = r /\ e.row = k /\ e.credit = Decided(r).credit
                                 /\ Decided(r).status \in Posted
    BY DEF NewCredits
  <2> HIDE DEF post
  <2> QED  BY <2>1, <2>2
<1>4. /\ PostsOf(r)' = PostsOf(r) \cup NewPosts(r)
      /\ CreditsOf(r)' = CreditsOf(r) \cup NewCredits(r)
      /\ \A s \in Reports \ {r} : PostsOf(s)' = PostsOf(s) /\ CreditsOf(s)' = CreditsOf(s)
  BY <1>1 DEF RowAdded, PostsOf, CreditsOf
<1>5. /\ PostedRows(before) \subseteq PostedRows(after)
      /\ PostedRows(after) \subseteq PostedRows(before) \cup {k}
      /\ k \notin PostedRows(before)
      /\ k \in PostedRows(after) <=> Decided(r).status \in Posted
  BY <1>2 DEF PostedRows
<1>6. PostsTell'
  <2>1. ASSUME NEW s \in Reports \ {r}
        PROVE  /\ {x.row : x \in PostsOf(s)'} = PostedRows(report'[s].rows)
               /\ \A x \in PostsOf(s)' : x.report = s
               /\ \A x, y \in PostsOf(s)' : x.row = y.row => x = y
    BY <1>2, <1>4 DEF PayrollInv, PostsTell
  <2>2. /\ {x.row : x \in PostsOf(r)'} = PostedRows(after)
        /\ \A x \in PostsOf(r)' : x.report = r
        /\ \A x, y \in PostsOf(r)' : x.row = y.row => x = y
    <3>1. /\ {x.row : x \in PostsOf(r)} = PostedRows(before)
          /\ \A x \in PostsOf(r) : x.report = r
          /\ \A x, y \in PostsOf(r) : x.row = y.row => x = y
      BY DEF PayrollInv, PostsTell
    <3>2. \A x \in PostsOf(r) : x.row \in PostedRows(before) /\ x.row # k
      BY <1>5, <3>1
    <3> HIDE DEF k, before, after
    <3>3. \A x \in PostsOf(r)' : x \in PostsOf(r) \/ x \in NewPosts(r)
      BY <1>4
    <3>4. {x.row : x \in PostsOf(r)'} = PostedRows(after)
      <4>1. ASSUME NEW x \in PostsOf(r)' PROVE x.row \in PostedRows(after)
        BY <1>3, <1>5, <3>2, <3>3
      <4>2. ASSUME NEW i \in PostedRows(after) PROVE \E x \in PostsOf(r)' : x.row = i
        <5>1. CASE i \in PostedRows(before)
          BY <1>4, <3>1, <5>1
        <5>2. CASE i = k
          BY <1>3, <1>4, <1>5, <4>2, <5>2
        <5> QED  BY <1>5, <5>1, <5>2
      <4> QED  BY <4>1, <4>2
    <3>5. \A x \in PostsOf(r)' : x.report = r
      BY <1>3, <3>1, <3>3
    <3>6. \A x, y \in PostsOf(r)' : x.row = y.row => x = y
      BY <1>3, <3>1, <3>2, <3>3
    <3> QED  BY <3>4, <3>5, <3>6
  <2>3. \A s \in Reports :
            /\ {x.row : x \in PostsOf(s)'} = PostedRows(report'[s].rows)
            /\ \A x \in PostsOf(s)' : x.report = s
            /\ \A x, y \in PostsOf(s)' : x.row = y.row => x = y
    BY <2>1, <2>2
  <2> QED  BY <2>3 DEF PostsTell, PostedRows
<1>7. CreditsTell'
  <2>1. ASSUME NEW s \in Reports \ {r}, NEW e \in CreditsOf(s)'
        PROVE  /\ e.report = s /\ e.row \in PostedRows(report'[s].rows)
               /\ report'[s].rows[e.row].credit = e.credit
    BY <1>2, <1>4, <2>1 DEF PayrollInv, CreditsTell
  <2>2. ASSUME NEW e \in CreditsOf(r)'
        PROVE  e.report = r /\ e.row \in PostedRows(after) /\ after[e.row].credit = e.credit
    <3>1. CASE e \in CreditsOf(r)
      <4>1. e.report = r /\ e.row \in PostedRows(before) /\ before[e.row].credit = e.credit
        BY <3>1 DEF PayrollInv, CreditsTell
      <4>2. e.row \in DOMAIN before
        BY <4>1 DEF PostedRows
      <4> QED  BY <1>2, <1>5, <4>1, <4>2
    <3>2. CASE e \in NewCredits(r)
      BY <1>2, <1>3, <1>5, <3>2
    <3> QED  BY <1>4, <2>2, <3>1, <3>2
  <2>3. \A s \in Reports : \A e \in CreditsOf(s)' :
            /\ e.report = s /\ e.row \in PostedRows(report'[s].rows)
            /\ report'[s].rows[e.row].credit = e.credit
    BY <2>1, <2>2
  <2> QED  BY <2>3 DEF CreditsTell, PostedRows
<1>8. OnlyCompletedPost'
  <2>1. ASSUME NEW x \in posted PROVE report'[x.report].status = "completed"
    BY <1>0, <1>1 DEF RowAdded, PayrollInv, OnlyCompletedPost, PayrollType, Post
  <2>2. ASSUME NEW e \in credited PROVE report'[e.report].status = "completed"
    BY <1>0, <1>1 DEF RowAdded, PayrollInv, OnlyCompletedPost, PayrollType, Entry
  <2> QED  BY <1>1, <2>1, <2>2 DEF RowAdded, OnlyCompletedPost
<1>9. AtWorkHaveMet'
  <2>1. \A s \in Reports : report'[s].status = report[s].status
    BY <1>1 DEF RowAdded
  <2> QED  BY <1>1, <2>1 DEF RowAdded, PayrollInv, AtWorkHaveMet
<1> QED  BY <1>6, <1>7, <1>8, <1>9

\* The next row of a report: periods and caps.
LEMMA RowKeepsPeriodsAndCaps ==
    ASSUME PayrollInv, NEW r \in Reports, ProcessRow(r)
    PROVE  PeriodsMet' /\ CapsSeen'
<1>0. PayrollType /\ CreditsTell /\ OnlyCompletedPost /\ PeriodsMet /\ CapsSeen /\ AtWorkHaveMet
  BY DEF PayrollInv
<1>1. RowAdded(r)
  BY <1>0, RowAdds
<1>2. /\ \A x \in PostsSeen(r), y \in NewPosts(r) : ~SamePeriod(x, y)
      /\ \A e \in NewCredits(r) :
           \/ e.group = None
           \/ AnnualCap[e.end] = None
           \/ AnnualCap[e.end] \in Nat
              /\ CreditOf(OfYear(CreditsSeen(r), e, Year(e.end))) + e.credit <= AnnualCap[e.end]
  BY <1>0, <1>1, RowPosts DEF RowAdded
<1>3. /\ \A x \in NewPosts(r) : x.report = r
      /\ \A x, y \in NewPosts(r) : x = y
      /\ \A e, f \in NewCredits(r) : e = f
      /\ \A e \in NewCredits(r) : e.report = r /\ e.row = NextRow(r)
  BY DEF NewPosts, NewCredits
<1>4. PeriodsMet'
  <2>1. AllPosts' = AllPosts \cup NewPosts(r)
    BY <1>1 DEF RowAdded, AllPosts
  <2>2. ASSUME NEW x \in AllPosts, NEW y \in NewPosts(r), SamePeriod(x, y)
        PROVE  {x.report, y.report} \in met
    <3>1. x \notin posted /\ x \notin report[r].posts
      BY <1>2, <2>2 DEF PostsSeen
    <3>2. PICK s \in Reports \ {r} : x \in report[s].posts
      BY <3>1 DEF AllPosts
    <3>3. x.report = s
      BY <3>2 DEF PayrollInv, PostsTell, PostsOf
    <3>4. report[s].status = "processing"
      <4>1. ~IsCompleted(report[s]) /\ report[s] # Absent
        BY <3>2 DEF IsCompleted, Absent
      <4> QED  BY <1>0, <4>1 DEF PayrollType, IsStarted, IsWorking
    <3>5. {s, r} \in met
      BY <1>0, <1>1, <3>4 DEF RowAdded, AtWorkHaveMet
    <3> QED  BY <1>3, <3>3, <3>5
  <2>3. \A x, y : SamePeriod(x, y) => SamePeriod(y, x)
    BY DEF SamePeriod
  <2>4. \A x, y : {x, y} = {y, x}
    OBVIOUS
  <2>5. ASSUME NEW x \in AllPosts', NEW y \in AllPosts', x # y, SamePeriod(x, y)
        PROVE  {x.report, y.report} \in met
    <3>1. CASE x \in AllPosts /\ y \in AllPosts
      BY <1>0, <2>5, <3>1 DEF PeriodsMet
    <3>2. CASE x \in AllPosts /\ y \in NewPosts(r)
      BY <2>2, <2>5, <3>2
    <3>3. CASE x \in NewPosts(r) /\ y \in AllPosts
      BY <2>2, <2>3, <2>4, <2>5, <3>3
    <3>4. CASE x \in NewPosts(r) /\ y \in NewPosts(r)
      BY <1>3, <2>5, <3>4
    <3> QED  BY <2>1, <2>5, <3>1, <3>2, <3>3, <3>4
  <2> QED  BY <1>1, <2>5 DEF RowAdded, PeriodsMet, SamePeriod
<1>5. CapsSeen'
  <2>1. CapOn(CreditsSeen(r) \cup NewCredits(r))
    <3>1. CASE NewCredits(r) = {}
      BY <1>0, <3>1 DEF CapsSeen
    <3>2. CASE NewCredits(r) # {}
      <4>1. PICK e \in NewCredits(r) : TRUE
        BY <3>2
      <4>2. NewCredits(r) = {e} /\ e \in Entry
        BY <1>1, <1>3, <4>1 DEF RowAdded
      <4>3. e \notin CreditsSeen(r)
        <5>1. e.report = r /\ e.row \notin DOMAIN report[r].rows
          BY <1>1, <1>3, <4>1 DEF RowAdded
        <5>2. e \notin CreditsOf(r)
          BY <1>0, <5>1 DEF CreditsTell, PostedRows
        <5> QED  BY <5>1, <5>2 DEF CreditsOf, CreditsSeen
      <4>4. CapOn(CreditsSeen(r)) /\ CreditsSeen(r) \in SUBSET Entry /\ IsFiniteSet(CreditsSeen(r))
        BY <1>0, LedgersSeen DEF CapsSeen
      <4>5. CapOn(CreditsSeen(r) \cup {e})
        BY <1>2, <4>1, <4>2, <4>3, <4>4, CapOneMore
      <4> QED  BY <4>2, <4>5
    <3> QED  BY <3>1, <3>2
  <2>2. /\ CreditsSeen(r)' = CreditsSeen(r) \cup NewCredits(r)
        /\ \A s \in Reports \ {r} : CreditsSeen(s)' = CreditsSeen(s)
        /\ credited' = credited /\ met' = met
    BY <1>1 DEF RowAdded, CreditsSeen
  <2>3. \A S : CapOn(S)' = CapOn(S)
    BY <2>2 DEF CapOn, OfYear
  <2> QED  BY <1>0, <2>1, <2>2, <2>3 DEF CapsSeen, CreditsSeen
<1> QED  BY <1>4, <1>5

\* Only a report at work has rows that are not committed.
LEMMA OnlyWorkIsOpen ==
    ASSUME PayrollType, NEW r \in Reports, report[r].status # "processing"
    PROVE  report[r].posts = {} /\ report[r].credits = {}
BY DEF PayrollType, Absent, IsStarted, IsWorking, IsCompleted

\* A completed report hands its rows to the ledgers.
LEMMA CompleteKeeps ==
    ASSUME PayrollInv, NEW r \in Reports, CompleteReport(r)
    PROVE  PayrollInv'
<1>0. /\ PayrollType /\ RowsTell /\ PostsTell /\ CreditsTell /\ OnlyCompletedPost
      /\ AtWorkHaveMet /\ PeriodsMet /\ CapsSeen
  BY DEF PayrollInv
<1> DEFINE p == report[r]
           q == report'[r]
<1>1. p.status = "processing" /\ Len(p.rows) = Len(p.file) /\ IsStarted(p) /\ IsWorking(p)
  BY <1>0, AtWork DEF CompleteReport
<1>2. /\ posted' = posted \cup p.posts /\ credited' = credited \cup p.credits /\ UNCHANGED met
      /\ DOMAIN report' = Reports /\ \A s \in Reports \ {r} : report'[s] = report[s]
  BY <1>0 DEF CompleteReport, PayrollType
<1>3. /\ q.status = "completed" /\ q.employer = p.employer /\ q.file = p.file /\ q.rows = p.rows
      /\ q.posts = {} /\ q.credits = {}
      /\ q.processed = Count(p.rows, {"applied", "flagged"})
      /\ q.errors = Count(p.rows, {"error"}) /\ q.skipped = Count(p.rows, {"skipped"})
  BY <1>0 DEF CompleteReport, PayrollType
<1>4. IsStarted(q)
  BY <1>1, <1>3 DEF IsStarted, IsCompleted
<1>5. PayrollType'
  <2>1. /\ p.posts \in SUBSET Post /\ p.credits \in SUBSET Entry /\ IsFiniteSet(p.credits)
    BY <1>1 DEF IsWorking
  <2>2. IsFiniteSet(credited \cup p.credits)
    BY <1>0, <2>1, FS_Union DEF PayrollType
  <2> HIDE DEF p, q
  <2>3. \A s \in Reports : report'[s] = Absent \/ IsStarted(report'[s])
    BY <1>0, <1>2, <1>4 DEF PayrollType, q
  <2> QED  BY <1>0, <1>2, <2>1, <2>2, <2>3 DEF PayrollType
<1>6. RowsTell'
  BY <1>0, <1>2, <1>3 DEF RowsTell, Tells, RateWarnings, Accrued
<1>7. /\ \A x \in p.posts : x.report = r
      /\ \A e \in p.credits : e.report = r
  BY <1>0 DEF PostsTell, PostsOf, CreditsTell, CreditsOf
<1>8. \A s \in Reports : PostsOf(s)' = PostsOf(s) /\ CreditsOf(s)' = CreditsOf(s)
  <2>1. ASSUME NEW s \in Reports \ {r} PROVE PostsOf(s)' = PostsOf(s) /\ CreditsOf(s)' = CreditsOf(s)
    BY <1>2, <1>7 DEF PostsOf, CreditsOf
  <2>2. PostsOf(r)' = PostsOf(r) /\ CreditsOf(r)' = CreditsOf(r)
    BY <1>2, <1>3, <1>7 DEF PostsOf, CreditsOf
  <2> QED  BY <2>1, <2>2
<1>9. PostsTell' /\ CreditsTell'
  <2>1. \A s \in Reports : report'[s].rows = report[s].rows
    BY <1>2, <1>3
  <2> QED  BY <1>0, <1>8, <2>1 DEF PostsTell, CreditsTell, PostedRows
<1>10. OnlyCompletedPost'
  <2>1. \A x \in posted : x.report \in Reports /\ report[x.report].status = "completed"
    BY <1>0 DEF OnlyCompletedPost, PayrollType, Post
  <2>2. \A e \in credited : e.report \in Reports /\ report[e.report].status = "completed"
    BY <1>0 DEF OnlyCompletedPost, PayrollType, Entry
  <2> QED  BY <1>2, <1>3, <1>7, <2>1, <2>2 DEF OnlyCompletedPost
<1>11. AtWorkHaveMet'
  BY <1>0, <1>2, <1>3 DEF AtWorkHaveMet
<1>12. PeriodsMet'
  <2>1. AllPosts' \subseteq AllPosts
    BY <1>2, <1>3 DEF AllPosts
  <2> QED  BY <1>0, <1>2, <2>1 DEF PeriodsMet, SamePeriod
<1>13. CapsSeen'
  <2>1. CreditsSeen(r) = credited' /\ CreditsSeen(r)' = credited'
    BY <1>2, <1>3 DEF CreditsSeen
  <2>2. ASSUME NEW s \in Reports \ {r} PROVE CapOn((credited \cup p.credits) \cup report[s].credits)
    <3>1. CapOn(credited \cup p.credits) /\ CapOn(credited \cup report[s].credits)
      BY <1>0 DEF CapsSeen, CreditsSeen
    <3>2. \A e \in report[s].credits : e.report = s
      BY <1>0 DEF CreditsTell, CreditsOf
    <3>3. \A e \in p.credits, f \in report[s].credits : {e.report, f.report} \in met
      <4>1. CASE report[s].status = "processing"
        BY <1>0, <1>1, <1>7, <3>2, <4>1 DEF AtWorkHaveMet
      <4>2. CASE report[s].status # "processing"
        BY <1>0, <4>2, OnlyWorkIsOpen
      <4> QED  BY <4>1, <4>2
    <3> QED  BY <3>1, <3>3, CapTogether
  <2>3. \A s \in Reports \ {r} : CreditsSeen(s)' = (credited \cup p.credits) \cup report[s].credits
    BY <1>2 DEF CreditsSeen
  <2>4. \A S : CapOn(S)' = CapOn(S)
    BY <1>2 DEF CapOn, OfYear
  <2>5. CapOn(credited')
    BY <1>0, <2>1 DEF CapsSeen
  <2> QED  BY <2>1, <2>2, <2>3, <2>4, <2>5 DEF CapsSeen
<1> QED  BY <1>5, <1>6, <1>9, <1>10, <1>11, <1>12, <1>13 DEF PayrollInv

\* A report that starts meets those at work; one that is rolled back leaves nothing.
LEMMA StartAndAbortKeep ==
    ASSUME PayrollInv, NEW r \in Reports,
           \/ \E file \in Files : StartReport(r, file)
           \/ Abort(r)
    PROVE  PayrollInv'
<1>0. /\ PayrollType /\ RowsTell /\ PostsTell /\ CreditsTell /\ OnlyCompletedPost
      /\ AtWorkHaveMet /\ PeriodsMet /\ CapsSeen
  BY DEF PayrollInv
<1> DEFINE q == report'[r]
<1>1. /\ report[r].status # "completed" /\ UNCHANGED <<posted, credited>>
      /\ DOMAIN report' = Reports /\ \A s \in Reports \ {r} : report'[s] = report[s]
  BY <1>0 DEF StartReport, Abort, PayrollType
<1>2. /\ q.status # "completed" /\ q.rows = <<>> /\ q.posts = {} /\ q.credits = {}
      /\ q = Absent \/ IsStarted(q)
  <2>1. CASE Abort(r)
    BY <1>0, <2>1 DEF Abort, PayrollType, Absent
  <2>2. ASSUME NEW file \in Files, StartReport(r, file)
        PROVE  /\ q.status # "completed" /\ q.rows = <<>> /\ q.posts = {} /\ q.credits = {}
               /\ q = Absent \/ IsStarted(q)
    <3>1. q = [status |-> "processing", employer |-> file.employer, file |-> file.rows, rows |-> <<>>,
               posts |-> {}, credits |-> {}]
      BY <1>0, <2>2 DEF StartReport, PayrollType
    <3>2. file.employer \in Employers /\ file.rows \in Seq(RowInput) /\ Len(file.rows) \in Nat
      BY FilesAssumption
    <3> HIDE DEF q
    <3>3. q.employer \in Employers /\ q.file \in Seq(RowInput) /\ q.rows \in Seq({}) /\ Len(q.rows) = 0
      BY <3>1, <3>2
    <3>4. IsWorking(q)
      BY <3>1, <3>2, <3>3, FS_EmptySet DEF IsWorking
    <3> QED  BY <3>1, <3>3, <3>4 DEF IsStarted
  <2> QED  BY <2>1, <2>2
<1>3. met \subseteq met' /\ met' \in SUBSET SUBSET Reports
  <2>1. CASE Abort(r)
    BY <1>0, <2>1 DEF Abort, PayrollType
  <2>2. ASSUME NEW file \in Files, StartReport(r, file)
        PROVE  met \subseteq met' /\ met' \in SUBSET SUBSET Reports
    BY <1>0, <2>2 DEF StartReport, PayrollType
  <2> QED  BY <2>1, <2>2
<1>4. AtWorkHaveMet'
  <2>1. CASE Abort(r)
    BY <1>0, <2>1 DEF Abort, Absent, AtWorkHaveMet, PayrollType
  <2>2. ASSUME NEW file \in Files, StartReport(r, file) PROVE AtWorkHaveMet'
    <3> SUFFICES ASSUME NEW s \in Reports, NEW t \in Reports, s # t,
                        report'[s].status = "processing", report'[t].status = "processing"
                 PROVE  {s, t} \in met'
      BY DEF AtWorkHaveMet
    <3>1. met' = met \cup {{r, x} : x \in {y \in Reports : report[y].status = "processing"}}
      BY <2>2 DEF StartReport
    <3>2. CASE s = r
      BY <1>1, <3>1, <3>2
    <3>3. CASE t = r
      <4>1. {t, s} \in met' /\ {t, s} = {s, t}
        BY <1>1, <3>1, <3>3
      <4> QED  BY <4>1
    <3>4. CASE s # r /\ t # r
      BY <1>0, <1>1, <3>1, <3>4 DEF AtWorkHaveMet
    <3> QED  BY <3>2, <3>3, <3>4
  <2> QED  BY <2>1, <2>2
<1>5. PayrollType'
  <2> HIDE DEF q
  <2>1. \A s \in Reports : report'[s] = Absent \/ IsStarted(report'[s])
    BY <1>0, <1>1, <1>2 DEF PayrollType, q
  <2> QED  BY <1>0, <1>1, <1>3, <2>1 DEF PayrollType
<1>6. RowsTell'
  <2>1. DOMAIN q.rows = {}
    BY <1>2
  <2> HIDE DEF q
  <2>2. \A s \in Reports : \A k \in DOMAIN report'[s].rows :
            Tells(report'[s].rows[k], report'[s].file[k], report'[s].employer, report'[s].file[1].end)
    BY <1>0, <1>1, <2>1 DEF RowsTell, q
  <2> QED  BY <2>2 DEF RowsTell, Tells, RateWarnings, Accrued
<1>7. /\ \A x \in posted : x.report \in Reports \ {r}
      /\ \A e \in credited : e.report \in Reports \ {r}
  BY <1>0, <1>1 DEF OnlyCompletedPost, PayrollType, Post, Entry
<1>8. /\ PostsOf(r)' = {} /\ CreditsOf(r)' = {}
      /\ \A s \in Reports \ {r} : PostsOf(s)' = PostsOf(s) /\ CreditsOf(s)' = CreditsOf(s)
  BY <1>1, <1>2, <1>7 DEF PostsOf, CreditsOf
<1>9. PostsTell' /\ CreditsTell'
  <2>1. PostedRows(q.rows) = {}
    BY <1>2 DEF PostedRows
  <2> HIDE DEF q
  <2>2. PostsTell'
    BY <1>0, <1>1, <1>8, <2>1 DEF PostsTell, PostedRows, q
  <2>3. CreditsTell'
    BY <1>0, <1>1, <1>8 DEF CreditsTell, PostedRows, q
  <2> QED  BY <2>2, <2>3
<1>10. OnlyCompletedPost'
  BY <1>0, <1>1, <1>7 DEF OnlyCompletedPost
<1>11. PeriodsMet'
  <2>1. AllPosts' \subseteq AllPosts
    BY <1>1, <1>2 DEF AllPosts
  <2> QED  BY <1>0, <1>3, <2>1 DEF PeriodsMet, SamePeriod
<1>12. CapsSeen'
  <2>1. CreditsSeen(r)' = credited' /\ \A s \in Reports \ {r} : CreditsSeen(s)' = CreditsSeen(s)
    BY <1>1, <1>2 DEF CreditsSeen
  <2>2. \A S : CapOn(S) => CapOn(S)'
    BY <1>3, CapOfMoreMet
  <2> QED  BY <1>0, <1>1, <2>1, <2>2 DEF CapsSeen
<1> QED  BY <1>4, <1>5, <1>6, <1>9, <1>10, <1>11, <1>12 DEF PayrollInv
-----------------------------------------------------------------------------
(* Theorems *)

\* The invariant holds in every state, for any reports, files and configuration.
THEOREM PayrollInvariant == Spec => []PayrollInv
<1>1. Init => PayrollInv
  <2> SUFFICES ASSUME Init PROVE PayrollInv
    OBVIOUS
  <2>1. /\ DOMAIN report = Reports /\ \A r \in Reports : report[r] = Absent
        /\ posted = {} /\ credited = {} /\ met = {}
    BY DEF Init
  <2>2. \A r \in Reports : /\ report[r].posts = {} /\ report[r].credits = {}
                           /\ report[r].rows = <<>> /\ report[r].status = "absent"
    BY <2>1 DEF Absent
  <2>3. PayrollType
    BY <2>1, FS_EmptySet DEF PayrollType
  <2>4. RowsTell /\ PostsTell /\ CreditsTell /\ OnlyCompletedPost /\ AtWorkHaveMet
    BY <2>1, <2>2 DEF RowsTell, PostsTell, CreditsTell, OnlyCompletedPost, AtWorkHaveMet,
                      PostsOf, CreditsOf, PostedRows
  <2>5. PeriodsMet /\ CapsSeen
    BY <2>1, <2>2 DEF PeriodsMet, AllPosts, CapsSeen, CapOn, CreditsSeen
  <2> QED  BY <2>3, <2>4, <2>5 DEF PayrollInv
<1>2. PayrollInv /\ [Next]_vars => PayrollInv'
  <2> SUFFICES ASSUME PayrollInv, [Next]_vars PROVE PayrollInv'
    OBVIOUS
  <2>1. ASSUME NEW r \in Reports, ProcessRow(r) PROVE PayrollInv'
    BY <2>1, RowKeepsTypes, RowKeepsLedgers, RowKeepsPeriodsAndCaps DEF PayrollInv
  <2>2. ASSUME NEW r \in Reports, CompleteReport(r) PROVE PayrollInv'
    BY <2>2, CompleteKeeps
  <2>3. ASSUME NEW r \in Reports, (\E file \in Files : StartReport(r, file)) \/ Abort(r)
        PROVE  PayrollInv'
    BY <2>3, StartAndAbortKeep
  <2>4. CASE UNCHANGED vars
    <3>1. UNCHANGED <<report, posted, credited, met>>
      BY <2>4 DEF vars
    <3>2. PayrollType'
      BY <3>1 DEF PayrollInv, PayrollType
    <3>3. RowsTell'
      BY <3>1 DEF PayrollInv, RowsTell, Tells, RateWarnings, Accrued
    <3>4. PostsTell'
      BY <3>1 DEF PayrollInv, PostsTell, PostsOf, PostedRows
    <3>5. CreditsTell'
      BY <3>1 DEF PayrollInv, CreditsTell, CreditsOf, PostedRows
    <3>6. OnlyCompletedPost' /\ AtWorkHaveMet'
      BY <3>1 DEF PayrollInv, OnlyCompletedPost, AtWorkHaveMet
    <3>7. PeriodsMet'
      BY <3>1 DEF PayrollInv, PeriodsMet, AllPosts, SamePeriod
    <3>8. CapsSeen'
      <4>1. \A S : CapOn(S) => CapOn(S)'
        BY <3>1 DEF CapOn, OfYear
      <4> QED  BY <3>1, <4>1 DEF PayrollInv, CapsSeen, CreditsSeen
    <3> QED  BY <3>2, <3>3, <3>4, <3>5, <3>6, <3>7, <3>8 DEF PayrollInv
  <2> QED  BY <2>1, <2>2, <2>3, <2>4 DEF Next
<1> QED  BY <1>1, <1>2, PTL DEF Spec

\* For any reports, files and jobs, a job is credited with two contributions for
\* one period only by two reports that were processed at the same time.
THEOREM PeriodsArePostedOnce == Spec => []PostedOncePerPeriod
<1>1. PayrollInv => PostedOncePerPeriod
  BY DEF PayrollInv, PeriodsMet, AllPosts, PostedOncePerPeriod
<1> QED  BY <1>1, PayrollInvariant, PTL

\* For any jobs, rules and caps, however the caps change within a year, jobs held
\* side by side are credited within a cap unless overlapping reports credit them.
THEOREM CreditStaysWithinTheCap == Spec => []CapHolds
<1>1. PayrollInv => CapHolds
  BY DEF PayrollInv, CapsSeen, CapOn, CapHolds
<1> QED  BY <1>1, PayrollInvariant, PTL

\* For any rules and caps, a row with less credit than was accrued is flagged.
THEOREM CutCreditIsAlwaysFlagged == Spec => []CutCreditIsFlagged
<1>1. PayrollInv => CutCreditIsFlagged
  <2> SUFFICES ASSUME PayrollInv, NEW r \in Reports, NEW k \in DOMAIN report[r].rows,
                      NEW row, row = report[r].rows[k], NEW in, in = report[r].file[k],
                      row.status \in {"applied", "flagged"},
                      row.credit < Accrued(AccrualRule[in.end], in, row.job.percent)
               PROVE  row.status = "flagged"
    BY DEF CutCreditIsFlagged
  <2> QED  BY DEF PayrollInv, RowsTell, Tells, Posted
<1> QED  BY <1>1, PayrollInvariant, PTL

\* Disjoint sets count together.
LEMMA DisjointUnion ==
    ASSUME NEW S, NEW T, IsFiniteSet(S), IsFiniteSet(T), S \cap T = {}
    PROVE  IsFiniteSet(S \cup T) /\ Cardinality(S \cup T) = Cardinality(S) + Cardinality(T)
<1>1. Cardinality(S) \in Nat /\ Cardinality(T) \in Nat
  BY FS_CardinalityType
<1>2. Cardinality(S \cap T) = 0
  BY FS_EmptySet
<1>3. IsFiniteSet(S \cup T)
      /\ Cardinality(S \cup T) = Cardinality(S) + Cardinality(T) - Cardinality(S \cap T)
  BY FS_Union
<1> QED  BY <1>1, <1>2, <1>3

\* The rows of each kind make up the file.
LEMMA CountsAddUp ==
    ASSUME NEW S, NEW rows \in Seq(S), \A k \in DOMAIN rows : rows[k].status \in RowStatus
    PROVE  Count(rows, {"applied", "flagged"}) + Count(rows, {"error"}) + Count(rows, {"skipped"}) = Len(rows)
<1> DEFINE D == DOMAIN rows
           A == {k \in D : rows[k].status \in {"applied", "flagged"}}
           E == {k \in D : rows[k].status \in {"error"}}
           K == {k \in D : rows[k].status \in {"skipped"}}
<1>1. D = 1..Len(rows) /\ Len(rows) \in Nat
  OBVIOUS
<1>2. IsFiniteSet(D) /\ Cardinality(D) = Len(rows)
  <2> DEFINE n == Len(rows)
  <2>1. n \in Nat /\ D = 1..n
    BY <1>1
  <2> HIDE DEF D, n
  <2>2. IsFiniteSet(1..n) /\ Cardinality(1..n) = IF 1 > n THEN 0 ELSE n - 1 + 1
    BY <2>1, FS_Interval
  <2>3. Cardinality(1..n) = n
    BY <2>1, <2>2
  <2> QED  BY <2>1, <2>2, <2>3 DEF n
<1>3. IsFiniteSet(A) /\ IsFiniteSet(E) /\ IsFiniteSet(K)
  BY <1>2, FS_Subset
<1>4. A \cap E = {} /\ (A \cup E) \cap K = {}
  OBVIOUS
<1>5. (A \cup E) \cup K = D
  BY DEF RowStatus
<1>6. /\ Count(rows, {"applied", "flagged"}) = Cardinality(A)
      /\ Count(rows, {"error"}) = Cardinality(E)
      /\ Count(rows, {"skipped"}) = Cardinality(K)
  BY DEF Count
<1> HIDE DEF D, A, E, K
<1>7. /\ Cardinality(A) \in Nat /\ Cardinality(E) \in Nat /\ Cardinality(K) \in Nat
  BY <1>3, FS_CardinalityType
<1>8. IsFiniteSet(A \cup E) /\ Cardinality(A \cup E) = Cardinality(A) + Cardinality(E)
  BY <1>3, <1>4, DisjointUnion
<1>9. Cardinality(D) = Cardinality(A \cup E) + Cardinality(K)
  BY <1>3, <1>4, <1>5, <1>8, DisjointUnion
<1> QED  BY <1>2, <1>6, <1>7, <1>8, <1>9

\* What RowsTellTheLedger says of one report.
LedgerOf(r) ==
    LET rows == report[r].rows
        own  == {x \in posted : x.report = r}
    IN  /\ {x.row : x \in own} = {k \in DOMAIN rows : rows[k].status \in {"applied", "flagged"}}
        /\ Cardinality(own) = report[r].processed
        /\ report[r].processed + report[r].errors + report[r].skipped = Len(report[r].file)
        /\ \A e \in credited : e.report = r =>
               \E x \in own : x.row = e.row /\ rows[e.row].credit = e.credit

\* For any files, the counts and rows of a completed report are what the ledgers
\* got from it.
THEOREM RowsAlwaysTellTheLedger == Spec => []RowsTellTheLedger
<1>1. PayrollInv => RowsTellTheLedger
  <2> SUFFICES ASSUME PayrollInv PROVE \A r \in Completed : LedgerOf(r)
    BY DEF RowsTellTheLedger, LedgerOf
  <2> TAKE r \in Completed
  <2> DEFINE rows == report[r].rows
             own == {x \in posted : x.report = r}
  <2> SUFFICES  /\ {x.row : x \in own} = {k \in DOMAIN rows : rows[k].status \in {"applied", "flagged"}}
                      /\ Cardinality(own) = report[r].processed
                      /\ report[r].processed + report[r].errors + report[r].skipped = Len(report[r].file)
                      /\ \A e \in credited : e.report = r =>
                             \E x \in own : x.row = e.row /\ rows[e.row].credit = e.credit
    BY DEF LedgerOf
  <2>0. rows = report[r].rows /\ own = {x \in posted : x.report = r}
    OBVIOUS
  <2> HIDE DEF rows, own
  <2>1. r \in Reports /\ report[r].status = "completed"
    BY DEF Completed
  <2>2. IsStarted(report[r]) /\ IsCompleted(report[r])
    BY <2>1 DEF PayrollInv, PayrollType, Absent, IsStarted, IsWorking
  <2>3. PostsOf(r) = own /\ CreditsOf(r) = {e \in credited : e.report = r}
    BY <2>0, <2>2 DEF IsCompleted, PostsOf, CreditsOf
  <2>4. /\ {x.row : x \in own} = PostedRows(rows)
        /\ \A x, y \in own : x.row = y.row => x = y
    BY <2>0, <2>1, <2>3 DEF PayrollInv, PostsTell
  <2>5. PICK S : rows \in Seq(S)
    BY <2>0, <2>2 DEF IsStarted
  <2>6. \A k \in DOMAIN rows : rows[k].status \in RowStatus
    BY <2>0, <2>1 DEF PayrollInv, RowsTell, Tells
  <2>7. Cardinality(own) = report[r].processed
    <3> DEFINE f == [x \in own |-> x.row]
    <3>1. f \in [own -> PostedRows(rows)]
      BY <2>4
    <3>2. f \in Injection(own, PostedRows(rows)) /\ f \in Surjection(own, PostedRows(rows))
      BY <2>4, <3>1 DEF Injection, IsInjective, Surjection
    <3> HIDE DEF f
    <3>3. IsFiniteSet(PostedRows(rows))
      <4>1. IsFiniteSet(DOMAIN rows)
        BY <2>5, FS_Interval
      <4> QED  BY <4>1, FS_Subset DEF PostedRows
    <3>4. Cardinality(own) = Cardinality(PostedRows(rows))
      BY <3>2, <3>3, FS_Injection
    <3> QED  BY <2>0, <2>2, <3>4 DEF IsCompleted, Count, PostedRows, Posted
  <2>8. report[r].processed + report[r].errors + report[r].skipped = Len(report[r].file)
    BY <2>0, <2>2, <2>5, <2>6, CountsAddUp DEF IsCompleted
  <2>9. ASSUME NEW e \in credited, e.report = r
        PROVE  \E x \in own : x.row = e.row /\ rows[e.row].credit = e.credit
    <3>1. e.row \in PostedRows(rows) /\ rows[e.row].credit = e.credit
      BY <2>0, <2>1, <2>3, <2>9 DEF PayrollInv, CreditsTell
    <3> QED  BY <2>4, <3>1
  <2> QED  BY <2>4, <2>7, <2>8, <2>9 DEF PostedRows, Posted
<1> QED  BY <1>1, PayrollInvariant, PTL

\* A row has a deficiency exactly when a contribution of it falls short of the
\* rate for its job.
LEMMA DeficiencyOfWarnings ==
    ASSUME NEW in \in RowInput, NEW job, NEW day, NEW row,
           row.gross = in.gross, row.employee = in.employee, row.employers = in.employer,
           row.type = job.type, row.type # Every, row.status \in Posted
    PROVE  RowDeficiency(row, Rates, job.employer, day) > 0 <=> RateWarnings(in, job, day) # {}
<1> DEFINE found == CachedRate(Rates, job.employer, job.type, day)
           rate == CHOOSE r \in found : TRUE
           a == Shortfall(in.gross, rate.employee, in.employee)
           b == Shortfall(in.gross, rate.employers, in.employer)
<1>1. CASE found = {}
  BY <1>1 DEF RowDeficiency, RateWarnings
<1>2. CASE found # {}
  <2>1. rate.employee \in Nat /\ rate.employers \in Nat
    BY <1>2, RatesAssumption, FoundRate DEF RateRow
  <2>2. in.gross \in Nat /\ in.employee \in Nat /\ in.employer \in Nat
    BY DEF RowInput
  <2>3. a \in Nat /\ b \in Nat
    BY <2>1, <2>2, ShortfallIsNatural
  <2>4. RowDeficiency(row, Rates, job.employer, day) = a + b
    BY <1>2 DEF RowDeficiency, Posted
  <2>5. RateWarnings(in, job, day) = {who \in {"employee", "employer"} :
                                        IF who = "employee" THEN a > 0 ELSE b > 0}
    BY <1>2 DEF RateWarnings, Variances
  <2> HIDE DEF a, b
  <2>6. RateWarnings(in, job, day) # {} <=> a > 0 \/ b > 0
    BY <2>5
  <2> QED  BY <2>3, <2>4, <2>6
<1> QED  BY <1>1, <1>2

\* For any rates and files: what the employer was warned of is what it can be
\* billed for.
THEOREM BilledIsAlwaysWarned == Spec => []BilledIsWarned
<1>1. PayrollInv => BilledIsWarned
  <2> SUFFICES ASSUME PayrollInv, NEW r \in Completed,
                      Cardinality({report[r].file[k].end : k \in DOMAIN report[r].rows}) = 1
               PROVE  ({k \in DOMAIN report[r].rows :
                          /\ report[r].rows[k].status = "flagged"
                          /\ report[r].rows[k].job.type # Every
                          /\ report[r].rows[k].warnings \cap {"employee", "employer"} # {}} # {})
                      = (ReportDeficiency([k \in DOMAIN report[r].rows |-> BilledRow(r, k)], Rates,
                            report[r].employer,
                            CHOOSE d \in {report[r].file[k].end : k \in DOMAIN report[r].rows} : TRUE) > 0)
    BY DEF BilledIsWarned
  <2> DEFINE D == DOMAIN report[r].rows
             days == {report[r].file[k].end : k \in D}
             day == CHOOSE d \in days : TRUE
             rows == [k \in D |-> BilledRow(r, k)]
             short == {k \in D : /\ report[r].rows[k].status = "flagged"
                                 /\ report[r].rows[k].job.type # Every
                                 /\ report[r].rows[k].warnings \cap {"employee", "employer"} # {}}
             Bill(k) == RowDeficiency(BilledRow(r, k), Rates, report[r].employer, day)
  <2>1. r \in Reports /\ report[r].status = "completed"
    BY DEF Completed
  <2>2. IsStarted(report[r]) /\ IsCompleted(report[r])
    BY <2>1 DEF PayrollInv, PayrollType, Absent, IsStarted, IsWorking
  <2>3. PICK n \in Nat : D = 1..n /\ n = Len(report[r].file)
    BY <2>2 DEF IsStarted, IsCompleted
  <2>4. \A k \in D : report[r].file[k] \in RowInput
    BY <2>2, <2>3 DEF IsStarted
  <2>5. 1 \in D /\ \A k \in D : report[r].file[k].end = day
    <3> DEFINE end == [k \in D |-> report[r].file[k].end]
    <3>1. IsFiniteSet(D)
      BY <2>3, FS_Interval
    <3>2. end \in Surjection(D, days)
      BY DEF Surjection
    <3>3. IsFiniteSet(days)
      BY <3>1, <3>2, FS_Surjection
    <3>4. \E d : days = {d}
      BY <3>3, FS_Singleton
    <3>5. PICK d : days = {d}
      BY <3>4
    <3>6. \A k \in D : report[r].file[k].end = d
      BY <3>5
    <3>7. D # {} /\ day = d
      BY <3>5
    <3> HIDE DEF day, days
    <3> QED  BY <2>3, <3>6, <3>7
  <2>6. \A k \in D : Tells(report[r].rows[k], report[r].file[k], report[r].employer, day)
    BY <2>1, <2>5 DEF PayrollInv, RowsTell
  <2>7. \A k \in D : BillableRow(rows[k])
    BY <2>4 DEF BillableRow, BilledRow, RowInput
  <2>8. IsFiniteSet(D)
    BY <2>3, FS_Interval
  <2>9. ReportDeficiency(rows, Rates, report[r].employer, day) > 0 <=> \E k \in D : Bill(k) > 0
    <3>1. DOMAIN rows = D /\ \A k \in D : rows[k] = BilledRow(r, k)
      OBVIOUS
    <3> HIDE DEF rows, D, day
    <3>2. /\ Rates \in SUBSET RateRow /\ IsFiniteSet(DOMAIN rows)
          /\ \A k \in DOMAIN rows : BillableRow(rows[k])
      BY <2>7, <2>8, <3>1, RatesAssumption
    <3>3. ReportDeficiency(rows, Rates, report[r].employer, day) > 0
            <=> \E k \in DOMAIN rows : RowDeficiency(rows[k], Rates, report[r].employer, day) > 0
      BY <3>2, ReportDeficiencyFacts
    <3> QED  BY <3>1, <3>3
  <2>10. ASSUME NEW k \in D PROVE Bill(k) > 0 <=> k \in short
    <3> DEFINE row == report[r].rows[k]
               billed == BilledRow(r, k)
    <3>1. /\ billed.status = row.status
          /\ billed.type = IF row.job = None THEN Every ELSE row.job.type
          /\ billed.gross = report[r].file[k].gross
          /\ billed.employee = report[r].file[k].employee
          /\ billed.employers = report[r].file[k].employer
      BY DEF BilledRow
    <3>2. CASE row.status \notin Posted
      BY <3>1, <3>2 DEF RowDeficiency, Posted
    <3>3. CASE row.status \in Posted
      <4>1. /\ row.job \in Jobs /\ row.job.employer = report[r].employer
            /\ row.status = "applied" => row.warnings = {}
            /\ row.warnings \cap RateNames = RateWarnings(report[r].file[k], row.job, day)
        BY <2>6, <3>3 DEF Tells
      <4>2. billed.type = row.job.type
        BY <3>1, <4>1, JobsAssumption
      <4>3. CASE row.job.type = Every
        BY <4>2, <4>3 DEF RowDeficiency
      <4>4. CASE row.job.type # Every
        <5>1. billed.status \in Posted /\ billed.type # Every
          BY <3>1, <3>3, <4>2, <4>4
        <5> HIDE DEF billed
        <5>2. RowDeficiency(billed, Rates, row.job.employer, day) > 0
                <=> RateWarnings(report[r].file[k], row.job, day) # {}
          BY <2>4, <3>1, <4>2, <5>1, DeficiencyOfWarnings
        <5>3. Bill(k) = RowDeficiency(billed, Rates, row.job.employer, day)
          BY <4>1 DEF billed
        <5>4. k \in short <=> row.warnings \cap RateNames # {}
          BY <3>3, <4>1, <4>4 DEF RateNames, Posted
        <5> QED  BY <4>1, <5>2, <5>3, <5>4
      <4> QED  BY <4>3, <4>4
    <3> QED  BY <3>2, <3>3
  <2> HIDE DEF Bill
  <2>11. (short # {}) <=> (ReportDeficiency(rows, Rates, report[r].employer, day) > 0)
    BY <2>9, <2>10
  <2> QED  BY <2>11
<1> QED  BY <1>1, PayrollInvariant, PTL
=============================================================================
