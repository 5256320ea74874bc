--------------------------- MODULE EmployerBilling ---------------------------
(***************************************************************************)
(* Rates, invoices and their payments.  An invoice is drafted from the     *)
(* deficiency of payroll reports or by hand, issued, paid, marked overdue, *)
(* charged interest or voided.  Requests load an invoice without a lock    *)
(* and commit what they changed; `contested` remembers the invoices on     *)
(* which two of them overlapped.                                           *)
(***************************************************************************)
EXTENDS ContributionRates, RequestSession

CONSTANTS
    Invoices,
    Workers,
    Employer,           \* the employer that is billed
    RateRows,           \* the rate rows an administrator may create
    MaxRates,           \* bound on the rate table
    FiledReports,       \* completed payroll reports: sequences of rows
    Charges,            \* amounts of supplemental invoices, any number of cents
    Amounts,            \* amounts of payments, negative ones among them
    InterestRate,       \* annual percentage of accrue_interest
    MaxPayments,        \* bound on the payments of an invoice
    MaxInterest         \* bound on the interest of an invoice, either way

ASSUME RateRowsAssumption ==
    /\ RateRows \subseteq RateRow
    \* Of two rows with one key and one effective date the database returns
    \* either; the instances have no such pair.
    /\ \A r, s \in RateRows : r = s \/ <<r.employer, r.type, r.from>> # <<s.employer, s.type, s.from>>
ASSUME AmountsAssumption == Amounts \subseteq Int /\ Charges \subseteq Int
ASSUME DaysAssumption == Days # {}
\* Amounts of filed rows are whole cents.
ASSUME ReportsAssumption ==
    /\ IsFiniteSet(DOMAIN FiledReports)
    /\ \A f \in DOMAIN FiledReports :
          /\ IsFiniteSet(DOMAIN FiledReports[f])
          /\ \A k \in DOMAIN FiledReports[f] :
                {FiledReports[f][k].gross, FiledReports[f][k].employee,
                 FiledReports[f][k].employers} \subseteq Nat
ASSUME InterestAssumption == InterestRate \in Int /\ MaxInterest \in Nat

VARIABLES
    rates,          \* employer_contribution_rates
    invoice,        \* employer_invoices
    received,       \* employer_invoice_payments of an invoice: their number, their
                    \* sum and the sum of the positive ones
    tx,             \* the request each worker is inside of
    contested       \* invoices two requests worked on at the same time

vars == <<rates, invoice, received, tx, contested>>

Status == {"absent", "draft", "issued", "overdue", "paid", "voided"}
InvoiceRow == [status: Status, due: Int, paid: Int, interest: Int, dueDate: Days]
NoInvoice == [status |-> "absent", due |-> 0, paid |-> 0, interest |-> 0,
              dueDate |-> CHOOSE d \in Days : TRUE]

Kinds == {"issue", "pay", "void", "overdue", "accrue"}

\* The rows a request loaded, by invoice; mark_overdue_invoices loads several.
NoRows == [i \in {} |-> NoInvoice]
Idle == [kind |-> "idle", loaded |-> NoRows]

Init == /\ rates = {}
        /\ invoice = [i \in Invoices |-> NoInvoice]
        /\ received = [i \in Invoices |-> [number |-> 0, sum |-> 0, paidIn |-> 0]]
        /\ tx = [w \in Workers |-> Idle]
        /\ contested = {}
-----------------------------------------------------------------------------
(* Rates and drafts: single inserts *)

CreateRate(r) == /\ Cardinality(rates) < MaxRates
                 /\ rates' = rates \cup {r}
                 /\ UNCHANGED <<invoice, received, tx, contested>>

Draft(i, amount, day) ==
    /\ invoice[i].status = "absent"
    /\ invoice' = [invoice EXCEPT ![i] = [NoInvoice EXCEPT !.status = "draft", !.due = amount,
                                                           !.dueDate = day]]
    /\ UNCHANGED <<rates, received, tx, contested>>

CreateSupplementalInvoice(i, amount, day) == Draft(i, amount, day)

\* The period end of one row of each report decides which rates apply.
Deficiency(R, S, asOf) ==
    SumFunction([f \in S |-> ReportDeficiency(FiledReports[f], R, Employer, asOf[f])])

CreateDeficiencyInvoice(i, S, day) ==
    \E asOf \in [S -> Days] :
        /\ S # {}
        /\ \A f \in S : asOf[f] \in {FiledReports[f][k].end : k \in DOMAIN FiledReports[f]}
        /\ Deficiency(rates, S, asOf) > 0
        /\ Draft(i, Deficiency(rates, S, asOf), day)

-----------------------------------------------------------------------------
(* Requests on a drafted invoice *)

AcceptsPaymentUntilVoid(kind, row) ==
    CASE kind = "issue"  -> row.status = "draft"
      [] kind = "pay"    -> row.status \notin {"absent", "voided"}
      [] kind = "void"   -> row.status \notin {"absent", "paid"}
      [] kind = "accrue" -> row.status \in {"overdue", "issued"}

Accepts(kind, row) ==
    CASE kind = "issue"  -> row.status = "draft"
      [] kind = "pay"    -> row.status \notin {"absent", "paid", "voided"}
      [] kind = "void"   -> row.status \notin {"absent", "paid"}
      [] kind = "accrue" -> row.status \in {"overdue", "issued"}

Load(w, kind, S) ==
    /\ tx[w] = Idle
    /\ tx' = [tx EXCEPT ![w] = [kind |-> kind, loaded |-> [i \in S |-> invoice[i]]]]
    /\ contested' = contested \cup
           {i \in S : \E v \in Workers : tx[v] # Idle /\ i \in DOMAIN tx[v].loaded}
    /\ UNCHANGED <<rates, invoice, received>>

Begin(w, kind, i) == /\ Accepts(kind, invoice[i])
                     /\ kind = "pay" => received[i].number < MaxPayments
                     /\ Load(w, kind, {i})

\* mark_overdue_invoices selects the issued invoices past their due date.
BeginMarkOverdue(w, asOf) ==
    LET late == {i \in Invoices : invoice[i].status = "issued" /\ invoice[i].dueDate < asOf}
    IN  late # {} /\ Load(w, "overdue", late)

\* Commits the rows that were loaded as `changed` has them.
Commit(w, kind, changed) ==
    LET loaded == tx[w].loaded
    IN  /\ tx[w].kind = kind
        /\ invoice' = [i \in Invoices |->
               IF i \in DOMAIN loaded THEN Flush(invoice[i], loaded[i], changed[i])
                                      ELSE invoice[i]]
        /\ tx' = [tx EXCEPT ![w] = Idle]
        /\ UNCHANGED <<rates, contested>>

\* The loaded rows with another status.
WithStatus(w, s) ==
    [i \in DOMAIN tx[w].loaded |-> [tx[w].loaded[i] EXCEPT !.status = s]]

IssueInvoice(w) == /\ Commit(w, "issue", WithStatus(w, "issued"))
                   /\ UNCHANGED received

MarkOverdue(w) == /\ Commit(w, "overdue", WithStatus(w, "overdue"))
                  /\ UNCHANGED received

VoidInvoice(w) == /\ Commit(w, "void", WithStatus(w, "voided"))
                  /\ UNCHANGED received

SettlesOnFirstPayment(row, total) == total > 0

Settles(row, total) == total >= row.due

Receive(w, a) ==
    received' = [i \in Invoices |->
        IF i \in DOMAIN tx[w].loaded
        THEN [number |-> received[i].number + 1, sum |-> received[i].sum + a,
              paidIn |-> received[i].paidIn + AtLeast(0, a)]
        ELSE received[i]]

RecordPaymentUpToDue(w, a) ==
    LET Pay(row) == [row EXCEPT !.paid = AtMost(row.due, @ + a),
                                !.status = IF Settles(row, row.paid + a) THEN "paid" ELSE @]
    IN  /\ Commit(w, "pay", [i \in DOMAIN tx[w].loaded |-> Pay(tx[w].loaded[i])])
        /\ Receive(w, a)

RecordPayment(w, a) ==
    LET Pay(row) == [row EXCEPT !.paid = @ + a,
                                !.status = IF Settles(row, row.paid + a) THEN "paid" ELSE @]
    IN  /\ Commit(w, "pay", [i \in DOMAIN tx[w].loaded |-> Pay(tx[w].loaded[i])])
        /\ Receive(w, a)

\* Simple interest for all the days since the due date, added to what is there.
Interest(row, asOf) == RoundHalfUp(row.due * InterestRate * (asOf - row.dueDate), 36500)

AccrueInterest(w, asOf) ==
    LET Accrue(row) ==
            [row EXCEPT !.interest =
                AtLeast(-MaxInterest, AtMost(MaxInterest, @ + Interest(row, asOf)))]
    IN  /\ \A i \in DOMAIN tx[w].loaded : asOf > tx[w].loaded[i].dueDate
        /\ Commit(w, "accrue", [i \in DOMAIN tx[w].loaded |-> Accrue(tx[w].loaded[i])])
        /\ UNCHANGED received

Abort(w) == /\ tx[w] # Idle
            /\ tx' = [tx EXCEPT ![w] = Idle]
            /\ UNCHANGED <<rates, invoice, received, contested>>

InvoiceRequest(w) ==
    \/ \E k \in Kinds \ {"overdue"}, i \in Invoices : Begin(w, k, i)
    \/ \E d \in Days : BeginMarkOverdue(w, d) \/ AccrueInterest(w, d)
    \/ IssueInvoice(w) \/ MarkOverdue(w) \/ VoidInvoice(w)
    \/ \E a \in Amounts : RecordPayment(w, a)
    \/ Abort(w)

Create ==
    \/ \E r \in RateRows : CreateRate(r)
    \/ \E i \in Invoices, d \in Days :
           \/ \E a \in Charges : CreateSupplementalInvoice(i, a, d)
           \/ \E S \in SUBSET DOMAIN FiledReports : CreateDeficiencyInvoice(i, S, d)

Next == Create \/ \E w \in Workers : InvoiceRequest(w)

Spec == Init /\ [][Next]_vars
-----------------------------------------------------------------------------
(* Properties *)

\* amount_paid is the sum of the payment rows, negative ones included, while no two
\* requests worked on the invoice at the same time, and never more than was ever
\* paid in (record_payment adds to the value it loaded).
AmountPaidIsReceived ==
    \A i \in Invoices : /\ invoice[i].paid <= received[i].paidIn
                        /\ i \notin contested => invoice[i].paid = received[i].sum

\* Whatever overlaps, payments that cover an invoice marked paid came in; they still
\* cover it, payments back taken off, when no two requests overlapped.
PaidIsCovered ==
    \A i \in Invoices : invoice[i].status = "paid" =>
        /\ received[i].paidIn >= invoice[i].due
        /\ i \notin contested => received[i].sum >= invoice[i].due

\* A paid invoice is final and a voided one stays voided, as long as requests on
\* it do not overlap: nothing is paid on them, accrued or issued any more.
SettledIsFinal ==
    [][\A i \in Invoices :
          invoice[i].status \in {"paid", "voided"} /\ i \notin contested
             => invoice'[i] = invoice[i]]_vars

\* The employer-wide row that get_effective_rate would choose and the cache
\* passes over: the type has a fund-wide row but none for the employer.
Shadowed(e, t, d) == /\ CacheEntry(rates, e, Every, d) \cap {r \in rates : r.employer = e} # {}
                     /\ CacheEntry(rates, e, t, d) \cap {r \in rates : r.employer = Every} # {}

\* The cache answers like the query, except where it lets a fund-wide type
\* default pass before the employer-wide override.
CacheAgreesUnlessShadowed ==
    \A e \in Employers, t \in EmploymentTypes, d \in Days :
        ~Shadowed(e, t, d) => CachedRate(rates, e, t, d) = EffectiveRate(rates, e, t, d)
=============================================================================
