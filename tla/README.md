# OpenFlowPension: verification project

OpenFlowPension is a pension administration back end: FastAPI routers over asynchronous
SQLAlchemy services and a PostgreSQL database. This directory holds TLA+ models of its
workflows, the TLC configurations that check them on small instances, and TLAPS proofs
of properties that hold for every value of the constants. Paths below are relative to
the repository; `services/` stands for `app/services/`.

## How the system runs

Every request gets one `AsyncSession` (`app/database.py`) and does its writes in one
transaction, committed at the end of `async with session.begin()`. A `ValueError`, an
HTTP error or a crash rolls the transaction back. The isolation level is PostgreSQL's
default, READ COMMITTED; no query uses `FOR UPDATE`, no table has a version column and
hardly a unique index protects a workflow rule (one open case, one batch per payment,
one primary account). Two requests that overlap may therefore both pass a guard, and a
commit writes the columns it changed over what others wrote since. There are no
background workers: everything happens because somebody asks. The one piece of state in
memory is the cache of Keycloak's signing keys in each worker process.

## Inventory

| Component | State | Operations | Hard part | What makes it correct |
|---|---|---|---|---|
| Payments, `services/payment_service.py` | `benefit_payments`, `payment_deductions`, `deduction_orders`, `tax_withholding_elections` | create, update status, reverse, orders, elections | chains of legal status updates; two ways to write the ledger; superseded elections | net is gross less ledger; amounts final once issued |
| Net pay, `services/net_pay_service.py` | the ledger and `net_amount` | preview, apply | overlapping applications; bracket boundaries; the order of the lines | the ledger is written once; each line is taken once, at its date |
| Batches, `services/batch_service.py`, `payment_events.py` | `payment_batches`, `payment_events`, what the bank got | create, apply net pay, dispatch, reconcile | a webhook is posted before the commit, a json payload leaves after it; stale totals and statuses | a payment leaves in one batch, whole and once; totals true, events follow the status |
| Contract, `services/contract_service.py` | `employment_records`, `leave_periods`, `member_status_history`, `members.member_status` | hire, terminate, leave, percent time, death, annuity, refund | concurrent jobs, leaves left open, dates out of order | separated members work nowhere; annuity and death are final |
| Retirement, `services/retirement_service.py` | `retirement_cases` | create, recalculate, approve, activate, cancel | an approval spans three services | one open case, locked amounts, one first payment |
| Survivors, `services/survivor_service.py` | `member_benefit_elections`, payments | elect, initiate, terminate | order of death and payment | no payment after the beneficiary's death |
| Service purchase, `services/service_purchase_service.py` | claims, claim payments, credit entries | create, submit, approve, pay, cancel | read-modify-write of `cost_paid`; payments of any sign; three grant moments; settings read again later | credit granted once, at its moment; payments add up |
| Billing, `services/billing_service.py` | invoices, invoice payments, rates | draft, issue, pay, void, overdue, accrue, rates | lost payments; statuses of rows loaded earlier; rate cache | payments add up; a settled invoice stays; the cache agrees with the lookup |
| Payroll, `services/payroll_service.py`, `payroll_validation_service.py` | reports, rows, contributions, credit | ingest a report | duplicate check and annual cap under overlap; three writers of a row's status | a period is posted once; the cap holds; the response tells what was posted |
| Configuration, `services/config_service.py` | `system_configurations` | look up, supersede | overlapping writers | the row in force is the one that started last |
| Calculator, `services/benefit/`, `benefit_estimate_service.py` | none | calculate, estimate | tables, bands, reductions, caps at their boundaries | later or longer is never less; the best years count |
| Plan choice, bank accounts, beneficiaries, addresses and contacts, forms | rows and flags per member | choose and lock; add, make primary, close; supersede; send, return, cancel, expire | read-then-write | locked is final; one primary; one active |
| API keys, tokens (`api/deps.py`, `auth/jwt.py`, `services/api_key_service.py`) | `api_keys`, key cache, lock | validate, rotate, revoke; fetch keys | a cache around an await; row locks held until a handler ends; a session shared with the handler | a rotation is followed, a withdrawn key expires, every request is answered |
| Documents, attachments, reports, employers, third parties | rows, files | insert, query, render | little | |

Interactions: an approval of a retirement case calls `survivor_service.record_election`
and `contract_service.begin_annuity` in its own transaction; an activation and
`initiate_survivor_payments` insert payments, which batches then collect; a batch calls
`net_pay_service.apply_net_pay` for every payment and emits accounting events; a
beneficiary's death cancels payments that may already be in a batch; payroll reports
become contributions and credit, which estimates read, and deficiencies, which billing
invoices, both with rates from `build_rate_cache`; every component looks its rules up in
the configuration by date. Everything else communicates through the tables.

`PROJECT.json` lists every component with its status, under `hazards` what in this code
is hard to test, at the line where it bites, and under `map` the lines each definition
stands for.

## Modules

| Module | Models |
|---|---|
| `PaymentDisbursement` | payments, net pay, batches, accounting events and the bank, one atomic step per request |
| `DisbursementTx` | the same requests as the reads, the POST and the commit of overlapping transactions; `Serializable` states that it implements `PaymentDisbursement` |
| `MemberContract` | employments, leaves and the two copies of the member's status |
| `RetirementCases` | retirement cases, elections and survivor payments, composed with `MemberContract` |
| `RequestSession` | what a flush writes: the columns that differ from those loaded |
| `CreditPromise` | the abstract specification of a service purchase: one grant, at its moment, nothing after the end |
| `ServicePurchase` | claims under overlapping requests; `KeepsThePromise` states that it implements `CreditPromise` |
| `ContributionRates` | rate rows and their two readers, `get_effective_rate` and the cache |
| `EmployerBilling` | rates, invoices and payments under overlapping requests |
| `PayrollIngestion` | reports row by row, up to all of them at work at once |
| `Cents`, `BenefitFormulas`, `BenefitCalculator` | rounding; the arithmetic of `services/benefit`; `calculate_benefit` and `get_estimate` |
| `Withholding` | brackets, federal and state withholding, `calculate_net_pay` |
| `PensionPaycheck` | from a member's file to a check stub: estimates, award, orders and elections by date, net pay |
| `SystemConfiguration` | the rows of one configuration key and overlapping writers |
| `MemberRecords` | accounts, contacts, plan choice, forms, beneficiaries and (from the module above) configuration |
| `Access` | tokens and the key cache, API keys and their row locks, what handlers do with the session |
| `ContributionRatesProofs` | proofs about sums over finite sets, deficiencies and the two readers of the rates; the other proof modules take its sums |
| `PaymentDisbursementProofs` | proofs about `PaymentDisbursement` and `DisbursementTx` |
| `RetirementProofs` | proofs about `MemberContract`, `RetirementCases`, `BenefitCalculator`, `Withholding` and `PensionPaycheck` |
| `MemberRecordsProofs` | proofs about `SystemConfiguration` and `MemberRecords` |
| `ServicePurchaseProofs`, `EmployerBillingProofs`, `PayrollIngestionProofs`, `AccessProofs` | proofs about the module they name |
| `MC…` | values of the constants for TLC |

**PaymentDisbursement.** `payment` holds the columns of `BenefitPayment` that any guard
reads or any handler writes, `deductions` the ledger of each payment as the number of
its rows and their sum, `batchStatus`, `totals` and `events` the batch and its
accounting events, `format` the column `dispatch_format`, `sent` the payloads the bank
got, which no table records, and `answers` the responses with a payload that are on
their way. The two ways to dispatch differ: `DispatchByWebhook` has posted when it
commits, `DispatchAsJson` (the default) commits and its payload leaves in the response
after, which `DeliverAnswer` brings to the caller and on to the bank or `LoseAnswer`
loses. `orders` and `election` are what the payment date selects from the standing
orders and the withholding elections; they change freely, as staff edit those tables.
The withholding formula is the constant operator `Tax`. `CreatePayment` is also how
`activate_case` and `initiate_survivor_payments` make payments (no standing orders, no
manual lines). `DispatchWebhookFails` is the path on which the receiver has the payload
and the transaction rolls back. Reads (`preview`, `export`, lists) change nothing and
are left out, and so are notes, dates, payment methods and GL codes. `export`
(`routers/payments.py:237`) gives the json payload of a batch at any time: it is how the
payload of a lost answer can still be had, and what staff do with it is not in `sent`.

**DisbursementTx.** A worker's request goes through the steps at which the code awaits
the database or the network: the guard's read, the read of the batch's payments, the
read of the ledger with orders and elections, the POST of a webhook, the commit, after
which a json dispatch has its answer on the way. `saw` is what its session's identity
map holds (`expire_on_commit=False`, and a re-executed SELECT does not overwrite loaded
attributes), so a commit writes what was computed from it. `Written` is the ORM's rule
that an unchanged attribute is not in the UPDATE. The loop of a batch's net pay over its
payments is one step, and requests that only insert are one step: both make fewer
interleavings than PostgreSQL does, never more. `Abort` is every rollback: a failed
guard, an error of the receiver, a crash.

**MemberContract.** `status` is `Member.member_status` and `currentRow` the row
`get_current_status` would return; the rest of the history is not kept because nothing
reads it. `employment` says whether a record is open; `onLeave` whether a leave of it
has no return date, which termination leaves as it is. Members may start with any
status, since creation and import accept one and write no history row.

**RetirementCases.** A case has its status, date, option, the annuity of its snapshot
and the final annuity. `ApproveCase` is the whole handler: the election, `BeginAnnuity`
of `MemberContract` with its guard, and the case. `wasAnnuitant` is a history variable:
it records that the member has been an annuitant and no action reads it. Options are
reduced to whether they provide for a survivor. Requests are atomic here.

**ServicePurchase.** A request is `Begin` (`get_claim` and the status check) and one
commit action per handler; `Commit` is what they share, the flush and `_grant_credit`
with its second look at the configuration. The claim's copies of its type's settings are
read from `Settings`, which never change; whether the type is still *listed* does.
`Prices` computes `_calc_rate_based` and `_calc_refund_repayment`. `received` is the
payment table. Payments have any sign, as the request schema allows: `received` keeps
the sum of the payment rows and what the positive ones brought in. `contested` is a
history variable: the claims on which two requests were ever at work at the same time,
or that a payment of 0 or one paid back left open with nothing paid, after which
`record_payment` takes the next payment for the first again. No action reads it; what
such claims get is a finding: a payment, the same amount back and a payment again grant
a first-payment credit twice.

**ContributionRates, EmployerBilling, PayrollIngestion.** `Before` is the `ORDER BY` of
both rate queries, `EffectiveRate` and `CachedRate` the two lookups. An invoice request
loads rows, one or, for `mark_overdue_invoices`, all that qualify, and commits;
payments, charges and interest have any sign. A payroll report takes one step per row:
structural checks, warnings of fund, plan, type and rate, matching of member and
employment, duplicates, accrual, cap, posting, then the promotion of the row's status,
all in the order of the code (an accrual rule nobody knows raises for a row with days
worked that gets as far); it sees what other reports have committed by then and what its
own session has flushed. `met` records which reports were at work at the same time.

**BenefitCalculator and PensionPaycheck.** The formulas are operators over a calendar of
twelve equal months; money in cents, rates in 1/10000, service in quarters. `SursConfig`
holds the defaults of `FundConfig`; the actuarial tables are constants.
`EstimateRequest` puts together what `benefit_estimate_service` reads from the file;
`Calculate` is the stateless endpoint. After an award, orders are created and ended, tax
forms filed into `taxElections`, and `answer` is the check stub at a date. A tax table
is any list of bands: `Stops` is the loop of `_apply_brackets`, which trusts the base
tax of the band it stops at. The predicates named `Whole…` say what a file, a request, a
configuration, an order and a tax table have in their columns; they are the assumptions
on the constants.

**SystemConfiguration and MemberRecords.** A configuration write reads the current row
and commits later. Each of the other tables is a desk with its requests (`Load`, for
primary accounts `Select`, then the commit); the tables share no row, so a behaviour
follows one desk, chosen in `Init`. A member's plan choice starts as `MemberCreate`
takes it, locked or not. `last` is the request that committed last and `alone` whether
another committed while it was under way: history variables for the properties.

**Access.** A signed request goes through `_get_keys`: the cache if it is fresh, the
lock, the second look unless the refresh is forced, the fetch, and the forced refresh of
`decode_token` for an unknown key id. The time is read before the wait for the lock, as
in the code. A fetch is two steps: `KeycloakAnswers` takes the keys that are published
then, and `Fetched` stores them later, with the time of that moment (`jwt.py:62-63`);
`Late` is the time in between. A call with an API key updates `last_used_at` and keeps
that row's lock until the handler's transaction ends; `revoke` and `rotate` update a
second row, and the database ends a deadlock by failing one of its transactions.
Signatures, expiry of a token and the names of scopes are left out.

## Runs

| Run | Result | Bounds | What it shows |
|---|---|---|---|
| `batches` | passes | 2 payments (both a survivor's), 2 batches, 1 amount, a manual line or none, no election or one that withholds a quarter | payloads, totals, statuses and events agree in every order of requests: a payment leaves under one batch, what leaves of a batch is whole and has the total it shows, a batch marked dispatched sends nothing more than an answer already under way, stored totals stay true, the ledger is written once |
| `serial` | passes | 1 worker, 2 payments, 1 batch | the transactions of one worker implement the atomic requests, so that the two modules speak of one system |
| `overlap` | passes | 2 workers, 1 payment, 1 batch | under any overlap a batch's status has its event, and a batch that shows a webhook dispatch has been sent |
| `member` | passes | 2 jobs, 2 cases, 2 dates, 2 annuities, 1 survivor request | employment, leave, annuity, death and cases stay consistent |
| `purchase` | passes | 1 claim of any of 5 types, 2 workers, payments of -1, 0 or 2, at most 3 | money and credit agree under any overlap; a claim that is not contested implements `CreditPromise` |
| `billing` | passes | 1 invoice, 2 workers, up to 2 of 4 rate rows, 2 reports, charges of -250 or 750, payments of -250 or 500, at most 2, one accrual | `amount_paid` is never more than was paid in, a paid invoice was covered, a settled invoice stays; the cache agrees with the lookup unless a type row shadows an employer's |
| `payroll` | passes | 3 reports of any of 7 files, months of 2 days, years of 2 months | response, ledger, cap, flags and billing agree, and a period is posted once, unless two reports were at work at once |
| `paycheck` | passes | 2 files, a grid of bodies around every threshold, 3 tax forms, 3 orders, 3 pay days of which one has no tables | the formulas at their boundaries; each line of a stub once and at its date |
| `records` | passes | 2 workers at each desk, 3 configuration writers, 3 rows, 3 days | one primary, one active, final stays final after any history of overlaps; configuration by date |
| `access` | passes | 3 requests, 2 key ids, 2 API keys, cache life 1, time up to 2 | the cache follows a rotation, and drops withdrawn keys within its life and the time an answer took; every request is answered |
| `keyed` | violated | as `access` | a valid API key makes every handler fail that opens its transaction itself |
| `twice` | violated | 2 workers, 1 payment, 2 batches | two overlapping batch creations send one payment twice |

Each violated run checks what a document or an error message of the code says;
`PROJECT.json` quotes it. The other properties hold, and each breaks under a mutant of
the code named in `PROJECT.json`; the mutants stand in the modules before the operators
they replace.

Bounds. Two batches are enough for a payment to be in the wrong one, two payments for a
batch to differ from its members, two workers for any pairwise race; the third
configuration writer is there because a row read by one writer may be superseded by a
second and shadowed by a third. Standing orders are not in `batches` but in the runs of
`DisbursementTx`; the theorems about the ledger cover every combination, and `paycheck`
computes real ones. Two rate rows are enough for a
lookup to choose wrongly; the theorem is for any table. Two ticks of the clock let a withdrawn key outlive the cache's life
of one. Three payroll reports allow a duplicate of a row, of a report and an overlap at
once; months of two days keep the accrual rules, days worked and proration apart.
`MaxPayments` and `MaxInterest` cut histories whose later steps repeat the earlier ones.
Batches and payments are symmetric in `batches`, workers in `overlap`, `twice`,
`billing` and `purchase`, jobs and cases in `member`; `access`, the run with a liveness
property, uses no symmetry. Deadlock is checked where staff can always do something
more; it is not where the system may stop (all invoices settled, all reports done, one
answer given, tables full, every request answered).

Properties about overlapping requests speak of what is left. `PaidIsReceived` and
`AmountPaidIsReceived` never allow more than was ever paid in, and equality with the sum
of the payment rows where nobody overlapped (an overlap can lose a payment in either
direction, so that what was given back cannot be counted there); `OnePrimary`,
`OneActive` and `FinalStays` hold for a request that no other overtook, whatever earlier
races left behind; `PostedOncePerPeriod` and `CapHolds` for reports that did not meet.
What the races themselves do to a batch is run `twice`; the lost payment, the doubled
ledger, the report posted twice and the second active address are findings in
`PROJECT.json`, at their lines, without a run.

A dispatch is safe in one direction only. `LeavesWhole` and `DispatchedOnce` say that
what leaves is right and leaves once; that a json batch marked dispatched has reached
anyone is not claimed, because it does not hold: when the answer is lost, the batch
stays dispatched and a second dispatch is refused (`batch_service.py:183`).

Fairness is assumed in `Access` only: weak fairness of each request's authentication and
of its handler. The event loop resumes a coroutine that can go on, the client of
Keycloak has a timeout, and PostgreSQL grants free row locks and breaks deadlocks.
Nothing makes anyone call, Keycloak rotate its keys or time pass. All other modules
describe staff who may stop at any point, and state safety only.

## Proofs

Every invariant, action property and refinement that a passing run checks is also proved
for every value of the constants, with two exceptions: `Serializable` is proved for one
worker, which is what it says of the code, and `EveryRequestAnswered` is liveness.

| Property | Theorem | Inductive invariant |
|---|---|---|
| run `batches` | `PaymentDisbursementProofs` | `LedgerInv`, `BatchInv`, `EventsInv` |
| run `serial` | `SingleWorkerIsSerial` in `PaymentDisbursementProofs` | `SerialInv` |
| run `overlap` | `PaymentDisbursementProofs` | `TxInv` |
| run `member` | `RetirementProofs` | `ContractInv`, `CaseInv` |
| run `paycheck` | `RetirementProofs` | `BenefitInv`, `PayInv` |
| run `purchase` | `ServicePurchaseProofs` | `PurchaseInv` |
| run `billing` | `EmployerBillingProofs` | `BillingInv` |
| run `payroll` | `PayrollIngestionProofs` | `PayrollInv` |
| run `records` | `MemberRecordsProofs` | `ConfigInv`, `RecordsInv` |
| run `access` | `AccessProofs` | `CacheInv` |

**Payments and batches.** `PaymentDisbursementProofs` assumes `ConstantsAssumption`
only. None of the properties is inductive alone. `LedgerInv` is about the amounts: net
equals gross less ledger because net pay is applied to an empty ledger only, and an
empty ledger adds up to 0 (`EmptyLedgerIsZero`); a payment's gross is one a request gave
it (`GrossWasGiven`), so the withholding function has a value for it. `BatchInv` is
about the batches: a payment points at batches that exist (`BatchesExist`), so
`CreateBatch`, the only action that moves payments (`MembershipKept`), fills a batch
that nothing was sent for; every payload sent or on its way lists the members and the
total the batch shows (`SentWhole`), which lasts because totals are written only on the
way out of draft; and from these, two batches never send one payment.
`LedgerWrittenOnce` follows from `LedgerInv` and what net pay may write
(`WithNetPayFact`). `EventsInv` compares the events with the path of a batch entry by
entry (`Follows`), so that an event appended on time continues it (`PathContinues`);
that an applied total was not yet part of any event is why changing it then is harmless.

Of the overlapping requests, for any number of workers and batches, `TxInv` says where
each can be and what it has sent (`Progress`): a webhook dispatch that is about to
commit has posted, which stays true because nothing sent is taken back, and a
reconciliation began on a batch that was dispatched. No other guard on a status is
needed, which is why both halves of `MarksAreBacked` survive reads that are stale. With
one worker nothing can become stale: `SerialInv` says that what the request has read is
what the tables hold (`Fresh`), and from there the commit of each handler, with the
reads and the POST before it as stutters or as the payload that left, is the atomic step
of `PaymentDisbursement` (`ApplyIsAtomic` and its like). That is the refinement
`Serializable`.

**Retirement cases.** `ContractInv` (types, separation, leaves) is inductive over the
requests of `MemberContract`, and is used as a lemma wherever a case calls the contract:
an approval is a `BeginAnnuity`. For the cases two facts are added: a draft has no final
annuity, which makes locked amounts recognisable, and a case has a snapshot and a date,
so that an approval writes values of the right type. That an approved case has an
annuitant needs `EndsStayEnds`: from annuitant a contract request leads to deceased
only, and to nothing from there.

**Benefits.** `BenefitInv` says that an answer is `CalculateBenefit` of a whole request
under a whole configuration (`Calculated`); an estimate's request is whole because the
file is (`EstimateIsWhole`). What remains is to prove facts about the arithmetic for all
such requests. `ApplyBands` subtracts each band from what the bands before it left: the
proof compares what is left of `q` quarters and of `q - 1` band by band (`FillingNext`,
`FilledNext`), and they differ in one band, the one `RateOf` names. For the final
average, the place of a year in the sorted list is its rank, a stretch of calendar years
whose members are all active has consecutive ranks, and so it is one of the windows from
which `BestWindow` takes the greatest (`StretchIsWindow`); a sum of n amounts is at most
n times the greatest (`SumIsBounded`). For waiting, the age a month later is no less
(`AgeGrows`), therefore neither are the cap, through its historic tables (`CapsRise`),
nor the reduction factor, nor who is eligible; the final average reads the termination
and not the retirement (`AverageReads`); products, quotients and the greatest of three
formulas keep the order (`BaseGrows`). `FinalIsNatural` makes an award a whole amount.
The theorems assume `CalendarAssumption`, `FactorsAssumption` and `FilesAssumption`:
whole numbers that are not negative, divisors that are not 0, finitely many rows.

**Check stubs.** `PayInv` adds that orders and elections are finite sets of whole rows,
that a jurisdiction has one current election at most (`OneCurrent`, kept because
`SetTaxWithholding` ends the one before with a date), and that a slip is `NetPay` of
what is on file (`SlipIsOfFile`). `PaycheckIsWhole` then is a matter of sums: the three
kinds of lines share nothing and are all there is (`LinesAreTakenOnce`). `TaxIsMarginal`
is `BracketIsMarginal`: in a contiguous table exactly the brackets up to the one that is
found have a portion of the amount, and the portions below it are the tax on its floor,
from which its base may differ. Nothing is assumed of the bases. Assumed are
`TablesAssumption`, `FormsAssumption` and `UnboundedAssumption`.

**Service purchase.** `ServicePurchaseProofs` proves the refinement `Spec =>
KeepsThePromise` and the two invariants of the run, from `SettingsAssumption`,
`AmountsAssumption`, `ClaimsAssumption` and `PricesAssumption` (amounts and prices are
whole cents of any sign). `PurchaseInv` says of every request at work that the row it
loaded is one the claim has been (`PastRow`: type and price are those of the claim, its
`paid` is not more than was paid in by now), and of a claim that is not contested that
at most one request is at work on it, with the row as it is, and that its credit entries
fit its status (`CreditsFit`). `CommitKeeps` does the work once for all handlers: a
commit that can justify its row by the row it loaded (`Justified`) keeps the invariant,
and on an uncontested claim the flush stores exactly the row the handler computed. Each
handler is then shown to be justified and mapped to the move of `CreditPromise` it
makes; any step on a contested claim is `Dispute`.

**Billing.** In the same way `BillingInv` keeps for every request that the rows it
loaded are ones the invoices have been (`PastRow`) and passed its check (`Checked`), and
for an invoice that is not contested that its only request holds the row as it is
(`Uncontested`). `CommitKeeps` serves all handlers, the sweep of overdue invoices over
many rows included. That a drafted deficiency is a whole number of cents follows from
the rows of the report (`DeficiencyIsNatural`). `CacheAgreesUnlessShadowed` holds
because `Before` is a strict order with a first row in every finite set (`FirstExists`),
so both readers find the same first row. Assumed are `AmountsAssumption` (whole cents of
any sign), `DaysAssumption`, `InterestAssumption`, `RateRowsAssumption`,
`ReportsAssumption`, `KeysAssumption` and `DatesAssumption`.

**Payroll.** `PayrollInv` follows a report row by row. `RowsTell`: the decision noted
for a row is explained by the row, its job and the rates (`Tells`); `PostsTell` and
`CreditsTell`: the entries of a report in the ledgers, committed or not, are those its
decided rows made, one each; `PeriodsMet`: two entries of one period are of reports that
met; `CapsSeen`: in what a report sees of the ledger no cap is exceeded by reports that
did not meet. Caps are the hard part, because two sets of entries that each stay within
the cap need not do so together. What one report sees of the ledger includes all that
reports it never met have posted, so sets are only ever joined that are of reports which
met (`CapTogether`), and more meetings only excuse more (`CapOfMoreMet`). The properties
of the run follow, the counts of the response by `CountsAddUp` and billing by
`ReportDeficiencyFacts`: a sum of natural numbers is positive exactly when one of them
is. `CapHolds` speaks of the caps in force on the days of the year, since the cap may be
raised within it, as it is in the run.

**Records.** A configuration row is only ever superseded by one that starts after it and
is stored in the same step, so on every day a superseded row has a later one that
started: `ConfigInv`, and with it `LatestInForce`, for any dates and writers.
`MemberRecords` implements `SystemConfiguration` (`RecordsServeConfiguration`), so the
theorem carries over. For the desks `RecordsInv` is `OnePrimary` and `OneActive` with
the types of the rows, and its core is that a request that no other overtook has loaded
the table as it is: what it checked still holds, and the flush writes every column it
meant to (`Committed`). `HandlersIntend` lists what each handler means to write.

**Access.** `CacheInv` ties the cache to the time it was filled: no key in it was
withdrawn before Keycloak made the answer it was filled from, which is `Late` before the
cache shows. A request that is judged by the time it came, although it waited for the
lock since, meets a cache that shows at most one life more than its arrival, and a
forced refresh looks its key id up in an answer Keycloak made after the request came.

**Recursions.** No module declares a RECURSIVE operator; sums are `SumFunction` of the
community modules and the other recursions are recursive functions. What they compute is
proved without an induction theorem, by a least counterexample: among the finite sets
for which a fact fails there is one none of whose proper subsets fails (`SmallestSet`,
from the well-foundedness of inclusion), and the first step of the recursion leads from
it to a smaller one. For natural numbers the same argument gives `LeastNatural` and
`NaturalInduction`, stated with a set in the place of a predicate. The lemmas on sums
(`TakeOut`, `AddOne`, `SumIsLocal`, `SumOfParts`) are proved this way.

All assumptions are the named `ASSUME`s of the modules, and TLC evaluates them in the
runs. What is only model-checked: `EveryRequestAnswered`, since liveness under fairness
and ENABLED are out of the prover's reach, and the two violated runs, which are
counterexamples.

## Not modelled

* Document generation, attachments and reports: queries, templates, PDF and file I/O with
  at most one inserted row.
* Employers, employments and third-party entities as records of their own: plain inserts
  and reads. Employments are modelled where they are opened and closed (`MemberContract`).
* `change_percent_time`: a percentage and a salary row that no handler here reads.
* `create_member`, the bulk import and `update_name`: inserts of one row, and a change that
  is rolled back (a finding).
* `parse_csv` yields the same rows as a JSON body; `check_eligibility` is called by nothing.
* Overlapping requests in `RetirementCases`: nothing in the code prevents two creations or
  two activations from both passing their guard (hazards).
* The frontend, migrations and seed scripts: no state of the system's own.

Amounts are whole cents everywhere, of any sign where the request schemas bound no sign
(payments on claims and invoices, charges, salaries and rates behind prices); the
amounts of payroll rows and the gross of a payment are bounded by their schemas. A
payment with fractions of a cent is rounded half away from zero by its column and half
to even in `cost_paid` and `amount_paid`, which can differ by a cent. Standing orders
may have four decimals (`Numeric(10, 4)`), and their rows are rounded one by one while
the net is rounded once; that difference is listed as a hazard.

## Observed and not checked

* The signing keys are said to be cached for five minutes (`jwt.py:3`, `ARCHITECTURE.md:262`,
  `README.md:194`). The five minutes begin when the answer is stored, so a withdrawn key
  lives longer by the time the answer took; without `Late` `WithdrawnKeysExpire` fails.
* A negative payment on a claim or invoice lowers what was paid and never takes back a
  status or a credit that was given.
* `ARCHITECTURE.md:100` promises 409 when net pay was already applied. An application that
  yields no line leaves no trace and can be repeated after an order or election appears;
  in a batch, `total_net` then no longer describes the members. `BatchCoversItsMembers`
  therefore speaks of `total_gross` and `payment_count` only.
* `apply_net_pay` links a deduction row to its order by the deduction type alone, so two
  orders of one type are linked to the same one.
* `payment_events.py:3` says one event per transition or action; reversals, status updates
  and the creation of payments emit none, and repeated transitions of overlapping requests
  emit two.
* `ARCHITECTURE.md:161` and `retirement_service.py:12` promise one open case; overlapping
  creations are not prevented. Cancelling an approved case leaves an annuitant who can
  open no case (`USER_STORIES.md:231`).
* A draft invoice can be paid without having been issued, and each accrual of interest
  counts the days since the due date again.
* Final average earnings slide over the years that have earnings, so a window can span a
  gap; the spike cap compares consecutive years whatever the employer; a reversionary
  reduction is floored at 0.
* The request schema of the calculator (`schemas/benefit.py:29`) bounds no number: service,
  salaries and days below 0 are accepted and calculated with. The models, and the theorems
  about them, speak of requests without such numbers.
* The anniversaries of `benefit/aai.py:45-51` are dates built from parts, which fails for
  February 29 before a common year.
* The base taxes of some federal tables of `scripts/seed_mvp.py` are not the tax on what lies
  below. 2025, single: 0.50 too high from 17651.50 (`:106`) to 57231.50 (`:108`) and right
  again at `:109`, where the tax falls by 0.50. 2025, married: 80397.00 (`:116`) is 1.00 too
  low. 2026, single, step 2: 20512.00 (`:184`) and 29224.00 (`:185`) are 0.12 too low, 96489.63
  (`:186`) is 0.06 too high. Where the error falls from one band to the next, a cent more of
  income lowers the tax. `TaxIsMarginal` gives the error its size and its place, its own
  bracket; `paycheck` has a table with such a base. Some comments name the jurisdiction
  `illinois` where the seed data and the code say `state`.

## What is left

1. The contract and case requests as overlapping transactions, in the way of
   `DisbursementTx`: two creations, two activations, a death during an approval.
2. Theorems beyond the properties of the runs: what of the ledger of a payment survives
   overlapping requests, and that a longer service never lowers an annuity.
3. Standing orders with four decimals and the rounding of their rows.
