------------------------- MODULE PaymentDisbursement -------------------------
(***************************************************************************)
(* Payment disbursement: the payments of one member's payment date, the    *)
(* deduction ledger of each payment, the batches that carry payments to    *)
(* the bank, the accounting events of a batch and its payloads, on their   *)
(* way in a response and received by the bank.  Every request is one database transaction, taken here as *)
(* one atomic step; DisbursementTx splits the requests into the reads and  *)
(* the writes of concurrent transactions and refines this module.          *)
(*                                                                         *)
(* Amounts are integers (cents).  The deduction rows of a payment are kept *)
(* as how many there are and what they add up to.                          *)
(***************************************************************************)
EXTENDS Integers, Sequences, FiniteSets, Functions

CONSTANTS
    Payments,          \* primary keys of BenefitPayment
    Batches,           \* primary keys of PaymentBatch
    NoBatch,           \* batch_id IS NULL
    SurvivorPayments,  \* the survivor_annuity payments of the beneficiary
    Amounts,           \* gross amounts a payment is created with
    ManualLines,       \* additional_deductions of a PaymentCreate
    OrderSets,         \* standing orders in effect on the payment date
    Elections,         \* withholding elections in effect on the payment date
    NoElection,        \* no election row qualifies
    Tax(_, _)          \* withholding of an election on a taxable gross

Lines == [rows : Nat, total : Nat]

ASSUME ConstantsAssumption ==
    /\ NoBatch \notin Batches
    /\ SurvivorPayments \subseteq Payments
    /\ Amounts \subseteq Nat
    /\ ManualLines \subseteq Lines
    /\ \A m \in ManualLines : m.rows = 0 => m.total = 0
    /\ OrderSets \subseteq [rows : Nat, pretax : Nat, posttax : Nat]
    /\ \A o \in OrderSets : o.rows = 0 => o.pretax = 0 /\ o.posttax = 0
    /\ NoElection \in Elections
    /\ \A e \in Elections, g \in Amounts, o \in OrderSets : Tax(e, g - o.pretax) \in Nat

VARIABLES
    payment,      \* BenefitPayment rows
    deductions,   \* PaymentDeduction rows of each payment
    orders,       \* DeductionOrder rows that cover the payment date
    election,     \* the TaxWithholdingElection the payment date selects
    batchStatus,  \* PaymentBatch.status
    totals,       \* PaymentBatch.total_gross, total_net and payment_count
    events,       \* PaymentEvent rows of each batch, oldest first
    format,       \* PaymentBatch.dispatch_format, "none" for NULL
    answers,      \* payloads of each batch in responses still on their way
    sent,         \* payloads of each batch that the bank has
    deceased      \* Beneficiary.deceased_date IS NOT NULL

outVars    == <<format, answers, sent>>
batchVars  == <<batchStatus, totals, events, outVars>>
memberVars == <<orders, election, deceased>>
vars       == <<payment, deductions, batchVars, memberVars>>

PaymentStatus == {"pending", "issued", "held", "reversed", "cancelled"}

NoLines == [rows |-> 0, total |-> 0]

PaymentRow == [status   : PaymentStatus \cup {"absent"},
               gross    : Amounts \cup {0},
               net      : Int,
               batch    : Batches \cup {NoBatch},
               issuedAt : BOOLEAN]

Formats == {"json", "webhook"}

BatchStatus == {"absent", "draft", "net_pay_applied", "dispatched", "reconciled"}

Absent == [status |-> "absent", gross |-> 0, net |-> 0,
           batch |-> NoBatch, issuedAt |-> FALSE]

\* The three columns are NULL until net pay is applied; 0 stands for NULL.
NoTotals == [gross |-> 0, net |-> 0, count |-> 0]

Init ==
    /\ payment = [p \in Payments |-> Absent]
    /\ deductions = [p \in Payments |-> NoLines]
    /\ orders \in OrderSets
    /\ election \in Elections
    /\ batchStatus = [b \in Batches |-> "absent"]
    /\ totals = [b \in Batches |-> NoTotals]
    /\ events = [b \in Batches |-> <<>>]
    /\ format = [b \in Batches |-> "none"]
    /\ answers = [b \in Batches |-> {}]
    /\ sent = [b \in Batches |-> {}]
    /\ deceased = FALSE
-----------------------------------------------------------------------------
Exists(p) == payment[p].status # "absent"

Members(b) == {p \in Payments : payment[p].batch = b}

\* What calculate_net_pay withholds from a gross: pre-tax orders, the tax on
\* what they leave, post-tax orders.  An election that withholds nothing still
\* makes a row.
NetPayLines(g) ==
    [rows  |-> orders.rows + (IF election = NoElection THEN 0 ELSE 1),
     total |-> orders.pretax + orders.posttax
               + (IF election = NoElection THEN 0 ELSE Tax(election, g - orders.pretax))]

\* How far along draft -> net_pay_applied -> dispatched -> reconciled a batch is.
StepsTaken(s) ==
    [absent |-> 0, draft |-> 1, net_pay_applied |-> 2, dispatched |-> 3, reconciled |-> 4][s]

Emit(b, type, amount) ==
    events' = [events EXCEPT ![b] = Append(@, [type |-> type, amount |-> amount])]

\* _build_dispatch_payload: every payment of the batch, whatever its status.
Payload(b) ==
    [net   |-> [p \in Members(b) |-> payment[p].net],
     total |-> totals[b].net]
-----------------------------------------------------------------------------
(* Requests on single payments *)

\* Also how a retirement case's activation and initiate_survivor_payments make
\* a payment: with neither standing orders nor manual lines.
CreatePayment(p, g, manual, applyStandingOrders) ==
    LET rows  == manual.rows + (IF applyStandingOrders THEN orders.rows ELSE 0)
        total == manual.total
                 + (IF applyStandingOrders THEN orders.pretax + orders.posttax ELSE 0)
    IN  /\ ~Exists(p)
        /\ payment' = [payment EXCEPT ![p] =
               [status |-> "pending", gross |-> g, net |-> g - total,
                batch |-> NoBatch, issuedAt |-> FALSE]]
        /\ deductions' = [deductions EXCEPT ![p] = [rows |-> rows, total |-> total]]
        /\ UNCHANGED <<batchVars, memberVars>>

StatusUpdateAllowed(p, s) ==
    /\ Exists(p)
    /\ payment[p].status = "issued" => s \in {"reversed", "held"}

UpdatePaymentStatus(p, s) ==
    /\ StatusUpdateAllowed(p, s)
    /\ payment' = [payment EXCEPT ![p].status = s,
                                  ![p].issuedAt = @ \/ s = "issued"]
    /\ UNCHANGED <<deductions, batchVars, memberVars>>

ReverseAllowed(p) == Exists(p) /\ payment[p].status \notin {"reversed", "cancelled"}

ReversePayment(p) ==
    /\ ReverseAllowed(p)
    /\ payment' = [payment EXCEPT ![p].status = "reversed"]
    /\ UNCHANGED <<deductions, batchVars, memberVars>>

\* Mutant: apply_net_pay never looks at the rows.
NetPayApplicableToAny(p) == Exists(p) /\ payment[p].status # "issued"

\* The guards of apply_net_pay: not issued, and no deduction row yet.
NetPayApplicable(p) ==
    /\ Exists(p)
    /\ payment[p].status # "issued"
    /\ deductions[p].rows = 0

\* What apply_net_pay writes, for every payment of S.
WithNetPay(S) ==
    [p \in Payments |->
        IF p \in S
        THEN [payment[p] EXCEPT !.net = payment[p].gross - NetPayLines(payment[p].gross).total]
        ELSE payment[p]]

WithNetPayLines(S) ==
    [p \in Payments |->
        IF p \in S
        THEN [rows  |-> deductions[p].rows + NetPayLines(payment[p].gross).rows,
              total |-> deductions[p].total + NetPayLines(payment[p].gross).total]
        ELSE deductions[p]]

ApplyNetPay(p) ==
    /\ NetPayApplicable(p)
    /\ payment' = WithNetPay({p})
    /\ deductions' = WithNetPayLines({p})
    /\ UNCHANGED <<batchVars, memberVars>>

TerminateSurvivorAnnuity ==
    /\ ~deceased
    /\ deceased' = TRUE
    /\ payment' = [p \in Payments |->
           IF p \in SurvivorPayments /\ payment[p].status \in {"pending", "held"}
           THEN [payment[p] EXCEPT !.status = "cancelled"]
           ELSE payment[p]]
    /\ UNCHANGED <<deductions, orders, election, batchVars>>
-----------------------------------------------------------------------------
(* What the payment date selects: standing orders begin and end, elections *)
(* are superseded.                                                         *)

ChangeStandingOrders(o) ==
    /\ orders' = o
    /\ UNCHANGED <<payment, deductions, election, deceased, batchVars>>

SetTaxWithholding(e) ==
    /\ election' = e
    /\ UNCHANGED <<payment, deductions, orders, deceased, batchVars>>
-----------------------------------------------------------------------------
(* Requests on batches *)

\* Mutant: a payment already in a batch is not refused.
BatchableAgain(S) == S # {} /\ \A p \in S : payment[p].status = "pending"

Batchable(S) ==
    /\ S # {}
    /\ \A p \in S : payment[p].status = "pending" /\ payment[p].batch = NoBatch

CreateBatch(b, S) ==
    /\ batchStatus[b] = "absent"
    /\ Batchable(S)
    /\ batchStatus' = [batchStatus EXCEPT ![b] = "draft"]
    /\ payment' = [p \in Payments |->
           IF p \in S THEN [payment[p] EXCEPT !.batch = b] ELSE payment[p]]
    /\ Emit(b, "batch_created", 0)
    /\ UNCHANGED <<deductions, totals, outVars, memberVars>>

\* One payment that refuses net pay fails the request for the whole batch.
ApplyNetPayToBatch(b) ==
    LET S        == Members(b)
        totalNet == SumFunction([p \in S |-> WithNetPay(S)[p].net])
    IN  /\ batchStatus[b] = "draft"
        /\ S # {}
        /\ \A p \in S : NetPayApplicable(p)
        /\ payment' = WithNetPay(S)
        /\ deductions' = WithNetPayLines(S)
        /\ batchStatus' = [batchStatus EXCEPT ![b] = "net_pay_applied"]
        /\ totals' = [totals EXCEPT ![b] =
               [gross |-> SumFunction([p \in S |-> payment[p].gross]),
                net   |-> totalNet,
                count |-> Cardinality(S)]]
        /\ Emit(b, "net_pay_applied", totalNet)
        /\ UNCHANGED <<outVars, memberVars>>

\* What dispatch_batch writes: status, format and the accounting event.
MarkDispatched(b, f) ==
    /\ batchStatus' = [batchStatus EXCEPT ![b] = "dispatched"]
    /\ format' = [format EXCEPT ![b] = f]
    /\ Emit(b, "dispatched", totals[b].net)
    /\ UNCHANGED <<payment, deductions, totals, memberVars>>

\* Mutants: a dispatched batch can be dispatched again; a batch is recorded as
\* posted and its payload never leaves.
DispatchByWebhookAgain(b) ==
    /\ batchStatus[b] \in {"net_pay_applied", "dispatched"}
    /\ sent' = [sent EXCEPT ![b] = @ \cup {Payload(b)}]
    /\ MarkDispatched(b, "webhook")
    /\ UNCHANGED answers

DispatchByWebhookUnsent(b) ==
    /\ batchStatus[b] = "net_pay_applied"
    /\ MarkDispatched(b, "webhook")
    /\ UNCHANGED <<answers, sent>>

\* The receiver answers the POST, then the transaction commits.  (Format nacha
\* raises NotImplementedError first.)
DispatchByWebhook(b) ==
    /\ batchStatus[b] = "net_pay_applied"
    /\ sent' = [sent EXCEPT ![b] = @ \cup {Payload(b)}]
    /\ MarkDispatched(b, "webhook")
    /\ UNCHANGED answers

\* The receiver has the payload and post() or raise_for_status() raises: the
\* answer was an error or came after the timeout.  The transaction rolls back.
DispatchWebhookFails(b) ==
    /\ batchStatus[b] = "net_pay_applied"
    /\ sent' = [sent EXCEPT ![b] = @ \cup {Payload(b)}]
    /\ UNCHANGED <<payment, deductions, batchStatus, totals, events, format, answers,
                   memberVars>>

\* Mutant: a batch dispatched as json gives its payload again.
DispatchAsJsonAgain(b) ==
    /\ \/ batchStatus[b] = "net_pay_applied"
       \/ batchStatus[b] = "dispatched" /\ format[b] = "json"
    /\ answers' = [answers EXCEPT ![b] = @ \cup {Payload(b)}]
    /\ MarkDispatched(b, "json")
    /\ UNCHANGED sent

\* The transaction commits first; the payload is the body of the response.
DispatchAsJson(b) ==
    /\ batchStatus[b] = "net_pay_applied"
    /\ answers' = [answers EXCEPT ![b] = @ \cup {Payload(b)}]
    /\ MarkDispatched(b, "json")
    /\ UNCHANGED sent

\* The response arrives, and the caller passes it on to the bank ...
DeliverAnswer(b) ==
    \E x \in answers[b] :
        /\ answers' = [answers EXCEPT ![b] = @ \ {x}]
        /\ sent' = [sent EXCEPT ![b] = @ \cup {x}]
        /\ UNCHANGED <<payment, deductions, batchStatus, totals, events, format, memberVars>>

\* ... or the process or the connection ends before it does.
LoseAnswer(b) ==
    \E x \in answers[b] :
        /\ answers' = [answers EXCEPT ![b] = @ \ {x}]
        /\ UNCHANGED <<payment, deductions, batchStatus, totals, events, format, sent,
                       memberVars>>

ReconcileBatch(b) ==
    /\ batchStatus[b] = "dispatched"
    /\ payment' = [p \in Payments |->
           IF p \in Members(b) /\ payment[p].status = "pending"
           THEN [payment[p] EXCEPT !.status = "issued", !.issuedAt = TRUE]
           ELSE payment[p]]
    /\ batchStatus' = [batchStatus EXCEPT ![b] = "reconciled"]
    /\ Emit(b, "reconciled", totals[b].net)
    /\ UNCHANGED <<deductions, totals, outVars, memberVars>>
-----------------------------------------------------------------------------
PaymentRequest ==
    \E p \in Payments :
        \/ \E g \in Amounts, m \in ManualLines, a \in BOOLEAN : CreatePayment(p, g, m, a)
        \/ \E s \in PaymentStatus : UpdatePaymentStatus(p, s)
        \/ ReversePayment(p)
        \/ ApplyNetPay(p)

BatchRequest ==
    \E b \in Batches :
        \/ \E S \in SUBSET Payments : CreateBatch(b, S)
        \/ ApplyNetPayToBatch(b)
        \/ DispatchByWebhook(b)
        \/ DispatchWebhookFails(b)
        \/ DispatchAsJson(b)
        \/ DeliverAnswer(b)
        \/ LoseAnswer(b)
        \/ ReconcileBatch(b)

MemberRequest ==
    \/ TerminateSurvivorAnnuity
    \/ \E o \in OrderSets : ChangeStandingOrders(o)
    \/ \E e \in Elections : SetTaxWithholding(e)

Next == PaymentRequest \/ BatchRequest \/ MemberRequest

Spec == Init /\ [][Next]_vars

-----------------------------------------------------------------------------
(* Properties *)

\* Every row has the columns and the statuses of its table.  (The totals of a
\* batch are the subject of BatchCoversItsMembers.)
TypeOK ==
    /\ payment \in [Payments -> PaymentRow]
    /\ deductions \in [Payments -> Lines]
    /\ orders \in OrderSets
    /\ election \in Elections
    /\ batchStatus \in [Batches -> BatchStatus]
    /\ DOMAIN totals = Batches /\ DOMAIN events = Batches
    /\ format \in [Batches -> Formats \cup {"none"}]
    /\ DOMAIN answers = Batches /\ DOMAIN sent = Batches
    /\ deceased \in BOOLEAN

\* The stored net_amount is gross_amount less the deduction rows of the
\* payment, whichever requests wrote the rows and in whatever order.
NetIsGrossMinusDeductions ==
    \A p \in Payments : payment[p].net = payment[p].gross - deductions[p].total

\* The accounting events of a batch are exactly the transitions its status has
\* gone through, in order, each for the batch's own total_net.
EventsRecordTheLifecycle ==
    \A b \in Batches :
        LET net  == totals[b].net
            path == <<[type |-> "batch_created",   amount |-> 0],
                      [type |-> "net_pay_applied", amount |-> net],
                      [type |-> "dispatched",      amount |-> net],
                      [type |-> "reconciled",      amount |-> net]>>
        IN  events[b] = SubSeq(path, 1, StepsTaken(batchStatus[b]))

\* The bank never receives a payment under two batches.
SentUnderOneBatch ==
    \A b, c \in Batches : \A x \in sent[b], y \in sent[c] :
        DOMAIN x.net \cap DOMAIN y.net # {} => b = c

\* Whatever of a batch has left the system or is leaving it, after failed posts
\* too, lists the payments that still point at the batch, under the total the
\* batch still shows; and the bank has it for every batch posted to a webhook.
LeavesWhole ==
    \A b \in Batches :
        /\ \A x \in sent[b] \cup answers[b] :
              DOMAIN x.net = Members(b) /\ x.total = totals[b].net
        /\ format[b] = "webhook" => sent[b] # {}

\* A dispatch is not repeated: once a batch is marked, the bank receives nothing
\* of it but the one answer still on its way, and nothing at all when that answer
\* is lost.
DispatchedOnce ==
    [][\A b \in Batches : batchStatus[b] \in {"dispatched", "reconciled"} =>
          /\ answers'[b] \subseteq answers[b]
          /\ sent'[b] \subseteq sent[b] \cup answers[b]]_vars

\* From net_pay_applied on, total_gross and payment_count describe the payments
\* that point at the batch, although they are stored and never recomputed.
BatchCoversItsMembers ==
    \A b \in Batches : batchStatus[b] \notin {"absent", "draft"} =>
        /\ totals[b].gross = SumFunction([p \in Members(b) |-> payment[p].gross])
        /\ totals[b].count = Cardinality(Members(b))

\* Once a payment has a deduction row, its ledger and its amounts are final:
\* no later request adds a row or moves the net.
LedgerWrittenOnce ==
    [][\A p \in Payments : deductions[p].rows > 0 =>
          /\ deductions'[p] = deductions[p]
          /\ payment'[p].gross = payment[p].gross
          /\ payment'[p].net = payment[p].net]_vars
=============================================================================
