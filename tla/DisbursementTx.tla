---------------------------- MODULE DisbursementTx ----------------------------
(***************************************************************************)
(* The requests of PaymentDisbursement as the database sees them.  Each is *)
(* served by one worker in one transaction under READ COMMITTED: SELECTs   *)
(* that see what is committed at that moment, an HTTP POST for a webhook   *)
(* dispatch, then one commit of the columns the handler assigned and, for  *)
(* a json dispatch, the response with the payload.  No row is read FOR     *)
(* UPDATE and no row has a version, so a commit writes what the worker     *)
(* computed from what it read, whatever has been committed in between.     *)
(* What a transaction writes becomes visible to the others at its commit.  *)
(*                                                                         *)
(* The guards are those of PaymentDisbursement, evaluated on the reads.    *)
(* A worker's `saw` fields are the rows in its session's identity map.     *)
(***************************************************************************)
EXTENDS PaymentDisbursement

CONSTANT Workers    \* connections that serve requests

VARIABLE req        \* the request each worker is serving

txVars == <<vars, req>>

Idle == [op |-> "idle"]

TxInit == Init /\ req = [w \in Workers |-> Idle]
-----------------------------------------------------------------------------
Serve(w, r) == req' = [req EXCEPT ![w] = r]

Start(w, r) == /\ req[w] = Idle
               /\ Serve(w, r)
               /\ UNCHANGED vars

\* The handler is at step `at` of request `op`.
At(w, op, at) == req[w].op = op /\ req[w].at = at

\* The ORM updates a column only when the assigned value differs from the one
\* it loaded; otherwise the row keeps what is there.
Written(saw, new, now) == IF new = saw THEN now ELSE new

\* What applying net pay to a batch and reconciling it require its status to be.
From == [apply |-> "draft", reconcile |-> "dispatched"]
-----------------------------------------------------------------------------
(* First reads *)

BeginStatusUpdate(w, p, s) ==
    /\ StatusUpdateAllowed(p, s)
    /\ Start(w, [op |-> "status", at |-> "commit", p |-> p, to |-> s, saw |-> payment[p].status])

\* Reversing assigns the status only, as an update to "reversed" would.
BeginReversal(w, p) ==
    /\ ReverseAllowed(p)
    /\ Start(w, [op |-> "status", at |-> "commit", p |-> p, to |-> "reversed",
                 saw |-> payment[p].status])

BeginApplyNetPay(w, p) ==
    /\ Exists(p)
    /\ payment[p].status # "issued"
    /\ Start(w, [op |-> "apply", at |-> "ledger", b |-> NoBatch, saw |-> [q \in {p} |-> payment[q]]])

BeginTermination(w) ==
    /\ ~deceased
    /\ Start(w, [op |-> "terminate", at |-> "commit",
                 cancel |-> {p \in SurvivorPayments : payment[p].status \in {"pending", "held"}}])

BeginCreateBatch(w, S) ==
    /\ Batchable(S)
    /\ Start(w, [op |-> "create", at |-> "commit", S |-> S])

BeginBatchRequest(w, b, op) ==
    /\ batchStatus[b] = From[op]
    /\ Start(w, [op |-> op, at |-> "members", b |-> b, net |-> totals[b].net])

\* The format of the request, and the one the row had when it was loaded.
BeginDispatch(w, b, f) ==
    /\ batchStatus[b] = "net_pay_applied"
    /\ Start(w, [op |-> "dispatch", at |-> "members", b |-> b, net |-> totals[b].net,
                 by |-> f, was |-> format[b]])
-----------------------------------------------------------------------------
(* Further reads *)

\* apply-net-pay refuses a batch without payments and, later, an issued one.
ReadMembers(w) ==
    LET r == req[w]
        next == [apply |-> "ledger", reconcile |-> "commit"]
    IN  /\ r # Idle /\ r.at = "members" /\ r.op # "dispatch"
        /\ r.op = "apply" => /\ Members(r.b) # {}
                             /\ \A p \in Members(r.b) : payment[p].status # "issued"
        /\ Serve(w, [op |-> r.op, at |-> next[r.op], b |-> r.b, net |-> r.net,
                     saw |-> [p \in Members(r.b) |-> payment[p]]])
        /\ UNCHANGED vars

\* Only a webhook is posted to before the commit.
ReadDispatched(w) ==
    LET r == req[w]
    IN  /\ r # Idle /\ At(w, "dispatch", "members")
        /\ Serve(w, [op |-> "dispatch", at |-> IF r.by = "webhook" THEN "post" ELSE "commit",
                     b |-> r.b, net |-> r.net, by |-> r.by, was |-> r.was,
                     saw |-> [p \in Members(r.b) |-> payment[p]]])
        /\ UNCHANGED vars

\* The idempotency guard, then orders and elections; for a batch, the loop over
\* its payments taken at once.
ReadLedger(w) ==
    LET r == req[w]
    IN  /\ r # Idle /\ r.at = "ledger"
        /\ \A p \in DOMAIN r.saw : deductions[p].rows = 0
        /\ Serve(w, [op |-> "apply", at |-> "commit", b |-> r.b, saw |-> r.saw,
                     lines |-> [p \in DOMAIN r.saw |-> NetPayLines(r.saw[p].gross)]])
        /\ UNCHANGED vars

\* The payload of the rows a dispatch has read.
PayloadRead(r) == [net |-> [p \in DOMAIN r.saw |-> r.saw[p].net], total |-> r.net]

\* The webhook's receiver has the payload before the transaction is committed.
Post(w) ==
    LET r == req[w]
    IN  /\ r # Idle /\ r.at = "post"
        /\ sent' = [sent EXCEPT ![r.b] = @ \cup {PayloadRead(r)}]
        /\ Serve(w, [r EXCEPT !.at = "commit"])
        /\ UNCHANGED <<payment, deductions, batchStatus, totals, events, format, answers,
                       memberVars>>
-----------------------------------------------------------------------------
(* Commits *)

CommitStatus(w) ==
    LET r == req[w]
    IN  /\ r # Idle /\ r.op = "status"
        /\ payment' = [payment EXCEPT ![r.p].status = Written(r.saw, r.to, @),
                                      ![r.p].issuedAt = @ \/ r.to = "issued"]
        /\ Serve(w, Idle)
        /\ UNCHANGED <<deductions, batchVars, memberVars>>

CommitTermination(w) ==
    LET r == req[w]
    IN  /\ r # Idle /\ r.op = "terminate"
        /\ deceased' = TRUE
        /\ payment' = [p \in Payments |->
               IF p \in r.cancel THEN [payment[p] EXCEPT !.status = "cancelled"]
               ELSE payment[p]]
        /\ Serve(w, Idle)
        /\ UNCHANGED <<deductions, orders, election, batchVars>>

\* The primary key is the database's, so two workers never create one batch.
CommitCreateBatch(w) ==
    LET r == req[w]
    IN  /\ r # Idle /\ r.op = "create"
        /\ \E b \in Batches :
              /\ batchStatus[b] = "absent"
              /\ batchStatus' = [batchStatus EXCEPT ![b] = "draft"]
              /\ payment' = [p \in Payments |->
                     IF p \in r.S THEN [payment[p] EXCEPT !.batch = b] ELSE payment[p]]
              /\ Emit(b, "batch_created", 0)
        /\ Serve(w, Idle)
        /\ UNCHANGED <<deductions, totals, outVars, memberVars>>

\* Rows are inserted whatever is in the ledger by now; the totals are of the
\* payments that still point at the batch, with the worker's own amounts.
CommitApply(w) ==
    LET r      == req[w]
        net(p) == r.saw[p].gross - r.lines[p].total
        still  == {p \in DOMAIN r.saw : payment[p].batch = r.b}
        total  == SumFunction([p \in still |-> net(p)])
    IN  /\ r # Idle /\ At(w, "apply", "commit")
        /\ payment' = [p \in Payments |->
               IF p \in DOMAIN r.saw
               THEN [payment[p] EXCEPT !.net = Written(r.saw[p].net, net(p), @)]
               ELSE payment[p]]
        /\ deductions' = [p \in Payments |->
               IF p \in DOMAIN r.saw
               THEN [rows  |-> deductions[p].rows + r.lines[p].rows,
                     total |-> deductions[p].total + r.lines[p].total]
               ELSE deductions[p]]
        /\ IF r.b = NoBatch
           THEN UNCHANGED <<batchStatus, totals, events>>
           ELSE /\ batchStatus' = [batchStatus EXCEPT ![r.b] = "net_pay_applied"]
                /\ totals' = [totals EXCEPT ![r.b] =
                       [gross |-> SumFunction([p \in still |-> r.saw[p].gross]),
                        net   |-> total,
                        count |-> Cardinality(still)]]
                /\ Emit(r.b, "net_pay_applied", total)
        /\ Serve(w, Idle)
        /\ UNCHANGED <<outVars, memberVars>>

\* Mutant: a webhook dispatch is committed before the POST.
CommitDispatchEarly(w) ==
    LET r == req[w]
    IN  /\ At(w, "dispatch", "post")
        /\ batchStatus' = [batchStatus EXCEPT ![r.b] = "dispatched"]
        /\ format' = [format EXCEPT ![r.b] = Written(r.was, r.by, @)]
        /\ Emit(r.b, "dispatched", r.net)
        /\ Serve(w, Idle)
        /\ UNCHANGED <<payment, deductions, totals, answers, sent, memberVars>>

\* With format json the response is on its way as soon as the commit is through.
CommitDispatch(w) ==
    LET r == req[w]
    IN  /\ At(w, "dispatch", "commit")
        /\ batchStatus' = [batchStatus EXCEPT ![r.b] = "dispatched"]
        /\ format' = [format EXCEPT ![r.b] = Written(r.was, r.by, @)]
        /\ answers' = IF r.by = "json"
                      THEN [answers EXCEPT ![r.b] = @ \cup {PayloadRead(r)}]
                      ELSE answers
        /\ Emit(r.b, "dispatched", r.net)
        /\ Serve(w, Idle)
        /\ UNCHANGED <<payment, deductions, totals, sent, memberVars>>

\* Mutant: every payment of the batch is issued.
CommitReconcileAll(w) ==
    LET r == req[w]
    IN  /\ At(w, "reconcile", "commit")
        /\ payment' = [p \in Payments |->
               IF p \in DOMAIN r.saw
               THEN [payment[p] EXCEPT !.status = "issued", !.issuedAt = TRUE]
               ELSE payment[p]]
        /\ batchStatus' = [batchStatus EXCEPT ![r.b] = "reconciled"]
        /\ Emit(r.b, "reconciled", r.net)
        /\ Serve(w, Idle)
        /\ UNCHANGED <<deductions, totals, outVars, memberVars>>

CommitReconcile(w) ==
    LET r == req[w]
    IN  /\ At(w, "reconcile", "commit")
        /\ payment' = [p \in Payments |->
               IF p \in DOMAIN r.saw /\ r.saw[p].status = "pending"
               THEN [payment[p] EXCEPT !.status = "issued", !.issuedAt = TRUE]
               ELSE payment[p]]
        /\ batchStatus' = [batchStatus EXCEPT ![r.b] = "reconciled"]
        /\ Emit(r.b, "reconciled", r.net)
        /\ Serve(w, Idle)
        /\ UNCHANGED <<deductions, totals, outVars, memberVars>>

\* A guard fails, the receiver answers with an error or too late, a deadlock
\* is broken, the process dies: the transaction rolls back.
Abort(w) ==
    /\ req[w] # Idle
    /\ Serve(w, Idle)
    /\ UNCHANGED vars
-----------------------------------------------------------------------------
(* Requests that insert rows or write one they do not read: one step. *)
Immediate(w) ==
    /\ req[w] = Idle
    /\ \/ \E p \in Payments, g \in Amounts, m \in ManualLines, a \in BOOLEAN :
             CreatePayment(p, g, m, a)
       \/ \E o \in OrderSets : ChangeStandingOrders(o)
       \/ \E e \in Elections : SetTaxWithholding(e)
    /\ UNCHANGED req

Begin(w) ==
    \/ \E p \in Payments :
          \/ \E s \in PaymentStatus : BeginStatusUpdate(w, p, s)
          \/ BeginReversal(w, p)
          \/ BeginApplyNetPay(w, p)
    \/ BeginTermination(w)
    \/ \E S \in SUBSET Payments : BeginCreateBatch(w, S)
    \/ \E b \in Batches, op \in DOMAIN From : BeginBatchRequest(w, b, op)
    \/ \E b \in Batches, f \in Formats : BeginDispatch(w, b, f)

Proceed(w) ==
    \/ ReadMembers(w) \/ ReadDispatched(w) \/ ReadLedger(w) \/ Post(w)
    \/ CommitStatus(w) \/ CommitTermination(w) \/ CommitCreateBatch(w)
    \/ CommitApply(w) \/ CommitDispatch(w) \/ CommitReconcile(w)
    \/ Abort(w)

\* What happens to a response after its worker is done with it.
Answer ==
    /\ \E b \in Batches : DeliverAnswer(b) \/ LoseAnswer(b)
    /\ UNCHANGED req

TxNext ==
    \/ \E w \in Workers : Immediate(w) \/ Begin(w) \/ Proceed(w)
    \/ Answer

TxSpec == TxInit /\ [][TxNext]_txVars
-----------------------------------------------------------------------------
(* Properties *)

\* One worker that serves one request at a time is the system of
\* PaymentDisbursement: the reads, the POST and the commit of a request add up
\* to its atomic step.
Serializable == Spec

\* A batch past creation has the accounting event of the status it shows: the two
\* are committed together.
StatusHasItsEvent ==
    \A b \in Batches :
        LET types == {events[b][i].type : i \in DOMAIN events[b]}
        IN  /\ batchStatus[b] = "draft" => "batch_created" \in types
            /\ batchStatus[b] \in {"net_pay_applied", "dispatched", "reconciled"} =>
                  batchStatus[b] \in types

\* A batch that shows a webhook dispatch has reached the bank: the POST comes before
\* the commit, and a slower json dispatch does not leave the webhook's format on a
\* batch that was never posted.
WebhookMarkedAfterSending == \A b \in Batches : format[b] = "webhook" => sent[b] # {}

\* Whatever overlaps, what a batch shows has happened: the transition that its
\* status records and the delivery that its format records.
MarksAreBacked == StatusHasItsEvent /\ WebhookMarkedAfterSending
=============================================================================
