---------------------- MODULE PaymentDisbursementProofs ----------------------
(***************************************************************************)
(* What PaymentDisbursement guarantees for any payments, batches, amounts, *)
(* deduction lines and tax function that satisfy ConstantsAssumption, and  *)
(* what of it DisbursementTx keeps when requests overlap, for any number   *)
(* of workers; with one worker DisbursementTx implements it.               *)
(***************************************************************************)
EXTENDS DisbursementTx, SequenceTheorems, TLAPS

\* A payment that exists has a gross amount some request gave it.
GrossWasGiven == \A p \in Payments : Exists(p) => payment[p].gross \in Amounts

\* A payment that does not exist yet is in no batch and has no rows.
AbsentIsBlank == \A p \in Payments : ~Exists(p) => /\ payment[p].batch = NoBatch
                                                  /\ deductions[p].rows = 0

\* A ledger without rows adds up to nothing: this is what lets apply_net_pay
\* set the net from the new lines alone.
EmptyLedgerIsZero == \A p \in Payments : deductions[p].rows = 0 => deductions[p].total = 0

\* The inductive invariant of the amounts.
LedgerInv ==
    /\ TypeOK /\ GrossWasGiven /\ AbsentIsBlank
    /\ EmptyLedgerIsZero /\ NetIsGrossMinusDeductions

\* The lines calculate_net_pay produces are a row count and an amount, and no
\* rows means no amount.
LEMMA NetPayLinesFact ==
    ASSUME TypeOK, NEW g \in Amounts
    PROVE  /\ NetPayLines(g) \in Lines
           /\ NetPayLines(g).rows = 0 => NetPayLines(g).total = 0
<1>1. Tax(election, g - orders.pretax) \in Nat
  BY ConstantsAssumption DEF TypeOK
<1>2. /\ orders.rows \in Nat /\ orders.pretax \in Nat /\ orders.posttax \in Nat
      /\ orders.rows = 0 => orders.pretax = 0 /\ orders.posttax = 0
  BY ConstantsAssumption DEF TypeOK
<1> QED
  BY <1>1, <1>2 DEF NetPayLines, Lines

\* What apply_net_pay writes for a set of payments without deduction rows is
\* well typed, keeps every other column, and leaves the net equal to the gross
\* less the ledger.
LEMMA WithNetPayFact ==
    ASSUME LedgerInv, NEW S \in SUBSET Payments, \A p \in S : NetPayApplicable(p)
    PROVE  /\ WithNetPay(S) \in [Payments -> PaymentRow]
           /\ WithNetPayLines(S) \in [Payments -> Lines]
           /\ \A p \in Payments :
                /\ WithNetPay(S)[p].status = payment[p].status
                /\ WithNetPay(S)[p].batch = payment[p].batch
                /\ WithNetPay(S)[p].gross = payment[p].gross
                /\ WithNetPay(S)[p].net = WithNetPay(S)[p].gross - WithNetPayLines(S)[p].total
                /\ WithNetPayLines(S)[p].rows = 0 => WithNetPayLines(S)[p].total = 0
                /\ deductions[p].rows > 0 => /\ WithNetPay(S)[p] = payment[p]
                                             /\ WithNetPayLines(S)[p] = deductions[p]
<1> SUFFICES ASSUME NEW p \in Payments
             PROVE  /\ WithNetPay(S)[p] \in PaymentRow
                    /\ WithNetPayLines(S)[p] \in Lines
                    /\ WithNetPay(S)[p].status = payment[p].status
                    /\ WithNetPay(S)[p].batch = payment[p].batch
                    /\ WithNetPay(S)[p].gross = payment[p].gross
                    /\ WithNetPay(S)[p].net
                         = WithNetPay(S)[p].gross - WithNetPayLines(S)[p].total
                    /\ WithNetPayLines(S)[p].rows = 0 => WithNetPayLines(S)[p].total = 0
                    /\ deductions[p].rows > 0 => /\ WithNetPay(S)[p] = payment[p]
                                                 /\ WithNetPayLines(S)[p] = deductions[p]
  BY DEF WithNetPay, WithNetPayLines
<1> DEFINE g == payment[p].gross
<1>1. payment[p] \in PaymentRow /\ deductions[p] \in Lines
  BY DEF LedgerInv, TypeOK
<1>2. CASE p \in S
  <2>1. Exists(p) /\ deductions[p].rows = 0
    BY <1>2 DEF NetPayApplicable
  <2>2. Amounts \subseteq Int
    BY ConstantsAssumption
  <2>3. /\ g \in Amounts /\ g \in Int
        /\ deductions[p].rows = 0 /\ deductions[p].total = 0
    BY <2>1, <2>2 DEF LedgerInv, GrossWasGiven, EmptyLedgerIsZero
  <2>4. /\ NetPayLines(g) \in Lines
        /\ NetPayLines(g).rows = 0 => NetPayLines(g).total = 0
    BY <2>3, NetPayLinesFact DEF LedgerInv
  <2>5. WithNetPay(S)[p] = [payment[p] EXCEPT !.net = g - NetPayLines(g).total]
    BY <1>2 DEF WithNetPay
  <2>6. WithNetPayLines(S)[p] = [rows |-> NetPayLines(g).rows, total |-> NetPayLines(g).total]
    BY <1>2, <2>3, <2>4 DEF WithNetPayLines, Lines
  <2> QED
    BY <1>1, <2>3, <2>4, <2>5, <2>6 DEF PaymentRow, Lines
<1>3. CASE p \notin S
  BY <1>1, <1>3 DEF WithNetPay, WithNetPayLines, LedgerInv, EmptyLedgerIsZero,
                    NetIsGrossMinusDeductions
<1> QED
  BY <1>2, <1>3

\* The amounts after net pay has been written for a set of payments.
LEMMA NetPayWritten ==
    ASSUME LedgerInv, NEW S \in SUBSET Payments, \A p \in S : NetPayApplicable(p),
           payment' = WithNetPay(S), deductions' = WithNetPayLines(S)
    PROVE  /\ payment' \in [Payments -> PaymentRow]
           /\ deductions' \in [Payments -> Lines]
           /\ GrossWasGiven' /\ AbsentIsBlank' /\ EmptyLedgerIsZero' /\ NetIsGrossMinusDeductions'
<1>1. GrossWasGiven /\ AbsentIsBlank
  BY DEF LedgerInv
<1>2. \A p \in S : Exists(p)
  BY DEF NetPayApplicable
<1>3. \A p \in Payments \ S : payment'[p] = payment[p] /\ deductions'[p] = deductions[p]
  BY DEF WithNetPay, WithNetPayLines
<1> QED
  BY <1>1, <1>2, <1>3, WithNetPayFact
  DEF GrossWasGiven, AbsentIsBlank, EmptyLedgerIsZero, NetIsGrossMinusDeductions, Exists

\* Every request keeps the inductive invariant of the amounts.
LEMMA LedgerInvStep == LedgerInv /\ [Next]_vars => LedgerInv'
<1> SUFFICES ASSUME LedgerInv, [Next]_vars PROVE LedgerInv'
  OBVIOUS
<1> USE DEF LedgerInv, TypeOK, GrossWasGiven, AbsentIsBlank, EmptyLedgerIsZero,
            NetIsGrossMinusDeductions, Exists
<1>1. ASSUME NEW p \in Payments, NEW g \in Amounts, NEW m \in ManualLines,
             NEW a \in BOOLEAN, CreatePayment(p, g, m, a)
      PROVE  LedgerInv'
  <2> DEFINE rows  == m.rows + (IF a THEN orders.rows ELSE 0)
             total == m.total + (IF a THEN orders.pretax + orders.posttax ELSE 0)
  <2>1. /\ rows \in Nat /\ total \in Nat /\ g \in Nat
        /\ rows = 0 => total = 0
    BY ConstantsAssumption DEF Lines
  <2>2. /\ payment' = [payment EXCEPT ![p] =
               [status |-> "pending", gross |-> g, net |-> g - total,
                batch |-> NoBatch, issuedAt |-> FALSE]]
        /\ deductions' = [deductions EXCEPT ![p] = [rows |-> rows, total |-> total]]
        /\ UNCHANGED <<batchVars, memberVars>>
    BY <1>1 DEF CreatePayment
  <2> HIDE DEF rows, total
  <2>3. [status |-> "pending", gross |-> g, net |-> g - total,
         batch |-> NoBatch, issuedAt |-> FALSE] \in PaymentRow
    BY <2>1 DEF PaymentRow, PaymentStatus
  <2>4. [rows |-> rows, total |-> total] \in Lines
    BY <2>1 DEF Lines
  <2>5. payment' \in [Payments -> PaymentRow] /\ deductions' \in [Payments -> Lines]
    BY <2>2, <2>3, <2>4
  <2> QED
    BY <2>1, <2>2, <2>5 DEF batchVars, outVars, memberVars
<1>2. ASSUME NEW p \in Payments, NEW s \in PaymentStatus, UpdatePaymentStatus(p, s)
      PROVE  LedgerInv'
  <2> DEFINE row == [payment[p] EXCEPT !.status = s,
                                       !.issuedAt = payment[p].issuedAt \/ s = "issued"]
  <2>1. payment[p] \in PaymentRow /\ (payment[p].issuedAt \/ s = "issued") \in BOOLEAN
    BY Zenon DEF PaymentRow
  <2>2. /\ row \in PaymentRow /\ row.status # "absent"
        /\ row.gross = payment[p].gross /\ row.net = payment[p].net
    BY <2>1 DEF PaymentRow, PaymentStatus
  <2>3. payment' = [payment EXCEPT ![p] = row] /\ UNCHANGED <<deductions, batchVars, memberVars>>
    BY <1>2, Zenon DEF UpdatePaymentStatus
  <2>4. payment[p].status # "absent"
    BY <1>2 DEF UpdatePaymentStatus, StatusUpdateAllowed
  <2> HIDE DEF row
  <2> QED
    BY <2>2, <2>3, <2>4 DEF batchVars, outVars, memberVars
<1>3. ASSUME NEW p \in Payments, ReversePayment(p)
      PROVE  LedgerInv'
  BY <1>3 DEF ReversePayment, ReverseAllowed, PaymentRow, PaymentStatus,
              batchVars, outVars, memberVars
<1>4. ASSUME NEW p \in Payments, ApplyNetPay(p)
      PROVE  LedgerInv'
  <2>1. /\ NetPayApplicable(p)
        /\ payment' = WithNetPay({p}) /\ deductions' = WithNetPayLines({p})
        /\ UNCHANGED <<batchVars, memberVars>>
    BY <1>4 DEF ApplyNetPay
  <2>2. {p} \in SUBSET Payments /\ \A q \in {p} : NetPayApplicable(q)
    BY <2>1
  <2>3. /\ payment' \in [Payments -> PaymentRow] /\ deductions' \in [Payments -> Lines]
        /\ GrossWasGiven' /\ AbsentIsBlank' /\ EmptyLedgerIsZero' /\ NetIsGrossMinusDeductions'
    BY <2>1, <2>2, NetPayWritten
  <2> QED
    BY <2>1, <2>3 DEF batchVars, outVars, memberVars
<1>5. CASE TerminateSurvivorAnnuity
  BY <1>5 DEF TerminateSurvivorAnnuity, PaymentRow, PaymentStatus, batchVars, outVars
<1>6. ASSUME NEW o \in OrderSets, ChangeStandingOrders(o)
      PROVE  LedgerInv'
  BY <1>6 DEF ChangeStandingOrders, batchVars, outVars
<1>7. ASSUME NEW e \in Elections, SetTaxWithholding(e)
      PROVE  LedgerInv'
  BY <1>7 DEF SetTaxWithholding, batchVars, outVars
<1>8. ASSUME NEW b \in Batches, NEW S \in SUBSET Payments, CreateBatch(b, S)
      PROVE  LedgerInv'
  <2>1. /\ \A p \in S : payment[p].status = "pending"
        /\ payment' = [p \in Payments |->
               IF p \in S THEN [payment[p] EXCEPT !.batch = b] ELSE payment[p]]
        /\ batchStatus' = [batchStatus EXCEPT ![b] = "draft"] /\ DOMAIN events' = Batches
        /\ UNCHANGED <<deductions, totals, outVars, memberVars>>
    BY <1>8 DEF CreateBatch, Batchable, Emit
  <2>2. \A p \in S : [payment[p] EXCEPT !.batch = b] \in PaymentRow
    BY DEF PaymentRow
  <2>3. /\ payment' \in [Payments -> PaymentRow]
        /\ \A p \in Payments : /\ payment'[p].status = payment[p].status
                               /\ payment'[p].gross = payment[p].gross
                               /\ payment'[p].net = payment[p].net
                               /\ p \notin S => payment'[p].batch = payment[p].batch
    BY <2>1, <2>2 DEF PaymentRow
  <2>4. batchStatus' \in [Batches -> BatchStatus]
    BY <2>1 DEF BatchStatus
  <2> QED
    BY <2>1, <2>3, <2>4 DEF memberVars, outVars
<1>9. ASSUME NEW b \in Batches, ApplyNetPayToBatch(b)
      PROVE  LedgerInv'
  <2>1. /\ \A p \in Members(b) : NetPayApplicable(p)
        /\ payment' = WithNetPay(Members(b)) /\ deductions' = WithNetPayLines(Members(b))
        /\ batchStatus' = [batchStatus EXCEPT ![b] = "net_pay_applied"]
        /\ DOMAIN totals' = Batches /\ DOMAIN events' = Batches
        /\ UNCHANGED <<outVars, memberVars>>
    BY <1>9 DEF ApplyNetPayToBatch, Emit
  <2>2. Members(b) \in SUBSET Payments /\ "net_pay_applied" \in BatchStatus
    BY DEF Members, BatchStatus
  <2> QED
    BY <2>1, <2>2, NetPayWritten DEF memberVars, outVars
<1>10. ASSUME NEW b \in Batches, DispatchByWebhook(b) \/ DispatchAsJson(b)
       PROVE  LedgerInv'
  <2>1. /\ batchStatus' = [batchStatus EXCEPT ![b] = "dispatched"]
        /\ \E f \in Formats : format' = [format EXCEPT ![b] = f]
        /\ DOMAIN events' = Batches /\ DOMAIN answers' = Batches /\ DOMAIN sent' = Batches
        /\ UNCHANGED <<payment, deductions, totals, memberVars>>
    BY <1>10 DEF DispatchByWebhook, DispatchAsJson, MarkDispatched, Emit, Formats
  <2>2. "dispatched" \in BatchStatus
    BY DEF BatchStatus
  <2> QED
    BY <2>1, <2>2 DEF memberVars
<1>11. ASSUME NEW b \in Batches, DispatchWebhookFails(b) \/ DeliverAnswer(b) \/ LoseAnswer(b)
       PROVE  LedgerInv'
  BY <1>11 DEF DispatchWebhookFails, DeliverAnswer, LoseAnswer, memberVars
<1>12. ASSUME NEW b \in Batches, ReconcileBatch(b)
       PROVE  LedgerInv'
  <2> DEFINE issued(q) == [payment[q] EXCEPT !.status = "issued", !.issuedAt = TRUE]
  <2>1. /\ payment' = [q \in Payments |->
               IF q \in Members(b) /\ payment[q].status = "pending" THEN issued(q)
               ELSE payment[q]]
        /\ batchStatus' = [batchStatus EXCEPT ![b] = "reconciled"] /\ DOMAIN events' = Batches
        /\ UNCHANGED <<deductions, totals, outVars, memberVars>>
    BY <1>12 DEF ReconcileBatch, Emit
  <2>2. ASSUME NEW q \in Payments
        PROVE  /\ issued(q) \in PaymentRow /\ issued(q).status = "issued"
               /\ issued(q).gross = payment[q].gross /\ issued(q).net = payment[q].net
               /\ issued(q).batch = payment[q].batch
    <3>1. payment[q] \in PaymentRow
      OBVIOUS
    <3> QED
      BY <3>1 DEF PaymentRow, PaymentStatus
  <2>3. batchStatus' \in [Batches -> BatchStatus]
    BY <2>1 DEF BatchStatus
  <2> HIDE DEF issued
  <2>4. payment' \in [Payments -> PaymentRow]
    BY <2>1, <2>2
  <2>5. TypeOK'
    BY <2>1, <2>3, <2>4 DEF memberVars, outVars
  <2>6. \A q \in Payments :
           /\ payment'[q].gross = payment[q].gross /\ payment'[q].net = payment[q].net
           /\ payment'[q].batch = payment[q].batch
           /\ payment'[q].status = "absent" <=> payment[q].status = "absent"
    BY <2>1, <2>2
  <2>7. GrossWasGiven' /\ AbsentIsBlank' /\ EmptyLedgerIsZero' /\ NetIsGrossMinusDeductions'
    BY <2>1, <2>6
  <2> QED
    BY <2>5, <2>7
<1>13. CASE UNCHANGED vars
  BY <1>13 DEF vars, batchVars, outVars, memberVars
<1> QED
  BY <1>1, <1>2, <1>3, <1>4, <1>5, <1>6, <1>7, <1>8, <1>9, <1>10, <1>11, <1>12, <1>13
  DEF Next, PaymentRequest, BatchRequest, MemberRequest

\* The first states satisfy the invariant of the amounts.
LEMMA LedgerInvHolds == Init => LedgerInv
<1> SUFFICES ASSUME Init PROVE LedgerInv
  OBVIOUS
<1>1. Absent \in PaymentRow /\ NoLines \in Lines
  BY DEF Absent, PaymentRow, NoLines, Lines
<1>2. TypeOK
  BY <1>1 DEF Init, TypeOK, BatchStatus
<1>3. /\ GrossWasGiven /\ AbsentIsBlank
      /\ EmptyLedgerIsZero /\ NetIsGrossMinusDeductions
  BY DEF Init, GrossWasGiven, AbsentIsBlank, EmptyLedgerIsZero, NetIsGrossMinusDeductions, Exists,
         Absent, NoLines
<1> QED
  BY <1>2, <1>3 DEF LedgerInv

\* Every reachable state of the requests satisfies the invariant of the amounts.
LEMMA LedgerInvariance == Spec => []LedgerInv
BY LedgerInvHolds, LedgerInvStep, PTL DEF Spec

\* Every table keeps its columns and statuses.
THEOREM TypeCorrect == Spec => []TypeOK
<1>1. LedgerInv => TypeOK
  BY DEF LedgerInv
<1> QED
  BY <1>1, LedgerInvariance, PTL

\* The stored net is the gross less the ledger, for any number of payments and
\* batches and whatever the orders, elections and tax function.
THEOREM NetCorrect == Spec => []NetIsGrossMinusDeductions
<1>1. LedgerInv => NetIsGrossMinusDeductions
  BY DEF LedgerInv
<1> QED
  BY <1>1, LedgerInvariance, PTL

\* Once a payment has a deduction row its ledger and its amounts are final: the
\* row count is what apply_net_pay looks at, and nothing else writes amounts.
THEOREM LedgerIsWrittenOnce == Spec => LedgerWrittenOnce
<1> DEFINE AllFinal == \A p \in Payments : deductions[p].rows > 0 =>
                          /\ deductions'[p] = deductions[p]
                          /\ payment'[p].gross = payment[p].gross
                          /\ payment'[p].net = payment[p].net
<1>1. LedgerInv /\ Next => AllFinal
  <2> SUFFICES ASSUME LedgerInv, Next PROVE AllFinal
    OBVIOUS
  <2> USE DEF LedgerInv, TypeOK
  <2>1. ASSUME NEW p \in Payments, NEW g \in Amounts, NEW m \in ManualLines,
               NEW a \in BOOLEAN, CreatePayment(p, g, m, a)
        PROVE  AllFinal
    BY <2>1 DEF CreatePayment, AbsentIsBlank
  <2>2. ASSUME NEW p \in Payments, NEW s \in PaymentStatus, UpdatePaymentStatus(p, s)
        PROVE  AllFinal
    BY <2>2 DEF UpdatePaymentStatus, PaymentRow
  <2>3. ASSUME NEW p \in Payments, ReversePayment(p)
        PROVE  AllFinal
    BY <2>3 DEF ReversePayment, PaymentRow
  <2>4. ASSUME NEW p \in Payments, ApplyNetPay(p)
        PROVE  AllFinal
    <3>1. {p} \in SUBSET Payments /\ \A q \in {p} : NetPayApplicable(q)
      BY <2>4 DEF ApplyNetPay
    <3> QED
      BY <2>4, <3>1, WithNetPayFact DEF ApplyNetPay
  <2>5. CASE TerminateSurvivorAnnuity
    BY <2>5 DEF TerminateSurvivorAnnuity, PaymentRow
  <2>6. ASSUME NEW o \in OrderSets, ChangeStandingOrders(o)
        PROVE  AllFinal
    BY <2>6 DEF ChangeStandingOrders
  <2>7. ASSUME NEW e \in Elections, SetTaxWithholding(e)
        PROVE  AllFinal
    BY <2>7 DEF SetTaxWithholding
  <2>8. ASSUME NEW b \in Batches, NEW S \in SUBSET Payments, CreateBatch(b, S)
        PROVE  AllFinal
    BY <2>8 DEF CreateBatch, PaymentRow
  <2>9. ASSUME NEW b \in Batches, ApplyNetPayToBatch(b)
        PROVE  AllFinal
    <3>1. Members(b) \in SUBSET Payments /\ \A q \in Members(b) : NetPayApplicable(q)
      BY <2>9 DEF ApplyNetPayToBatch, Members
    <3> QED
      BY <2>9, <3>1, WithNetPayFact DEF ApplyNetPayToBatch
  <2>10. ASSUME NEW b \in Batches,
                \/ DispatchByWebhook(b) \/ DispatchAsJson(b) \/ DispatchWebhookFails(b)
                \/ DeliverAnswer(b) \/ LoseAnswer(b)
         PROVE  AllFinal
    BY <2>10 DEF DispatchByWebhook, DispatchAsJson, MarkDispatched, DispatchWebhookFails,
                 DeliverAnswer, LoseAnswer
  <2>11. ASSUME NEW b \in Batches, ReconcileBatch(b)
         PROVE  AllFinal
    BY <2>11 DEF ReconcileBatch, PaymentRow
  <2> QED
    BY <2>1, <2>2, <2>3, <2>4, <2>5, <2>6, <2>7, <2>8, <2>9, <2>10, <2>11
    DEF Next, PaymentRequest, BatchRequest, MemberRequest
<1>2. LedgerInv /\ [Next]_vars => [AllFinal]_vars
  BY <1>1
<1> QED
  BY <1>2, LedgerInvariance, PTL DEF Spec, LedgerWrittenOnce
-----------------------------------------------------------------------------
(* Batches.  The argument is that no request but CreateBatch moves a       *)
(* payment into or out of a batch, and CreateBatch only fills a new one.   *)

\* A payment points only at batches that exist.
BatchesExist ==
    \A p \in Payments, b \in Batches : payment[p].batch = b => batchStatus[b] # "absent"

\* What has left of a batch or is on its way.
Out(b) == sent[b] \cup answers[b]

\* Every payload that has left or is leaving lists the batch's payments and its
\* stored total.
SentWhole ==
    \A b \in Batches : \A x \in Out(b) :
        /\ batchStatus[b] \notin {"absent", "draft"}
        /\ DOMAIN x.net = Members(b)
        /\ x.total = totals[b].net

WebhookSent == \A b \in Batches : format[b] = "webhook" => sent[b] # {}

BatchInv == /\ BatchesExist /\ SentWhole
            /\ WebhookSent /\ BatchCoversItsMembers

\* A request other than CreateBatch leaves the membership of every batch and
\* the gross amounts of its members alone.
SameMembers ==
    \A b \in Batches : /\ Members(b)' = Members(b)
                       /\ \A p \in Members(b) : payment'[p].gross = payment[p].gross

\* Only create_batch changes which payments a batch has, and no request changes
\* the gross amount of a member.
LEMMA MembershipKept ==
    ASSUME LedgerInv, Next, ~\E b \in Batches, S \in SUBSET Payments : CreateBatch(b, S)
    PROVE  SameMembers
<1> SUFFICES \A q \in Payments :
                /\ payment'[q].batch = payment[q].batch
                /\ payment[q].batch # NoBatch => payment'[q].gross = payment[q].gross
  BY ConstantsAssumption DEF SameMembers, Members
<1> DEFINE Kept == \A q \in Payments :
                      /\ payment'[q].batch = payment[q].batch
                      /\ payment[q].batch # NoBatch => payment'[q].gross = payment[q].gross
<1> USE DEF LedgerInv, TypeOK
<1>1. ASSUME NEW p \in Payments, NEW g \in Amounts, NEW m \in ManualLines,
             NEW a \in BOOLEAN, CreatePayment(p, g, m, a)
      PROVE  Kept
  BY <1>1 DEF CreatePayment, AbsentIsBlank
<1>2. ASSUME NEW p \in Payments, NEW s \in PaymentStatus,
             UpdatePaymentStatus(p, s) \/ ReversePayment(p)
      PROVE  Kept
  BY <1>2 DEF UpdatePaymentStatus, ReversePayment, PaymentRow
<1>3. ASSUME NEW p \in Payments, ApplyNetPay(p)
      PROVE  Kept
  <2>1. {p} \in SUBSET Payments /\ \A q \in {p} : NetPayApplicable(q)
    BY <1>3 DEF ApplyNetPay
  <2> QED
    BY <1>3, <2>1, WithNetPayFact DEF ApplyNetPay
<1>4. ASSUME NEW b \in Batches, ApplyNetPayToBatch(b)
      PROVE  Kept
  <2>1. Members(b) \in SUBSET Payments /\ \A q \in Members(b) : NetPayApplicable(q)
    BY <1>4 DEF ApplyNetPayToBatch, Members
  <2> QED
    BY <1>4, <2>1, WithNetPayFact DEF ApplyNetPayToBatch
<1>5. ASSUME NEW b \in Batches,
             \/ DispatchByWebhook(b) \/ DispatchAsJson(b) \/ DispatchWebhookFails(b)
             \/ DeliverAnswer(b) \/ LoseAnswer(b)
      PROVE  Kept
  BY <1>5 DEF DispatchByWebhook, DispatchAsJson, MarkDispatched, DispatchWebhookFails,
              DeliverAnswer, LoseAnswer
<1>6. ASSUME NEW b \in Batches, ReconcileBatch(b)
      PROVE  Kept
  BY <1>6 DEF ReconcileBatch, PaymentRow
<1>7. CASE MemberRequest
  BY <1>7 DEF MemberRequest, TerminateSurvivorAnnuity, ChangeStandingOrders,
              SetTaxWithholding, PaymentRow
<1> HIDE DEF Kept
<1>8. ASSUME PaymentRequest PROVE Kept
  <2>1. "held" \in PaymentStatus
    BY DEF PaymentStatus
  <2> QED
    BY <2>1, <1>8, <1>1, <1>2, <1>3 DEF PaymentRequest
<1>9. ASSUME BatchRequest PROVE Kept
  BY <1>9, <1>4, <1>5, <1>6 DEF BatchRequest
<1> QED
  BY <1>7, <1>8, <1>9 DEF Next, Kept

\* With the members and their gross amounts unchanged, a batch whose status and
\* totals do not change either keeps the invariant.
LEMMA BatchUntouched ==
    ASSUME BatchInv, SameMembers, UNCHANGED <<batchStatus, totals, outVars>>
    PROVE  BatchInv'
<1>1. ASSUME NEW b \in Batches
      PROVE  [p \in Members(b) |-> payment[p].gross]'
               = [p \in Members(b) |-> payment[p].gross]
  BY DEF SameMembers
<1>2. BatchCoversItsMembers'
  BY <1>1 DEF BatchInv, BatchCoversItsMembers, SameMembers
<1>3. BatchesExist'
  BY DEF BatchInv, BatchesExist, SameMembers, Members
<1>4. SentWhole' /\ WebhookSent'
  BY DEF BatchInv, SentWhole, Out, WebhookSent, SameMembers, outVars
<1> QED
  BY <1>2, <1>3, <1>4 DEF BatchInv

\* The members and their gross amounts are what the totals are computed from.
LEMMA GrossOfMembers ==
    ASSUME SameMembers, NEW b \in Batches
    PROVE  [p \in Members(b) |-> payment[p].gross]' = [p \in Members(b) |-> payment[p].gross]
BY DEF SameMembers

\* Every request on payments and batches keeps the invariant that relates a
\* batch's status, its stored totals, its members and what has been sent.
LEMMA BatchInvStep == LedgerInv /\ BatchInv /\ [Next]_vars => BatchInv'
<1> SUFFICES ASSUME LedgerInv, BatchInv, [Next]_vars PROVE BatchInv'
  OBVIOUS
<1>1. ASSUME NEW b \in Batches, NEW S \in SUBSET Payments, CreateBatch(b, S)
      PROVE  BatchInv'
  <2> USE DEF LedgerInv, TypeOK
  <2>1. /\ batchStatus[b] = "absent"
        /\ \A p \in S : payment[p].batch = NoBatch
        /\ batchStatus' = [batchStatus EXCEPT ![b] = "draft"]
        /\ payment' = [p \in Payments |->
               IF p \in S THEN [payment[p] EXCEPT !.batch = b] ELSE payment[p]]
        /\ UNCHANGED <<totals, format, answers, sent>>
    BY <1>1 DEF CreateBatch, Batchable, outVars
  <2>2. \A p \in Payments : /\ payment'[p].gross = payment[p].gross
                            /\ payment'[p].batch = IF p \in S THEN b ELSE payment[p].batch
    BY <2>1 DEF PaymentRow
  <2>3. BatchesExist'
    BY <2>1, <2>2 DEF BatchInv, BatchesExist
  <2>4. \A c \in Batches \ {b} : Members(c)' = Members(c)
    BY <2>1, <2>2, ConstantsAssumption DEF Members
  <2>5. SentWhole' /\ WebhookSent'
    BY <2>1, <2>4 DEF BatchInv, SentWhole, Out, WebhookSent
  <2>6. ASSUME NEW c \in Batches, batchStatus'[c] \notin {"absent", "draft"}
        PROVE  /\ totals'[c].gross = SumFunction([p \in Members(c)' |-> payment'[p].gross])
               /\ totals'[c].count = Cardinality(Members(c)')
    <3>1. c # b /\ batchStatus[c] \notin {"absent", "draft"}
      BY <2>1, <2>6
    <3>2. [p \in Members(c)' |-> payment'[p].gross] = [p \in Members(c) |-> payment[p].gross]
      BY <2>2, <2>4, <3>1 DEF Members
    <3> QED
      BY <2>1, <2>4, <3>1, <3>2 DEF BatchInv, BatchCoversItsMembers
  <2> QED
    BY <2>3, <2>5, <2>6 DEF BatchInv, BatchCoversItsMembers
<1>2. ASSUME NEW b \in Batches, ApplyNetPayToBatch(b), SameMembers
      PROVE  BatchInv'
  <2>1. /\ batchStatus[b] = "draft"
        /\ batchStatus' = [batchStatus EXCEPT ![b] = "net_pay_applied"]
        /\ totals' = [totals EXCEPT ![b] = totals'[b]]
        /\ totals'[b].gross = SumFunction([p \in Members(b) |-> payment[p].gross])
        /\ totals'[b].count = Cardinality(Members(b))
        /\ UNCHANGED <<format, answers, sent>>
    BY <1>2 DEF ApplyNetPayToBatch, LedgerInv, TypeOK, outVars
  <2>2. batchStatus \in [Batches -> BatchStatus] /\ DOMAIN totals = Batches
    BY DEF LedgerInv, TypeOK
  <2>3. BatchesExist'
    BY <1>2, <2>1, <2>2 DEF BatchInv, BatchesExist, SameMembers, Members
  <2>4. Out(b) = {}
    BY <2>1 DEF BatchInv, SentWhole
  <2>5. SentWhole' /\ WebhookSent'
    BY <1>2, <2>1, <2>2, <2>4 DEF BatchInv, SentWhole, Out, WebhookSent, SameMembers
  <2>6. BatchCoversItsMembers'
    BY <1>2, <2>1, <2>2, GrossOfMembers DEF BatchInv, BatchCoversItsMembers, SameMembers
  <2> QED
    BY <2>3, <2>5, <2>6 DEF BatchInv
<1>3. ASSUME NEW b \in Batches, SameMembers,
             DispatchByWebhook(b) \/ DispatchAsJson(b) \/ DispatchWebhookFails(b)
      PROVE  BatchInv'
  <2>1. /\ batchStatus[b] = "net_pay_applied"
        /\ \/ sent' = [sent EXCEPT ![b] = sent[b] \cup {Payload(b)}] /\ answers' = answers
           \/ answers' = [answers EXCEPT ![b] = answers[b] \cup {Payload(b)}] /\ sent' = sent
        /\ batchStatus' \in {batchStatus, [batchStatus EXCEPT ![b] = "dispatched"]}
        /\ UNCHANGED totals
    BY <1>3 DEF DispatchByWebhook, DispatchAsJson, MarkDispatched, DispatchWebhookFails
  <2>2. /\ batchStatus \in [Batches -> BatchStatus]
        /\ DOMAIN sent = Batches /\ DOMAIN answers = Batches /\ DOMAIN format = Batches
    BY DEF LedgerInv, TypeOK
  <2>3. DOMAIN Payload(b).net = Members(b) /\ Payload(b).total = totals[b].net
    BY DEF Payload
  <2>4. \A c \in Batches : /\ batchStatus'[c] = "absent" <=> batchStatus[c] = "absent"
                           /\ batchStatus'[c] = "draft" <=> batchStatus[c] = "draft"
                           /\ c # b => batchStatus'[c] = batchStatus[c]
    BY <2>1, <2>2
  <2>5. BatchesExist'
    BY <1>3, <2>4 DEF BatchInv, BatchesExist, SameMembers, Members
  <2>6. \A c \in Batches :
           Out(c)' = IF c = b THEN Out(c) \cup {Payload(b)} ELSE Out(c)
    BY <2>1, <2>2 DEF Out
  <2>7. SentWhole'
    BY <1>3, <2>1, <2>3, <2>4, <2>6 DEF BatchInv, SentWhole, SameMembers
  <2>8. WebhookSent'
    <3>1. \/ sent'[b] # {} /\ format' = [format EXCEPT ![b] = "webhook"]
          \/ format' = [format EXCEPT ![b] = "json"]
          \/ format' = format
      BY <1>3, <2>2 DEF DispatchByWebhook, DispatchAsJson, MarkDispatched, DispatchWebhookFails
    <3>2. \A c \in Batches : sent[c] \subseteq sent'[c]
      BY <2>1, <2>2
    <3> QED
      BY <2>2, <3>1, <3>2 DEF BatchInv, WebhookSent
  <2>9. BatchCoversItsMembers'
    BY <1>3, <2>1, <2>4, GrossOfMembers DEF BatchInv, BatchCoversItsMembers, SameMembers
  <2> QED
    BY <2>5, <2>7, <2>8, <2>9 DEF BatchInv
<1>4. ASSUME NEW b \in Batches, ReconcileBatch(b), SameMembers
      PROVE  BatchInv'
  <2>1. /\ batchStatus[b] = "dispatched"
        /\ batchStatus' = [batchStatus EXCEPT ![b] = "reconciled"]
        /\ UNCHANGED <<totals, format, answers, sent>>
    BY <1>4 DEF ReconcileBatch, outVars
  <2>2. batchStatus \in [Batches -> BatchStatus]
    BY DEF LedgerInv, TypeOK
  <2>3. BatchesExist'
    BY <1>4, <2>1, <2>2 DEF BatchInv, BatchesExist, SameMembers, Members
  <2>4. SentWhole' /\ WebhookSent'
    BY <1>4, <2>1, <2>2 DEF BatchInv, SentWhole, Out, WebhookSent, SameMembers
  <2>5. BatchCoversItsMembers'
    BY <1>4, <2>1, <2>2, GrossOfMembers DEF BatchInv, BatchCoversItsMembers, SameMembers
  <2> QED
    BY <2>3, <2>4, <2>5 DEF BatchInv
<1>5. ASSUME PaymentRequest \/ MemberRequest, SameMembers
      PROVE  BatchInv'
  BY <1>5, BatchUntouched
  DEF PaymentRequest, MemberRequest, CreatePayment, UpdatePaymentStatus, ReversePayment,
      ApplyNetPay, TerminateSurvivorAnnuity, ChangeStandingOrders, SetTaxWithholding, batchVars, outVars
<1>6. CASE UNCHANGED vars
  <2>1. UNCHANGED <<payment, batchStatus, totals, outVars>>
    BY <1>6 DEF vars, batchVars, outVars
  <2> QED
    BY <2>1, BatchUntouched DEF SameMembers, Members
<1>8. ASSUME NEW b \in Batches, SameMembers, DeliverAnswer(b) \/ LoseAnswer(b)
      PROVE  BatchInv'
  <2>1. /\ UNCHANGED <<batchStatus, totals, format>>
        /\ DOMAIN sent = Batches /\ DOMAIN answers = Batches
    BY <1>8 DEF DeliverAnswer, LoseAnswer, LedgerInv, TypeOK
  <2>2. \A c \in Batches : Out(c)' \subseteq Out(c) /\ sent[c] \subseteq sent'[c]
    BY <1>8, <2>1 DEF DeliverAnswer, LoseAnswer, Out
  <2>3. BatchesExist'
    BY <1>8, <2>1 DEF BatchInv, BatchesExist, SameMembers, Members
  <2>4. SentWhole' /\ WebhookSent'
    BY <1>8, <2>1, <2>2 DEF BatchInv, SentWhole, WebhookSent, SameMembers
  <2>5. BatchCoversItsMembers'
    BY <1>8, <2>1, GrossOfMembers DEF BatchInv, BatchCoversItsMembers, SameMembers
  <2> QED
    BY <2>3, <2>4, <2>5 DEF BatchInv
<1>7. CASE Next
  <2>1. CASE \E b \in Batches, S \in SUBSET Payments : CreateBatch(b, S)
    BY <2>1, <1>1
  <2>2. CASE ~\E b \in Batches, S \in SUBSET Payments : CreateBatch(b, S)
    <3>1. SameMembers
      BY <1>7, <2>2, MembershipKept
    <3> QED
      BY <1>7, <2>2, <3>1, <1>2, <1>3, <1>4, <1>5, <1>8 DEF Next, BatchRequest
  <2> QED
    BY <2>1, <2>2
<1> QED
  BY <1>6, <1>7

\* Every reachable state satisfies that invariant.
LEMMA BatchInvariance == Spec => []BatchInv
<1>1. Init => BatchInv
  BY ConstantsAssumption DEF Init, BatchInv, BatchesExist, SentWhole, Out, WebhookSent,
     BatchCoversItsMembers, Absent
<1> QED
  BY <1>1, BatchInvStep, LedgerInvariance, PTL DEF Spec

\* No payment reaches the bank under two batches: a payment in two payloads is a
\* member of both batches, and batch_id names only one.
THEOREM SentOnce == Spec => []SentUnderOneBatch
<1>1. BatchInv => SentUnderOneBatch
  BY DEF BatchInv, SentWhole, Out, SentUnderOneBatch, Members
<1> QED
  BY <1>1, BatchInvariance, PTL

\* What leaves of a batch is the whole of it, and what was posted has left.
THEOREM BatchLeavesWhole == Spec => []LeavesWhole
<1>1. BatchInv => LeavesWhole
  BY DEF BatchInv, SentWhole, Out, WebhookSent, LeavesWhole
<1> QED
  BY <1>1, BatchInvariance, PTL

\* A batch that is marked dispatched is never dispatched again: what the bank
\* still receives of it is the answer that was on its way, if that arrives.
THEOREM NoSecondDispatch == Spec => DispatchedOnce
<1> DEFINE Once == \A b \in Batches : batchStatus[b] \in {"dispatched", "reconciled"} =>
                      /\ answers'[b] \subseteq answers[b]
                      /\ sent'[b] \subseteq sent[b] \cup answers[b]
<1>1. LedgerInv /\ Next => Once
  <2> SUFFICES ASSUME LedgerInv, Next PROVE Once
    OBVIOUS
  <2>0. DOMAIN sent = Batches /\ DOMAIN answers = Batches
    BY DEF LedgerInv, TypeOK
  <2>1. CASE UNCHANGED <<answers, sent>>
    BY <2>1
  <2>2. ASSUME NEW c \in Batches,
               DispatchByWebhook(c) \/ DispatchAsJson(c) \/ DispatchWebhookFails(c)
        PROVE  Once
    <3>1. /\ batchStatus[c] = "net_pay_applied"
          /\ \A b \in Batches \ {c} : answers'[b] = answers[b] /\ sent'[b] = sent[b]
      BY <2>0, <2>2 DEF DispatchByWebhook, DispatchAsJson, DispatchWebhookFails
    <3> QED
      BY <3>1
  <2>3. ASSUME NEW c \in Batches, DeliverAnswer(c) \/ LoseAnswer(c)
        PROVE  Once
    BY <2>0, <2>3 DEF DeliverAnswer, LoseAnswer
  <2>4. ASSUME NEW c \in Batches,
               \/ \E S \in SUBSET Payments : CreateBatch(c, S)
               \/ ApplyNetPayToBatch(c) \/ ReconcileBatch(c)
        PROVE  Once
    BY <2>1, <2>4 DEF CreateBatch, ApplyNetPayToBatch, ReconcileBatch, outVars
  <2>5. CASE PaymentRequest \/ MemberRequest
    BY <2>1, <2>5
    DEF PaymentRequest, MemberRequest, CreatePayment, UpdatePaymentStatus, ReversePayment,
        ApplyNetPay, TerminateSurvivorAnnuity, ChangeStandingOrders, SetTaxWithholding,
        batchVars, outVars
  <2> HIDE DEF Once
  <2> QED
    BY <2>2, <2>3, <2>4, <2>5 DEF Next, BatchRequest
<1>2. LedgerInv /\ [Next]_vars => [Once]_vars
  BY <1>1
<1> QED
  BY <1>2, LedgerInvariance, PTL DEF Spec, DispatchedOnce

\* The stored gross total and count stay those of the batch's payments.
THEOREM TotalsStayTrue == Spec => []BatchCoversItsMembers
<1>1. BatchInv => BatchCoversItsMembers
  BY DEF BatchInv
<1> QED
  BY <1>1, BatchInvariance, PTL
-----------------------------------------------------------------------------
(* The accounting events of a batch *)

\* The events of a batch that has gone all the way, with the total `net`.
Path(net) == <<[type |-> "batch_created",   amount |-> 0],
               [type |-> "net_pay_applied", amount |-> net],
               [type |-> "dispatched",      amount |-> net],
               [type |-> "reconciled",      amount |-> net]>>

\* The first n events of the path, entry by entry: every event says its place,
\* so an event appended on time continues the path.
Follows(log, net, n) == /\ \E Rows : log \in Seq(Rows)
                        /\ Len(log) = n
                        /\ \A i \in 1 .. n : log[i] = Path(net)[i]

EventsInv == /\ batchStatus \in [Batches -> BatchStatus]
             /\ DOMAIN totals = Batches /\ DOMAIN events = Batches
             /\ \A b \in Batches : Follows(events[b], totals[b].net, StepsTaken(batchStatus[b]))

\* A log that follows the path is the beginning of the path.
LEMMA FollowsIsSubSeq ==
    ASSUME NEW log, NEW net, NEW n \in 0 .. 4, Follows(log, net, n)
    PROVE  log = SubSeq(Path(net), 1, n)
<1> DEFINE All == {Path(net)[i] : i \in 1 .. 4}
<1>1. \A i \in 1 .. n : Path(net)[i] \in All
  OBVIOUS
<1> HIDE DEF All
<1>2. /\ SubSeq(Path(net), 1, n) \in Seq(All)
      /\ Len(SubSeq(Path(net), 1, n)) = n
      /\ \A i \in 1 .. n : SubSeq(Path(net), 1, n)[i] = Path(net)[i]
  <2>1. /\ SubSeq(Path(net), 1, n) \in Seq(All)
        /\ Len(SubSeq(Path(net), 1, n)) = IF 1 <= n THEN n - 1 + 1 ELSE 0
        /\ \A i \in 1 .. n - 1 + 1 : SubSeq(Path(net), 1, n)[i] = Path(net)[1 + i - 1]
    BY <1>1, SubSeqProperties
  <2> QED  BY <2>1
<1>3. PICK Rows : log \in Seq(Rows)
  BY DEF Follows
<1> QED  BY <1>2, <1>3, SeqEqual DEF Follows

\* The next event of the path, appended.
LEMMA PathContinues ==
    ASSUME NEW log, NEW net, NEW n \in 0 .. 3, Follows(log, net, n)
    PROVE  Follows(Append(log, Path(net)[n + 1]), net, n + 1)
<1> DEFINE e == Path(net)[n + 1]
<1>1. PICK Rows : log \in Seq(Rows)
  BY DEF Follows
<1> DEFINE All == Rows \cup {e}
<1>2. log \in Seq(All) /\ e \in All
  BY <1>1
<1>3. Len(log) = n /\ \A i \in 1 .. n : log[i] = Path(net)[i]
  BY DEF Follows
<1> SUFFICES Follows(Append(log, e), net, n + 1)
  OBVIOUS
<1>4. e = Path(net)[n + 1]
  OBVIOUS
<1> HIDE DEF All, e
<1>5. /\ Append(log, e) \in Seq(All) /\ Len(Append(log, e)) = n + 1
      /\ \A i \in 1 .. n : Append(log, e)[i] = log[i]
      /\ Append(log, e)[n + 1] = e
  BY <1>2, <1>3, AppendProperties
<1>6. \A i \in 1 .. (n + 1) : i \in 1 .. n \/ i = n + 1
  OBVIOUS
<1> QED  BY <1>3, <1>4, <1>5, <1>6 DEF Follows

\* A batch moves on to status `s` with the event of that step.
LEMMA EventOnTime ==
    ASSUME EventsInv, NEW b \in Batches, NEW s \in BatchStatus, NEW type, NEW amount,
           batchStatus' = [batchStatus EXCEPT ![b] = s], Emit(b, type, amount),
           DOMAIN totals' = Batches, \A c \in Batches \ {b} : totals'[c] = totals[c],
           StepsTaken(s) = StepsTaken(batchStatus[b]) + 1,
           [type |-> type, amount |-> amount] = Path(totals'[b].net)[StepsTaken(s)],
           totals'[b] = totals[b] \/ s = "net_pay_applied"
    PROVE  EventsInv'
<1> DEFINE n == StepsTaken(batchStatus[b])
           net == totals'[b].net
           e == [type |-> type, amount |-> amount]
<1>1. n \in 0 .. 3 /\ StepsTaken(s) = n + 1 /\ e = Path(net)[n + 1]
      /\ (s = "net_pay_applied" => n = 1)
  BY DEF EventsInv, BatchStatus, StepsTaken
<1>2. Follows(events[b], totals[b].net, n)
  BY DEF EventsInv
<1>3. Follows(events[b], net, n)
  <2>1. CASE totals'[b] = totals[b]
    BY <1>2, <2>1
  <2>2. CASE s = "net_pay_applied"
    BY <1>1, <1>2, <2>2 DEF Follows, Path
  <2> QED  BY <2>1, <2>2
<1>4. events' = [events EXCEPT ![b] = Append(events[b], e)]
  BY DEF Emit
<1> HIDE DEF n, net, e
<1>5. Follows(Append(events[b], e), net, n + 1)
  BY <1>1, <1>3, PathContinues
<1>6. ASSUME NEW c \in Batches
      PROVE  Follows(events'[c], totals'[c].net, StepsTaken(batchStatus'[c]))
  <2>1. CASE c = b
    <3>1. events'[c] = Append(events[b], e) /\ batchStatus'[c] = s /\ totals'[c].net = net
      BY <1>4, <2>1 DEF EventsInv, net
    <3> QED  BY <1>1, <1>5, <3>1
  <2>2. CASE c # b
    <3>1. events'[c] = events[c] /\ batchStatus'[c] = batchStatus[c] /\ totals'[c] = totals[c]
      BY <1>4, <2>2 DEF EventsInv
    <3> QED  BY <3>1 DEF EventsInv
  <2> QED  BY <2>1, <2>2
<1>7. batchStatus' \in [Batches -> BatchStatus] /\ DOMAIN events' = Batches
  BY <1>4 DEF EventsInv
<1> QED  BY <1>6, <1>7 DEF EventsInv

\* Every request keeps the events in step with the status.
LEMMA EventsInvStep == EventsInv /\ [Next]_vars => EventsInv'
<1> SUFFICES ASSUME EventsInv, [Next]_vars PROVE EventsInv'
  OBVIOUS
<1>0. DOMAIN totals = Batches /\ batchStatus \in [Batches -> BatchStatus]
  BY DEF EventsInv
<1>1. CASE UNCHANGED <<batchStatus, totals, events>>
  BY <1>1 DEF EventsInv
<1>2. ASSUME NEW b \in Batches, NEW S \in SUBSET Payments, CreateBatch(b, S) PROVE EventsInv'
  <2>1. batchStatus[b] = "absent" /\ totals' = totals
    BY <1>2 DEF CreateBatch
  <2>2. StepsTaken("draft") = StepsTaken(batchStatus[b]) + 1
    BY <2>1 DEF StepsTaken
  <2>3. [type |-> "batch_created", amount |-> 0] = Path(totals'[b].net)[StepsTaken("draft")]
    BY DEF StepsTaken, Path
  <2> QED  BY <1>0, <1>2, <2>1, <2>2, <2>3, EventOnTime DEF CreateBatch, BatchStatus
<1>3. ASSUME NEW b \in Batches, ApplyNetPayToBatch(b) PROVE EventsInv'
  <2>1. PICK gross, net, count :
           /\ batchStatus[b] = "draft"
           /\ batchStatus' = [batchStatus EXCEPT ![b] = "net_pay_applied"]
           /\ totals' = [totals EXCEPT ![b] = [gross |-> gross, net |-> net, count |-> count]]
           /\ Emit(b, "net_pay_applied", net)
    BY <1>3 DEF ApplyNetPayToBatch
  <2>2. StepsTaken("net_pay_applied") = StepsTaken(batchStatus[b]) + 1
    BY <2>1 DEF StepsTaken
  <2>3. totals'[b].net = net /\ DOMAIN totals' = Batches
        /\ \A c \in Batches \ {b} : totals'[c] = totals[c]
    BY <1>0, <2>1
  <2>4. [type |-> "net_pay_applied", amount |-> net]
           = Path(totals'[b].net)[StepsTaken("net_pay_applied")]
    BY <2>3 DEF StepsTaken, Path
  <2> QED  BY <2>1, <2>2, <2>3, <2>4, EventOnTime DEF BatchStatus
<1>4. ASSUME NEW b \in Batches, DispatchByWebhook(b) \/ DispatchAsJson(b) PROVE EventsInv'
  <2>1. /\ batchStatus[b] = "net_pay_applied" /\ totals' = totals
        /\ batchStatus' = [batchStatus EXCEPT ![b] = "dispatched"]
        /\ Emit(b, "dispatched", totals[b].net)
    BY <1>4 DEF DispatchByWebhook, DispatchAsJson, MarkDispatched
  <2>2. StepsTaken("dispatched") = StepsTaken(batchStatus[b]) + 1
    BY <2>1 DEF StepsTaken
  <2>3. [type |-> "dispatched", amount |-> totals[b].net]
           = Path(totals'[b].net)[StepsTaken("dispatched")]
    BY <2>1 DEF StepsTaken, Path
  <2> QED  BY <1>0, <2>1, <2>2, <2>3, EventOnTime DEF BatchStatus
<1>5. ASSUME NEW b \in Batches, ReconcileBatch(b) PROVE EventsInv'
  <2>1. batchStatus[b] = "dispatched" /\ totals' = totals
    BY <1>5 DEF ReconcileBatch
  <2>2. StepsTaken("reconciled") = StepsTaken(batchStatus[b]) + 1
    BY <2>1 DEF StepsTaken
  <2>3. [type |-> "reconciled", amount |-> totals[b].net]
           = Path(totals'[b].net)[StepsTaken("reconciled")]
    BY <2>1 DEF StepsTaken, Path
  <2> QED  BY <1>0, <1>5, <2>1, <2>2, <2>3, EventOnTime DEF ReconcileBatch, BatchStatus
<1>6. CASE PaymentRequest \/ MemberRequest \/ UNCHANGED vars
           \/ \E b \in Batches : DispatchWebhookFails(b) \/ DeliverAnswer(b) \/ LoseAnswer(b)
  <2>1. UNCHANGED <<batchStatus, totals, events>>
    BY <1>6 DEF PaymentRequest, MemberRequest, vars, batchVars, outVars, CreatePayment,
       UpdatePaymentStatus, ReversePayment, ApplyNetPay, TerminateSurvivorAnnuity,
       ChangeStandingOrders, SetTaxWithholding, DispatchWebhookFails, DeliverAnswer,
       LoseAnswer
  <2> QED  BY <1>1, <2>1
<1> QED  BY <1>2, <1>3, <1>4, <1>5, <1>6 DEF Next, BatchRequest

\* The accounting events of a batch are the transitions its status has gone
\* through, in order, each for the batch's own total.
THEOREM EventsFollowTheStatus == Spec => []EventsRecordTheLifecycle
<1>1. Init => EventsInv
  <2>1. <<>> \in Seq({})
    OBVIOUS
  <2> QED  BY <2>1 DEF Init, EventsInv, Follows, BatchStatus, StepsTaken
<1>2. EventsInv => EventsRecordTheLifecycle
  <2>1. ASSUME EventsInv, NEW b \in Batches
        PROVE  events[b] = SubSeq(Path(totals[b].net), 1, StepsTaken(batchStatus[b]))
    <3>1. StepsTaken(batchStatus[b]) \in 0 .. 4
      BY <2>1 DEF EventsInv, BatchStatus, StepsTaken
    <3> QED  BY <2>1, <3>1, FollowsIsSubSeq DEF EventsInv
  <2> QED  BY <2>1 DEF EventsRecordTheLifecycle, Path
<1> QED  BY <1>1, <1>2, EventsInvStep, PTL DEF Spec
-----------------------------------------------------------------------------
(* Requests that overlap: a batch has the accounting event of the status it  *)
(* shows, and has left the system before it is marked as posted.              *)

\* The types of the accounting events of a batch.
Types(log) == {log[i].type : i \in DOMAIN log}

IsLog(log) == \E Rows : log \in Seq(Rows)

BatchTables == /\ batchStatus \in [Batches -> BatchStatus]
               /\ DOMAIN events = Batches /\ \A b \in Batches : IsLog(events[b])
               /\ DOMAIN sent = Batches /\ DOMAIN format = Batches
               /\ DOMAIN req = Workers

\* Where a request can be, the batch it is about, and what it has sent.
DispatchFacts(r) ==
    /\ r.op = "dispatch" /\ r.at \in {"members", "post", "commit"} /\ r.b \in Batches
    /\ r.by \in Formats
    /\ {"op", "at", "b", "by"} \subseteq DOMAIN r
    /\ r.at = "commit" /\ r.by = "webhook" => sent[r.b] # {}

ReconcileFacts(r) ==
    r.op = "reconcile" /\ r.at \in {"members", "commit"} /\ r.b \in Batches

ApplyFacts(r) ==
    /\ r.op = "apply" /\ r.at \in {"members", "ledger", "commit"}
    /\ r.b \in Batches \cup {NoBatch}

OtherFacts(r) == r = Idle \/ (r.op \in {"status", "terminate", "create"} /\ r.at = "commit")

Progress(r) == DispatchFacts(r) \/ ReconcileFacts(r) \/ ApplyFacts(r) \/ OtherFacts(r)

TxInv == /\ BatchTables
         /\ \A w \in Workers : Progress(req[w])
         /\ StatusHasItsEvent
         /\ WebhookMarkedAfterSending

\* The requests and what is sent, when only one request moves, nothing that was
\* sent is taken back and no batch is marked as posted before it is.
Moves(w) == /\ DOMAIN req' = Workers
            /\ \A v \in Workers \ {w} : req'[v] = req[v]
            /\ Progress(req[w])'
            /\ DOMAIN sent' = Batches /\ DOMAIN format' = Batches
            /\ \A b \in Batches : /\ sent[b] \subseteq sent'[b]
                                  /\ format'[b] = format[b] \/ format'[b] # "webhook"
                                     \/ sent'[b] # {}

\* An idle worker is nowhere in a request.
LEMMA IdleFacts == Idle.op = "idle"
BY DEF Idle

\* The types of a log with one more event.
LEMMA OneMoreEvent ==
    ASSUME NEW log, IsLog(log), NEW e
    PROVE  IsLog(Append(log, e)) /\ Types(Append(log, e)) = Types(log) \cup {e.type}
<1>1. PICK Rows : log \in Seq(Rows)
  BY DEF IsLog
<1> DEFINE All == Rows \cup {e}
<1>2. log \in Seq(All)
  BY <1>1
<1>3. e \in All
  OBVIOUS
<1> HIDE DEF All
<1>4. /\ Append(log, e) \in Seq(All)
      /\ Len(Append(log, e)) = Len(log) + 1
      /\ \A i \in 1 .. Len(log) : Append(log, e)[i] = log[i]
      /\ Append(log, e)[Len(log) + 1] = e
  BY <1>2, <1>3, AppendProperties
<1>5. DOMAIN log = 1 .. Len(log) /\ DOMAIN Append(log, e) = 1 .. (Len(log) + 1) /\ Len(log) \in Nat
  BY <1>2, <1>4
<1>6. 1 .. (Len(log) + 1) = (1 .. Len(log)) \cup {Len(log) + 1}
  BY <1>5
<1> QED  BY <1>4, <1>5, <1>6 DEF IsLog, Types

\* The first states satisfy the invariant.
LEMMA TxInitHolds == TxInit => TxInv
<1> SUFFICES ASSUME TxInit PROVE TxInv
  OBVIOUS
<1>1. \A b \in Batches : events[b] = <<>> /\ batchStatus[b] = "absent"
  BY DEF TxInit, Init
<1>2. IsLog(<< >>)
  BY DEF IsLog
<1>3. BatchTables
  BY <1>1, <1>2 DEF TxInit, Init, BatchTables, BatchStatus
<1>4. \A w \in Workers : req[w] = Idle
  BY DEF TxInit
<1>5. \A b \in Batches : format[b] = "none"
  BY DEF TxInit, Init
<1>6. StatusHasItsEvent /\ WebhookMarkedAfterSending
  BY <1>1, <1>5 DEF StatusHasItsEvent, WebhookMarkedAfterSending
<1> QED  BY <1>3, <1>4, <1>6 DEF TxInv, Progress, OtherFacts

\* What one request's step leaves of the other requests.
LEMMA OthersKeep ==
    ASSUME TxInv, NEW w \in Workers, Moves(w)
    PROVE  \A v \in Workers : Progress(req[v])'
<1> SUFFICES ASSUME NEW v \in Workers, v # w PROVE Progress(req[v])'
  BY DEF Moves
<1>1. req'[v] = req[v] /\ Progress(req[v])
  BY DEF Moves, TxInv
<1>2. \A b \in Batches : sent[b] # {} => sent'[b] # {}
  BY DEF Moves
<1> QED  BY <1>1, <1>2 DEF Progress, DispatchFacts, ReconcileFacts, ApplyFacts, OtherFacts

\* A step that leaves the batches as they are.
LEMMA BatchesUntouched ==
    ASSUME TxInv, NEW w \in Workers, Moves(w), UNCHANGED <<batchStatus, events>>
    PROVE  TxInv'
<1>1. BatchTables'
  BY DEF TxInv, BatchTables, Moves
<1>2. StatusHasItsEvent'
  BY DEF TxInv, StatusHasItsEvent
<1>3. WebhookMarkedAfterSending'
  BY DEF TxInv, Moves, WebhookMarkedAfterSending
<1> QED  BY <1>1, <1>2, <1>3, OthersKeep DEF TxInv

\* A step that commits status `s` of batch `b` with the event of that name.
LEMMA StatusCommitted ==
    ASSUME TxInv, NEW w \in Workers, Moves(w), NEW b \in Batches, NEW type, NEW amount, NEW s,
           batchStatus' = [batchStatus EXCEPT ![b] = s], Emit(b, type, amount),
           \/ s = "draft" /\ type = "batch_created"
           \/ s \in {"net_pay_applied", "dispatched", "reconciled"} /\ type = s
    PROVE  TxInv'
<1> DEFINE e == [type |-> type, amount |-> amount]
<1>1. e.type = type
  OBVIOUS
<1> HIDE DEF e
<1>2. events' = [events EXCEPT ![b] = Append(events[b], e)]
  BY DEF Emit, e
<1>3. IsLog(Append(events[b], e)) /\ Types(Append(events[b], e)) = Types(events[b]) \cup {type}
  BY <1>1, OneMoreEvent DEF TxInv, BatchTables
<1>4. \A c \in Batches : /\ IsLog(events'[c])
                         /\ Types(events'[c]) = IF c = b THEN Types(events[c]) \cup {type}
                                                ELSE Types(events[c])
                         /\ batchStatus'[c] = IF c = b THEN s ELSE batchStatus[c]
  BY <1>2, <1>3 DEF TxInv, BatchTables
<1>5. BatchTables'
  BY <1>2, <1>4 DEF TxInv, BatchTables, Moves, BatchStatus
<1>6. StatusHasItsEvent'
  BY <1>4 DEF TxInv, StatusHasItsEvent, Types
<1>7. WebhookMarkedAfterSending'
  BY DEF TxInv, WebhookMarkedAfterSending, Moves
<1> QED  BY <1>5, <1>6, <1>7, OthersKeep DEF TxInv

\* A worker takes up request `r` or drops the one it has; nothing is sent.
LEMMA Served ==
    ASSUME TxInv, NEW w \in Workers, NEW r, Serve(w, r), Progress(r), UNCHANGED <<sent, format>>
    PROVE  Moves(w)
<1>1. /\ req' = [req EXCEPT ![w] = r] /\ DOMAIN req = Workers
      /\ DOMAIN sent = Batches /\ DOMAIN format = Batches
  BY DEF Serve, TxInv, BatchTables
<1>2. Progress(r)'
  BY DEF Progress, DispatchFacts, ReconcileFacts, ApplyFacts, OtherFacts
<1>3. req'[w] = r
  BY <1>1
<1>4. Progress(req[w])'
  BY <1>2, <1>3
<1> QED  BY <1>1, <1>4 DEF Moves

\* A request ends: by a commit or a rollback.
LEMMA Ended ==
    ASSUME TxInv, NEW w \in Workers, Serve(w, Idle), UNCHANGED <<sent, format>>
    PROVE  Moves(w)
BY Served DEF Progress, OtherFacts

\* Requests begin, and what they read of batches and payloads is there.
LEMMA BeginStep ==
    ASSUME TxInv, NEW w \in Workers, Begin(w)
    PROVE  TxInv'
<1> SUFFICES ASSUME NEW r, Progress(r), Start(w, r) PROVE TxInv'
  <2>1. ASSUME NEW p \in Payments, NEW s \in PaymentStatus, BeginStatusUpdate(w, p, s)
        PROVE  \E r : Progress(r) /\ Start(w, r)
    BY <2>1 DEF BeginStatusUpdate, Progress, OtherFacts
  <2>2. ASSUME NEW p \in Payments, BeginReversal(w, p)
        PROVE  \E r : Progress(r) /\ Start(w, r)
    BY <2>2 DEF BeginReversal, Progress, OtherFacts
  <2>3. ASSUME NEW p \in Payments, BeginApplyNetPay(w, p)
        PROVE  \E r : Progress(r) /\ Start(w, r)
    BY <2>3 DEF BeginApplyNetPay, Progress, ApplyFacts
  <2>4. ASSUME BeginTermination(w)
        PROVE  \E r : Progress(r) /\ Start(w, r)
    BY <2>4 DEF BeginTermination, Progress, OtherFacts
  <2>5. ASSUME NEW S \in SUBSET Payments, BeginCreateBatch(w, S)
        PROVE  \E r : Progress(r) /\ Start(w, r)
    BY <2>5 DEF BeginCreateBatch, Progress, OtherFacts
  <2>6. ASSUME NEW b \in Batches, NEW op \in DOMAIN From, BeginBatchRequest(w, b, op)
        PROVE  \E r : Progress(r) /\ Start(w, r)
    <3> DEFINE r == [op |-> op, at |-> "members", b |-> b, net |-> totals[b].net]
    <3>1. r.op = op /\ r.at = "members" /\ r.b = b /\ DOMAIN r = {"op", "at", "b", "net"}
      OBVIOUS
    <3>2. Start(w, r) /\ batchStatus[b] = From[op]
      BY <2>6 DEF BeginBatchRequest
    <3>3. op \in {"apply", "reconcile"}
      BY DEF From
    <3> HIDE DEF r
    <3>4. Progress(r)
      BY <3>1, <3>3 DEF Progress, ReconcileFacts, ApplyFacts
    <3> QED  BY <3>2, <3>4
  <2>7. ASSUME NEW b \in Batches, NEW f \in Formats, BeginDispatch(w, b, f)
        PROVE  \E r : Progress(r) /\ Start(w, r)
    <3> DEFINE r == [op |-> "dispatch", at |-> "members", b |-> b, net |-> totals[b].net,
                     by |-> f, was |-> format[b]]
    <3>1. /\ r.op = "dispatch" /\ r.at = "members" /\ r.b = b /\ r.by = f
          /\ DOMAIN r = {"op", "at", "b", "net", "by", "was"}
      OBVIOUS
    <3>2. Start(w, r)
      BY <2>7 DEF BeginDispatch
    <3> HIDE DEF r
    <3>3. Progress(r)
      BY <3>1 DEF Progress, DispatchFacts
    <3> QED  BY <3>2, <3>3
  <2> QED  BY <2>1, <2>2, <2>3, <2>4, <2>5, <2>6, <2>7 DEF Begin
<1>1. Serve(w, r) /\ UNCHANGED <<sent, format, batchStatus, events>>
  BY DEF Start, vars, batchVars, outVars
<1> QED  BY <1>1, Served, BatchesUntouched

\* Between its reads a request keeps its kind and its batch.
LEMMA ReadStep ==
    ASSUME TxInv, NEW w \in Workers, ReadMembers(w) \/ ReadDispatched(w) \/ ReadLedger(w)
    PROVE  TxInv'
<1>1. UNCHANGED <<sent, format, batchStatus, events>>
  BY DEF ReadMembers, ReadDispatched, ReadLedger, vars, batchVars, outVars
<1>2. Progress(req[w]) /\ req[w] # Idle
  BY DEF TxInv, ReadMembers, ReadDispatched, ReadLedger
<1>3. CASE ReadMembers(w)
  <2> DEFINE next == [apply |-> "ledger", reconcile |-> "commit"]
             r == [op |-> req[w].op, at |-> next[req[w].op], b |-> req[w].b, net |-> req[w].net,
                   saw |-> [p \in Members(req[w].b) |-> payment[p]]]
  <2>1. Serve(w, r) /\ req[w].at = "members" /\ req[w].op # "dispatch"
    BY <1>3 DEF ReadMembers
  <2>2. /\ r.op = req[w].op /\ r.at = next[req[w].op] /\ r.b = req[w].b
        /\ DOMAIN r = {"op", "at", "b", "net", "saw"}
    OBVIOUS
  <2> HIDE DEF r
  <2>3. Progress(r)
    BY <1>2, <2>1, <2>2 DEF Progress, DispatchFacts, ReconcileFacts, ApplyFacts, OtherFacts
  <2> QED  BY <1>1, <2>1, <2>3, Served, BatchesUntouched
<1>4. CASE ReadLedger(w)
  <2> DEFINE r == [op |-> "apply", at |-> "commit", b |-> req[w].b, saw |-> req[w].saw,
                   lines |-> [p \in DOMAIN req[w].saw |-> NetPayLines(req[w].saw[p].gross)]]
  <2>1. Serve(w, r) /\ req[w].at = "ledger"
    BY <1>4 DEF ReadLedger
  <2>2. r.op = "apply" /\ r.at = "commit" /\ r.b = req[w].b
    OBVIOUS
  <2> HIDE DEF r
  <2>3. req[w].b \in Batches \cup {NoBatch}
    BY <1>2, <2>1 DEF Progress, DispatchFacts, ReconcileFacts, ApplyFacts, OtherFacts
  <2>4. Progress(r)
    BY <2>2, <2>3 DEF Progress, ApplyFacts
  <2> QED  BY <1>1, <2>1, <2>4, Served, BatchesUntouched
<1>5. CASE ReadDispatched(w)
  <2> DEFINE at == IF req[w].by = "webhook" THEN "post" ELSE "commit"
             r == [op |-> "dispatch", at |-> at, b |-> req[w].b, net |-> req[w].net,
                   by |-> req[w].by, was |-> req[w].was,
                   saw |-> [p \in Members(req[w].b) |-> payment[p]]]
  <2>1. Serve(w, r) /\ req[w].op = "dispatch"
    BY <1>5 DEF ReadDispatched, At
  <2>2. /\ r.op = "dispatch" /\ r.at = at /\ r.b = req[w].b /\ r.by = req[w].by
        /\ {"op", "at", "b", "by"} \subseteq DOMAIN r
    OBVIOUS
  <2> HIDE DEF r
  <2>3. DispatchFacts(req[w])
    BY <1>2, <2>1 DEF Progress, ReconcileFacts, ApplyFacts, OtherFacts
  <2>4. Progress(r)
    BY <2>2, <2>3 DEF Progress, DispatchFacts
  <2> QED  BY <1>1, <2>1, <2>4, Served, BatchesUntouched
<1> QED  BY <1>3, <1>4, <1>5

\* After the POST the bank has a payload of the batch.
LEMMA PostStep ==
    ASSUME TxInv, NEW w \in Workers, Post(w)
    PROVE  TxInv'
<1> DEFINE b == req[w].b
           payload == PayloadRead(req[w])
           r == [req[w] EXCEPT !.at = "commit"]
<1>1. /\ req[w] # Idle /\ req[w].at = "post"
      /\ sent' = [sent EXCEPT ![b] = sent[b] \cup {payload}]
      /\ Serve(w, r) /\ UNCHANGED <<batchStatus, events, format>>
  BY DEF Post
<1>2. DispatchFacts(req[w])
  BY <1>1 DEF TxInv, Progress, DispatchFacts, ReconcileFacts, ApplyFacts, OtherFacts
<1>3. /\ r.op = "dispatch" /\ r.at = "commit" /\ r.b = b /\ b \in Batches
      /\ r.by = req[w].by /\ r.by \in Formats
      /\ {"op", "at", "b", "by"} \subseteq DOMAIN r
  BY <1>2 DEF DispatchFacts
<1> HIDE DEF payload, r
<1>4. DOMAIN sent = Batches /\ DOMAIN format = Batches /\ DOMAIN req = Workers
  BY DEF TxInv, BatchTables
<1>5. /\ DOMAIN sent' = Batches /\ DOMAIN format' = Batches /\ format' = format
      /\ \A c \in Batches : sent[c] \subseteq sent'[c]
      /\ sent'[b] # {}
  BY <1>1, <1>3, <1>4
<1>6. req' = [req EXCEPT ![w] = r]
  BY <1>1 DEF Serve
<1>7. req'[w] = r /\ DOMAIN req' = Workers /\ \A v \in Workers \ {w} : req'[v] = req[v]
  BY <1>4, <1>6
<1>8. DispatchFacts(req[w])'
  BY <1>3, <1>5, <1>7 DEF DispatchFacts
<1>9. Moves(w)
  BY <1>5, <1>7, <1>8 DEF Moves, Progress
<1> QED  BY <1>1, <1>9, BatchesUntouched

\* Commits store a status with its event, or touch no batch.
LEMMA CommitStep ==
    ASSUME TxInv, NEW w \in Workers,
           \/ CommitStatus(w) \/ CommitTermination(w) \/ CommitCreateBatch(w)
           \/ CommitApply(w) \/ CommitDispatch(w) \/ CommitReconcile(w) \/ Abort(w)
    PROVE  TxInv'
<1>1. CASE CommitStatus(w) \/ CommitTermination(w) \/ Abort(w)
  <2>1. Serve(w, Idle) /\ UNCHANGED <<sent, format, batchStatus, events>>
    BY <1>1 DEF CommitStatus, CommitTermination, Abort, vars, batchVars, outVars
  <2> QED  BY <2>1, Ended, BatchesUntouched
<1>2. CASE CommitCreateBatch(w)
  <2>1. Moves(w)
    BY <1>2, Ended DEF CommitCreateBatch, outVars
  <2>2. PICK b \in Batches : /\ batchStatus' = [batchStatus EXCEPT ![b] = "draft"]
                             /\ Emit(b, "batch_created", 0)
    BY <1>2 DEF CommitCreateBatch
  <2> QED  BY <2>1, <2>2, StatusCommitted
<1>3. CASE CommitApply(w)
  <2>1. Moves(w)
    BY <1>3, Ended DEF CommitApply, outVars
  <2>2. req[w].b \in Batches \cup {NoBatch}
    BY <1>3, IdleFacts DEF CommitApply, At, TxInv, Progress, DispatchFacts, ReconcileFacts, ApplyFacts, OtherFacts
  <2>3. CASE req[w].b = NoBatch
    <3>1. UNCHANGED <<batchStatus, events>>
      BY <1>3, <2>3 DEF CommitApply
    <3> QED  BY <2>1, <3>1, BatchesUntouched
  <2>4. CASE req[w].b # NoBatch
    <3>1. \E amount : /\ batchStatus' = [batchStatus EXCEPT ![req[w].b] = "net_pay_applied"]
                      /\ Emit(req[w].b, "net_pay_applied", amount)
      BY <1>3, <2>4 DEF CommitApply
    <3> QED  BY <2>1, <2>2, <2>4, <3>1, StatusCommitted
  <2> QED  BY <2>3, <2>4
<1>4. CASE CommitDispatch(w)
  <2> DEFINE b == req[w].b
  <2>1. /\ Serve(w, Idle) /\ UNCHANGED sent
        /\ batchStatus' = [batchStatus EXCEPT ![b] = "dispatched"]
        /\ format' = [format EXCEPT ![b] = Written(req[w].was, req[w].by, format[b])]
        /\ \E amount : Emit(b, "dispatched", amount)
    BY <1>4 DEF CommitDispatch
  <2>2. DispatchFacts(req[w]) /\ req[w].at = "commit"
    BY <1>4, IdleFacts DEF CommitDispatch, At, TxInv, Progress, DispatchFacts, ReconcileFacts, ApplyFacts, OtherFacts
  <2>3. b \in Batches /\ (req[w].by = "webhook" => sent'[b] # {})
    BY <2>1, <2>2 DEF DispatchFacts
  <2>4. DOMAIN sent = Batches /\ DOMAIN format = Batches /\ DOMAIN req = Workers
    BY DEF TxInv, BatchTables
  <2>5. req' = [req EXCEPT ![w] = Idle]
    BY <2>1 DEF Serve
  <2>6. Progress(req[w])'
    BY <2>4, <2>5 DEF Progress, OtherFacts
  <2>7. Written(req[w].was, req[w].by, format[b]) \in {format[b], req[w].by}
    BY DEF Written
  <2> HIDE DEF b
  <2>8. \A c \in Batches : format'[c] = format[c] \/ format'[c] # "webhook" \/ sent'[c] # {}
    BY <2>1, <2>3, <2>4, <2>7
  <2>9. Moves(w)
    BY <2>1, <2>4, <2>5, <2>6, <2>8 DEF Moves
  <2> QED  BY <2>1, <2>3, <2>9, StatusCommitted
<1>5. CASE CommitReconcile(w)
  <2>1. Moves(w)
    BY <1>5, Ended DEF CommitReconcile, outVars
  <2>2. ReconcileFacts(req[w])
    BY <1>5, IdleFacts DEF CommitReconcile, At, TxInv, Progress, DispatchFacts, ReconcileFacts, ApplyFacts, OtherFacts
  <2>3. req[w].b \in Batches
    BY <2>2 DEF ReconcileFacts
  <2> QED  BY <1>5, <2>1, <2>3, StatusCommitted DEF CommitReconcile
<1> QED  BY <1>1, <1>2, <1>3, <1>4, <1>5

\* A request that is one step touches no batch.
LEMMA ImmediateStep ==
    ASSUME TxInv, NEW w \in Workers, Immediate(w)
    PROVE  TxInv'
<1>1. UNCHANGED <<req, sent, format, batchStatus, events>>
  BY DEF Immediate, CreatePayment, ChangeStandingOrders, SetTaxWithholding, batchVars, outVars
<1>2. /\ Progress(req[w]) /\ DOMAIN req = Workers
      /\ DOMAIN sent = Batches /\ DOMAIN format = Batches
  BY DEF TxInv, BatchTables
<1>3. Progress(req[w])'
  BY <1>1, <1>2 DEF Progress, DispatchFacts, ReconcileFacts, ApplyFacts, OtherFacts
<1>4. Moves(w)
  BY <1>1, <1>2, <1>3 DEF Moves
<1> QED  BY <1>1, <1>4, BatchesUntouched

\* A response arrives or is lost.
LEMMA AnswerStep == TxInv /\ Answer => TxInv'
<1> SUFFICES ASSUME TxInv, Answer PROVE TxInv'
  OBVIOUS
<1>1. UNCHANGED <<req, format, batchStatus, events>>
  BY DEF Answer, DeliverAnswer, LoseAnswer
<1>2. DOMAIN sent' = Batches /\ \A b \in Batches : sent[b] \subseteq sent'[b]
  BY DEF Answer, DeliverAnswer, LoseAnswer, TxInv, BatchTables
<1>3. BatchTables' /\ StatusHasItsEvent' /\ WebhookMarkedAfterSending'
  BY <1>1, <1>2 DEF TxInv, BatchTables, StatusHasItsEvent, WebhookMarkedAfterSending
<1>4. \A w \in Workers : Progress(req[w])'
  BY <1>1, <1>2 DEF TxInv, Progress, DispatchFacts, ReconcileFacts, ApplyFacts, OtherFacts
<1> QED  BY <1>3, <1>4 DEF TxInv

\* Nothing happens.
LEMMA TxStutter == TxInv /\ UNCHANGED txVars => TxInv'
<1> SUFFICES ASSUME TxInv, UNCHANGED txVars PROVE TxInv'
  OBVIOUS
<1>1. UNCHANGED <<req, sent, format, batchStatus, events>>
  BY DEF txVars, vars, batchVars, outVars
<1>2. BatchTables' /\ StatusHasItsEvent' /\ WebhookMarkedAfterSending'
  BY <1>1 DEF TxInv, BatchTables, StatusHasItsEvent, WebhookMarkedAfterSending
<1>3. \A w \in Workers : Progress(req[w])'
  BY <1>1 DEF TxInv, Progress, DispatchFacts, ReconcileFacts, ApplyFacts, OtherFacts
<1> QED  BY <1>2, <1>3 DEF TxInv
-----------------------------------------------------------------------------
\* The invariant holds in every state.
THEOREM TxInvariant == TxSpec => []TxInv
<1>1. TxInv /\ [TxNext]_txVars => TxInv'
  BY BeginStep, ReadStep, PostStep, CommitStep, ImmediateStep, AnswerStep, TxStutter
  DEF TxNext, Proceed
<1> QED  BY <1>1, TxInitHolds, PTL DEF TxSpec

\* Whatever overlaps, what a batch shows has happened: its status and its event are
\* committed together, and the POST precedes the commit and is never taken back.
THEOREM MarksAreAlwaysBacked == TxSpec => []MarksAreBacked
<1>1. TxInv => MarksAreBacked
  BY DEF TxInv, MarksAreBacked
<1> QED  BY <1>1, TxInvariant, PTL
-----------------------------------------------------------------------------
(* One worker: its requests are the atomic steps of PaymentDisbursement,      *)
(* because nothing is committed between what a request reads and what it      *)
(* writes.                                                                    *)

\* What a request has read is what the database still holds, and the guards it
\* has passed still hold.
StatusRead(r) ==
    /\ r.op = "status" /\ r.at = "commit"
    /\ r.p \in Payments /\ r.to \in PaymentStatus
    /\ StatusUpdateAllowed(r.p, r.to)
    /\ r.saw = payment[r.p].status

TerminationRead(r) ==
    /\ r.op = "terminate" /\ r.at = "commit"
    /\ ~deceased
    /\ r.cancel = {p \in SurvivorPayments : payment[p].status \in {"pending", "held"}}

CreateRead(r) ==
    /\ r.op = "create" /\ r.at = "commit"
    /\ r.S \in SUBSET Payments
    /\ Batchable(r.S)

\* Net pay is for one payment, or for those of a draft batch.
Target(r, S) ==
    \/ r.b = NoBatch /\ \E p \in Payments : S = {p}
    \/ r.b \in Batches /\ batchStatus[r.b] = "draft" /\ S = Members(r.b) /\ S # {}

PaymentsRead(r) ==
    \E S \in SUBSET Payments :
        /\ Target(r, S)
        /\ \A p \in S : Exists(p) /\ payment[p].status # "issued"
        /\ r.saw = [p \in S |-> payment[p]]

LinesRead(r) ==
    /\ \A p \in DOMAIN r.saw : deductions[p].rows = 0
    /\ r.lines = [p \in DOMAIN r.saw |-> NetPayLines(r.saw[p].gross)]

ApplyRead(r) ==
    /\ r.op = "apply"
    /\ \/ r.at = "members" /\ r.b \in Batches /\ batchStatus[r.b] = "draft"
       \/ r.at = "ledger" /\ PaymentsRead(r)
       \/ r.at = "commit" /\ PaymentsRead(r) /\ LinesRead(r)

BatchRead(r, status) ==
    /\ r.b \in Batches /\ batchStatus[r.b] = status /\ r.net = totals[r.b].net
    /\ r.at # "members" => r.saw = [p \in Members(r.b) |-> payment[p]]

DispatchRead(r) ==
    /\ r.op = "dispatch" /\ r.at \in {"members", "post", "commit"}
    /\ r.by \in Formats /\ r.was = format[r.b]
    /\ BatchRead(r, "net_pay_applied")
    /\ {"op", "at", "b", "net", "by", "was", "saw"} \subseteq DOMAIN r \/ r.at = "members"
    /\ r.at = "post" => r.by = "webhook"
    /\ r.at = "commit" /\ r.by = "webhook" => Payload(r.b) \in sent[r.b]

ReconcileRead(r) ==
    /\ r.op = "reconcile" /\ r.at \in {"members", "commit"}
    /\ BatchRead(r, "dispatched")

Fresh(r) == \/ r = Idle
            \/ StatusRead(r) \/ TerminationRead(r) \/ CreateRead(r)
            \/ ApplyRead(r) \/ DispatchRead(r) \/ ReconcileRead(r)

SentIsTable == /\ sent = [b \in Batches |-> sent[b]]
               /\ answers = [b \in Batches |-> answers[b]]

\* The inductive invariant of one worker.
SerialInv(w) == LedgerInv /\ SentIsTable /\ DOMAIN req = Workers /\ Fresh(req[w])

\* The worker's next request is as fresh as this one was.
StaysFresh(w) == SentIsTable' /\ DOMAIN req' = Workers /\ Fresh(req[w])'

\* A request stays fresh while nothing is committed.
LEMMA FreshKept ==
    ASSUME NEW r, Fresh(r), UNCHANGED vars
    PROVE  Fresh(r)'
<1> USE DEF vars, batchVars, outVars, memberVars, Exists, Members
<1>1. StatusRead(r) => StatusRead(r)'
  BY DEF StatusRead, StatusUpdateAllowed
<1>2. TerminationRead(r) => TerminationRead(r)'
  BY DEF TerminationRead
<1>3. CreateRead(r) => CreateRead(r)'
  BY DEF CreateRead, Batchable
<1>4. ApplyRead(r) => ApplyRead(r)'
  <2>1. PaymentsRead(r) => PaymentsRead(r)'
    BY DEF PaymentsRead, Target
  <2>2. LinesRead(r) => LinesRead(r)'
    BY DEF LinesRead, NetPayLines
  <2> QED  BY <2>1, <2>2 DEF ApplyRead
<1>5. DispatchRead(r) => DispatchRead(r)'
  BY DEF DispatchRead, BatchRead, Payload
<1>6. ReconcileRead(r) => ReconcileRead(r)'
  BY DEF ReconcileRead, BatchRead
<1> QED  BY <1>1, <1>2, <1>3, <1>4, <1>5, <1>6 DEF Fresh

\* The arrival or the loss of a response.
AnswerOnly ==
    /\ UNCHANGED <<payment, deductions, batchStatus, totals, events, format, memberVars>>
    /\ SentIsTable' /\ \A b \in Batches : sent[b] \subseteq sent'[b]

\* It leaves a request fresh, since what was sent stays sent.
LEMMA FreshThroughAnswers ==
    ASSUME NEW r, Fresh(r), AnswerOnly
    PROVE  Fresh(r)'
<1> USE DEF AnswerOnly, memberVars, Exists, Members
<1>1. StatusRead(r) => StatusRead(r)'
  BY DEF StatusRead, StatusUpdateAllowed
<1>2. TerminationRead(r) => TerminationRead(r)'
  BY DEF TerminationRead
<1>3. CreateRead(r) => CreateRead(r)'
  BY DEF CreateRead, Batchable
<1>4. ApplyRead(r) => ApplyRead(r)'
  <2>1. PaymentsRead(r) => PaymentsRead(r)'
    BY DEF PaymentsRead, Target
  <2>2. LinesRead(r) => LinesRead(r)'
    BY DEF LinesRead, NetPayLines
  <2> QED  BY <2>1, <2>2 DEF ApplyRead
<1>5. DispatchRead(r) => DispatchRead(r)'
  BY DEF DispatchRead, BatchRead, Payload
<1>6. ReconcileRead(r) => ReconcileRead(r)'
  BY DEF ReconcileRead, BatchRead
<1> QED  BY <1>1, <1>2, <1>3, <1>4, <1>5, <1>6 DEF Fresh

\* A read takes the request from one fresh record to the next.
LEMMA Took ==
    ASSUME NEW w \in Workers, SentIsTable, DOMAIN req = Workers,
           NEW r, Fresh(r), Serve(w, r), UNCHANGED vars
    PROVE  StaysFresh(w)
<1>1. Fresh(r)'
  BY FreshKept
<1>2. req' = [req EXCEPT ![w] = r]
  BY DEF Serve
<1>3. req'[w] = r /\ DOMAIN req' = Workers
  BY <1>2
<1>4. Fresh(req[w])'
  BY <1>1, <1>3
<1>5. SentIsTable'
  BY DEF SentIsTable, vars, batchVars, outVars
<1> QED  BY <1>3, <1>4, <1>5 DEF StaysFresh

\* A commit or a rollback ends the request.
LEMMA EndsFresh ==
    ASSUME NEW w \in Workers, SerialInv(w), Serve(w, Idle), SentIsTable'
    PROVE  StaysFresh(w)
<1>1. req' = [req EXCEPT ![w] = Idle]
  BY DEF Serve
<1>2. req'[w] = Idle /\ DOMAIN req' = Workers
  BY <1>1 DEF SerialInv
<1> QED  BY <1>2 DEF StaysFresh, Fresh

\* A payment of a batch exists.
LEMMA MembersExist ==
    ASSUME LedgerInv, NEW b \in Batches, NEW p \in Members(b)
    PROVE  p \in Payments /\ Exists(p)
BY ConstantsAssumption DEF LedgerInv, AbsentIsBlank, Members

\* The first read of a request is fresh.
LEMMA BeginsFresh ==
    ASSUME NEW w \in Workers, SerialInv(w), Begin(w)
    PROVE  StaysFresh(w) /\ UNCHANGED vars
<1> SUFFICES \E r : Fresh(r) /\ Start(w, r)
  BY Took DEF Start, SerialInv
<1>1. ASSUME NEW p \in Payments, NEW s \in PaymentStatus, StatusUpdateAllowed(p, s),
             Start(w, [op |-> "status", at |-> "commit", p |-> p, to |-> s, saw |-> payment[p].status])
      PROVE  \E r : Fresh(r) /\ Start(w, r)
  <2> DEFINE r == [op |-> "status", at |-> "commit", p |-> p, to |-> s, saw |-> payment[p].status]
  <2>1. StatusRead(r)
    BY <1>1 DEF StatusRead
  <2> QED  BY <1>1, <2>1 DEF Fresh
<1>2. ASSUME NEW p \in Payments, NEW s \in PaymentStatus, BeginStatusUpdate(w, p, s)
      PROVE  \E r : Fresh(r) /\ Start(w, r)
  BY <1>1, <1>2 DEF BeginStatusUpdate
<1>3. ASSUME NEW p \in Payments, BeginReversal(w, p)
      PROVE  \E r : Fresh(r) /\ Start(w, r)
  <2>1. StatusUpdateAllowed(p, "reversed") /\ "reversed" \in PaymentStatus
    BY <1>3 DEF BeginReversal, ReverseAllowed, StatusUpdateAllowed, PaymentStatus
  <2> QED  BY <1>1, <1>3, <2>1 DEF BeginReversal
<1>4. ASSUME NEW p \in Payments, BeginApplyNetPay(w, p)
      PROVE  \E r : Fresh(r) /\ Start(w, r)
  <2> DEFINE r == [op |-> "apply", at |-> "ledger", b |-> NoBatch, saw |-> [q \in {p} |-> payment[q]]]
  <2>1. /\ r.op = "apply" /\ r.at = "ledger" /\ r.b = NoBatch
        /\ r.saw = [q \in {p} |-> payment[q]]
    OBVIOUS
  <2>2. Start(w, r) /\ \A q \in {p} : Exists(q) /\ payment[q].status # "issued"
    BY <1>4 DEF BeginApplyNetPay
  <2> HIDE DEF r
  <2>3. Target(r, {p})
    BY <2>1 DEF Target
  <2>4. PaymentsRead(r)
    BY <2>1, <2>2, <2>3 DEF PaymentsRead
  <2> QED  BY <2>1, <2>2, <2>4 DEF Fresh, ApplyRead
<1>5. ASSUME BeginTermination(w)
      PROVE  \E r : Fresh(r) /\ Start(w, r)
  BY <1>5 DEF BeginTermination, Fresh, TerminationRead
<1>6. ASSUME NEW S \in SUBSET Payments, BeginCreateBatch(w, S)
      PROVE  \E r : Fresh(r) /\ Start(w, r)
  BY <1>6 DEF BeginCreateBatch, Fresh, CreateRead
<1>7. ASSUME NEW b \in Batches, NEW op \in DOMAIN From, BeginBatchRequest(w, b, op)
      PROVE  \E r : Fresh(r) /\ Start(w, r)
  <2> DEFINE r == [op |-> op, at |-> "members", b |-> b, net |-> totals[b].net]
  <2>1. r.op = op /\ r.at = "members" /\ r.b = b /\ r.net = totals[b].net
    OBVIOUS
  <2>2. Start(w, r) /\ batchStatus[b] = From[op]
    BY <1>7 DEF BeginBatchRequest
  <2> HIDE DEF r
  <2>3. Fresh(r)
    BY <2>1, <2>2 DEF From, Fresh, ApplyRead, ReconcileRead, BatchRead
  <2> QED  BY <2>2, <2>3
<1>8. ASSUME NEW b \in Batches, NEW f \in Formats, BeginDispatch(w, b, f)
      PROVE  \E r : Fresh(r) /\ Start(w, r)
  <2> DEFINE r == [op |-> "dispatch", at |-> "members", b |-> b, net |-> totals[b].net,
                   by |-> f, was |-> format[b]]
  <2>1. /\ r.op = "dispatch" /\ r.at = "members" /\ r.b = b /\ r.net = totals[b].net
        /\ r.by = f /\ r.was = format[b]
    OBVIOUS
  <2>2. Start(w, r) /\ batchStatus[b] = "net_pay_applied"
    BY <1>8 DEF BeginDispatch
  <2> HIDE DEF r
  <2>3. Fresh(r)
    BY <2>1, <2>2 DEF Fresh, DispatchRead, BatchRead
  <2> QED  BY <2>2, <2>3
<1> QED  BY <1>2, <1>3, <1>4, <1>5, <1>6, <1>7, <1>8 DEF Begin

\* A later read of a request is fresh.
LEMMA ReadsFresh ==
    ASSUME NEW w \in Workers, SerialInv(w),
           ReadMembers(w) \/ ReadDispatched(w) \/ ReadLedger(w)
    PROVE  StaysFresh(w) /\ UNCHANGED vars
<1> SUFFICES \E r : Fresh(r) /\ Serve(w, r)
  BY Took DEF SerialInv, ReadMembers, ReadDispatched, ReadLedger
<1>1. CASE ReadMembers(w)
  <2> DEFINE next == [apply |-> "ledger", reconcile |-> "commit"]
             b == req[w].b
             r == [op |-> req[w].op, at |-> next[req[w].op], b |-> b, net |-> req[w].net,
                   saw |-> [p \in Members(b) |-> payment[p]]]
  <2>1. /\ req[w] # Idle /\ req[w].at = "members" /\ req[w].op # "dispatch"
        /\ req[w].op = "apply" => /\ Members(b) # {}
                                  /\ \A p \in Members(b) : payment[p].status # "issued"
        /\ Serve(w, r)
    BY <1>1 DEF ReadMembers
  <2>2. /\ r.op = req[w].op /\ r.at = next[req[w].op] /\ r.b = b /\ r.net = req[w].net
        /\ r.saw = [p \in Members(b) |-> payment[p]]
        /\ {"op", "at", "b", "net", "saw"} \subseteq DOMAIN r
    OBVIOUS
  <2> HIDE DEF r
  <2>3. ApplyRead(req[w]) \/ ReconcileRead(req[w])
    BY <2>1 DEF SerialInv, Fresh, StatusRead, TerminationRead, CreateRead, DispatchRead
  <2>4. CASE ApplyRead(req[w])
    <3>1. r.op = "apply" /\ r.at = "ledger" /\ r.b \in Batches /\ batchStatus[r.b] = "draft"
      BY <2>1, <2>2, <2>4 DEF ApplyRead
    <3>2. \A p \in Members(b) : Exists(p) /\ payment[p].status # "issued"
      BY <2>1, <2>2, <2>4, <3>1, MembersExist DEF SerialInv, ApplyRead
    <3>3. Target(r, Members(b)) /\ Members(b) \in SUBSET Payments
      BY <2>1, <2>2, <2>4, <3>1 DEF Target, ApplyRead, Members
    <3> QED  BY <2>1, <2>2, <3>1, <3>2, <3>3 DEF Fresh, ApplyRead, PaymentsRead
  <2>5. CASE ReconcileRead(req[w])
    <3>1. r.op = "reconcile" /\ r.at = "commit"
      BY <2>2, <2>5 DEF ReconcileRead
    <3> QED  BY <2>1, <2>2, <2>5, <3>1 DEF Fresh, ReconcileRead, BatchRead
  <2> QED  BY <2>3, <2>4, <2>5
<1>2. CASE ReadLedger(w)
  <2> DEFINE r == [op |-> "apply", at |-> "commit", b |-> req[w].b, saw |-> req[w].saw,
                   lines |-> [p \in DOMAIN req[w].saw |-> NetPayLines(req[w].saw[p].gross)]]
  <2>1. /\ req[w] # Idle /\ req[w].at = "ledger" /\ Serve(w, r)
        /\ \A p \in DOMAIN req[w].saw : deductions[p].rows = 0
    BY <1>2 DEF ReadLedger
  <2>2. /\ r.op = "apply" /\ r.at = "commit" /\ r.b = req[w].b /\ r.saw = req[w].saw
        /\ r.lines = [p \in DOMAIN req[w].saw |-> NetPayLines(req[w].saw[p].gross)]
    OBVIOUS
  <2> HIDE DEF r
  <2>3. PaymentsRead(req[w])
    BY <2>1 DEF SerialInv, Fresh, StatusRead, TerminationRead, CreateRead, ApplyRead, DispatchRead,
                ReconcileRead
  <2>4. PaymentsRead(r)
    BY <2>2, <2>3 DEF PaymentsRead, Target
  <2>5. LinesRead(r)
    BY <2>1, <2>2 DEF LinesRead
  <2> QED  BY <2>1, <2>2, <2>4, <2>5 DEF Fresh, ApplyRead
<1>3. CASE ReadDispatched(w)
  <2> DEFINE b == req[w].b
             at == IF req[w].by = "webhook" THEN "post" ELSE "commit"
             r == [op |-> "dispatch", at |-> at, b |-> b, net |-> req[w].net,
                   by |-> req[w].by, was |-> req[w].was,
                   saw |-> [p \in Members(b) |-> payment[p]]]
  <2>1. req[w] # Idle /\ req[w].op = "dispatch" /\ Serve(w, r)
    BY <1>3 DEF ReadDispatched, At
  <2>2. /\ r.op = "dispatch" /\ r.at = at /\ r.b = b /\ r.net = req[w].net
        /\ r.by = req[w].by /\ r.was = req[w].was
        /\ r.saw = [p \in Members(b) |-> payment[p]]
        /\ {"op", "at", "b", "net", "by", "was", "saw"} \subseteq DOMAIN r
    OBVIOUS
  <2> HIDE DEF r
  <2>3. DispatchRead(req[w])
    BY <2>1 DEF SerialInv, Fresh, StatusRead, TerminationRead, CreateRead, ApplyRead,
                ReconcileRead
  <2>4. DispatchRead(r)
    BY <2>2, <2>3 DEF DispatchRead, BatchRead
  <2> QED  BY <2>1, <2>4 DEF Fresh
<1> QED  BY <1>1, <1>2, <1>3

\* The POST of a fresh dispatch is a webhook dispatch whose answer is not known.
LEMMA PostsFresh ==
    ASSUME NEW w \in Workers, SerialInv(w), Post(w)
    PROVE  StaysFresh(w) /\ DispatchWebhookFails(req[w].b) /\ req[w].b \in Batches
<1> DEFINE b == req[w].b
           payload == PayloadRead(req[w])
           r == [req[w] EXCEPT !.at = "commit"]
<1>1. /\ req[w] # Idle /\ req[w].at = "post"
      /\ sent' = [sent EXCEPT ![b] = sent[b] \cup {payload}]
      /\ Serve(w, r)
      /\ UNCHANGED <<payment, deductions, batchStatus, totals, events, format, answers,
                     memberVars>>
  BY DEF Post
<1>2. DispatchRead(req[w])
  BY <1>1 DEF SerialInv, Fresh, StatusRead, TerminationRead, CreateRead, ApplyRead, ReconcileRead
<1>3. /\ req[w].op = "dispatch" /\ b \in Batches /\ batchStatus[b] = "net_pay_applied"
      /\ req[w].net = totals[b].net /\ req[w].saw = [p \in Members(b) |-> payment[p]]
      /\ req[w].by \in Formats /\ req[w].was = format[b]
      /\ {"op", "at", "b", "net", "by", "was", "saw"} \subseteq DOMAIN req[w]
  BY <1>1, <1>2 DEF DispatchRead, BatchRead
<1>4. /\ r.op = "dispatch" /\ r.at = "commit" /\ r.b = b
      /\ r.net = req[w].net /\ r.saw = req[w].saw
      /\ r.by = req[w].by /\ r.was = req[w].was
      /\ {"op", "at", "b", "net", "by", "was", "saw"} \subseteq DOMAIN r
  BY <1>3
<1>5. payload = Payload(b)
  BY <1>3 DEF Payload, PayloadRead
<1> HIDE DEF payload, r
<1>6. DispatchWebhookFails(b)
  BY <1>1, <1>3, <1>5 DEF DispatchWebhookFails
<1>7. /\ DOMAIN sent = Batches /\ DOMAIN req = Workers
      /\ req' = [req EXCEPT ![w] = r]
  BY <1>1 DEF Serve, SerialInv, LedgerInv, TypeOK
<1>8. PICK c \in Batches : c = b
  BY <1>3
<1>9. Members(c)' = Members(c) /\ Payload(c)' = Payload(c)
  BY <1>1 DEF Members, Payload
<1>10. Payload(c) \in sent'[c]
  BY <1>1, <1>5, <1>7, <1>8
<1>11. req'[w] = r /\ r.b = c
  BY <1>4, <1>7, <1>8
<1>12. DispatchRead(req[w])'
  BY <1>1, <1>3, <1>4, <1>8, <1>9, <1>10, <1>11 DEF DispatchRead, BatchRead
<1>13. SentIsTable'
  BY <1>1, <1>7 DEF SerialInv, SentIsTable
<1>14. StaysFresh(w)
  BY <1>7, <1>12, <1>13 DEF StaysFresh, Fresh
<1> QED  BY <1>3, <1>6, <1>14

\* A commit of a fresh request is the atomic step of PaymentDisbursement that
\* reads and writes at once: an update or reversal of a payment,
LEMMA StatusIsAtomic ==
    ASSUME NEW w \in Workers, SerialInv(w), CommitStatus(w)
    PROVE  \E p \in Payments, s \in PaymentStatus : UpdatePaymentStatus(p, s)
<1> DEFINE p == req[w].p
           s == req[w].to
<1>1. StatusRead(req[w])
  BY DEF CommitStatus, SerialInv, Fresh, TerminationRead, CreateRead, ApplyRead, DispatchRead,
         ReconcileRead
<1>2. /\ p \in Payments /\ s \in PaymentStatus
      /\ StatusUpdateAllowed(p, s) /\ req[w].saw = payment[p].status
  BY <1>1 DEF StatusRead
<1>3. /\ payment' = [payment EXCEPT
              ![p].status = Written(req[w].saw, s, payment[p].status),
              ![p].issuedAt = payment[p].issuedAt \/ s = "issued"]
      /\ UNCHANGED <<deductions, batchVars, memberVars>>
  BY DEF CommitStatus
<1>4. Written(req[w].saw, s, payment[p].status) = s
  BY <1>2 DEF Written
<1> HIDE DEF p, s
<1>5. payment' = [payment EXCEPT ![p].status = s,
                                 ![p].issuedAt = payment[p].issuedAt \/ s = "issued"]
  BY <1>3, <1>4
<1>6. UpdatePaymentStatus(p, s)
  BY <1>2, <1>3, <1>5 DEF UpdatePaymentStatus
<1> QED  BY <1>2, <1>6

\* a beneficiary's death,
LEMMA TerminationIsAtomic ==
    ASSUME NEW w \in Workers, SerialInv(w), CommitTermination(w)
    PROVE  TerminateSurvivorAnnuity
<1>1. TerminationRead(req[w])
  BY DEF CommitTermination, SerialInv, Fresh, StatusRead, CreateRead, ApplyRead, DispatchRead,
         ReconcileRead
<1> QED  BY <1>1 DEF TerminationRead, CommitTermination, TerminateSurvivorAnnuity

\* a new batch,
LEMMA CreateIsAtomic ==
    ASSUME NEW w \in Workers, SerialInv(w), CommitCreateBatch(w)
    PROVE  \E b \in Batches : \E S \in SUBSET Payments : CreateBatch(b, S)
<1>1. CreateRead(req[w])
  BY DEF CommitCreateBatch, SerialInv, Fresh, StatusRead, TerminationRead, ApplyRead,
         DispatchRead, ReconcileRead
<1> QED  BY <1>1 DEF CreateRead, CommitCreateBatch, CreateBatch

\* a dispatch, whose payload the POST has already added to what was sent, or
\* whose response takes it along,
LEMMA DispatchIsAtomic ==
    ASSUME NEW w \in Workers, SerialInv(w), CommitDispatch(w)
    PROVE  /\ \E b \in Batches : DispatchByWebhook(b) \/ DispatchAsJson(b)
           /\ SentIsTable'
<1> DEFINE b == req[w].b
<1>1. DispatchRead(req[w]) /\ req[w].at = "commit"
  BY IdleFacts DEF CommitDispatch, At, SerialInv, Fresh, StatusRead, TerminationRead, CreateRead,
                   ApplyRead, ReconcileRead
<1>2. /\ b \in Batches /\ batchStatus[b] = "net_pay_applied" /\ req[w].net = totals[b].net
      /\ req[w].saw = [p \in Members(b) |-> payment[p]]
      /\ req[w].by \in {"json", "webhook"} /\ req[w].was = format[b]
      /\ req[w].by = "webhook" => Payload(b) \in sent[b]
  BY <1>1 DEF DispatchRead, BatchRead, Formats
<1>3. Written(req[w].was, req[w].by, format[b]) = req[w].by
  BY <1>2 DEF Written
<1>4. MarkDispatched(b, req[w].by)
  BY <1>2, <1>3 DEF CommitDispatch, MarkDispatched
<1>5. PayloadRead(req[w]) = Payload(b)
  BY <1>2 DEF Payload, PayloadRead
<1>6. CASE req[w].by = "webhook"
  <2>1. answers' = answers /\ sent' = sent
    BY <1>6 DEF CommitDispatch
  <2>2. sent' = [sent EXCEPT ![b] = sent[b] \cup {Payload(b)}]
    BY <1>2, <1>6, <2>1 DEF SerialInv, SentIsTable
  <2>3. SentIsTable'
    BY <2>1 DEF SerialInv, SentIsTable
  <2> QED  BY <1>2, <1>4, <1>6, <2>1, <2>2, <2>3 DEF DispatchByWebhook
<1>7. CASE req[w].by = "json"
  <2>1. answers' = [answers EXCEPT ![b] = answers[b] \cup {Payload(b)}] /\ sent' = sent
    BY <1>5, <1>7 DEF CommitDispatch
  <2>2. SentIsTable'
    BY <1>2, <2>1 DEF SerialInv, SentIsTable
  <2> QED  BY <1>2, <1>4, <1>7, <2>1, <2>2 DEF DispatchAsJson
<1> QED  BY <1>2, <1>6, <1>7

\* a reconciliation.
LEMMA ReconcileIsAtomic ==
    ASSUME NEW w \in Workers, SerialInv(w), CommitReconcile(w)
    PROVE  \E b \in Batches : ReconcileBatch(b)
<1> DEFINE b == req[w].b
<1>1. ReconcileRead(req[w]) /\ req[w].at = "commit"
  BY IdleFacts DEF CommitReconcile, At, SerialInv, Fresh, StatusRead, TerminationRead, CreateRead,
                   ApplyRead, DispatchRead
<1>2. /\ b \in Batches /\ batchStatus[b] = "dispatched" /\ req[w].net = totals[b].net
      /\ req[w].saw = [p \in Members(b) |-> payment[p]]
  BY <1>1 DEF ReconcileRead, BatchRead
<1>3. ReconcileBatch(b)
  BY <1>2 DEF CommitReconcile, ReconcileBatch, Members
<1> QED  BY <1>2, <1>3

\* So is apply-net-pay: the amounts it computed from what it read are those the
\* atomic step computes, and the batch still has the payments it read.
LEMMA ApplyIsAtomic ==
    ASSUME NEW w \in Workers, SerialInv(w), CommitApply(w)
    PROVE  \/ \E p \in Payments : ApplyNetPay(p)
           \/ \E b \in Batches : ApplyNetPayToBatch(b)
<1> DEFINE b == req[w].b
           saw == req[w].saw
           lines == req[w].lines
           net(p) == saw[p].gross - lines[p].total
           still == {p \in DOMAIN saw : payment[p].batch = b}
           amount(p) == payment[p].gross - NetPayLines(payment[p].gross).total
<1>1. PaymentsRead(req[w]) /\ LinesRead(req[w])
  <2>1. req[w].op = "apply" /\ req[w].at = "commit" /\ req[w] # Idle
    BY DEF CommitApply, At
  <2> QED  BY <2>1 DEF SerialInv, Fresh, StatusRead, TerminationRead, CreateRead, ApplyRead,
                       DispatchRead, ReconcileRead
<1>2. PICK S \in SUBSET Payments : /\ Target(req[w], S)
                                   /\ \A p \in S : Exists(p) /\ payment[p].status # "issued"
                                   /\ saw = [p \in S |-> payment[p]]
  BY <1>1 DEF PaymentsRead
<1>3. DOMAIN saw = S /\ \A p \in S : saw[p] = payment[p]
  BY <1>2
<1>4. \A p \in S : deductions[p].rows = 0 /\ lines[p] = NetPayLines(payment[p].gross)
  BY <1>1, <1>3 DEF LinesRead
<1>5. \A p \in S : NetPayApplicable(p)
  BY <1>2, <1>4 DEF NetPayApplicable
<1>6. \A p \in S : net(p) = amount(p)
  BY <1>3, <1>4
<1>7. payment' = [p \in Payments |->
          IF p \in DOMAIN saw
          THEN [payment[p] EXCEPT !.net = Written(saw[p].net, net(p), payment[p].net)]
          ELSE payment[p]]
  BY DEF CommitApply
<1>8. deductions' = [p \in Payments |->
          IF p \in DOMAIN saw
          THEN [rows  |-> deductions[p].rows + lines[p].rows,
                total |-> deductions[p].total + lines[p].total]
          ELSE deductions[p]]
  BY DEF CommitApply
<1>9. UNCHANGED <<outVars, memberVars>>
  BY DEF CommitApply
<1>10. b = NoBatch => UNCHANGED <<batchStatus, totals, events>>
  BY DEF CommitApply
<1>11. b # NoBatch =>
          /\ batchStatus' = [batchStatus EXCEPT ![b] = "net_pay_applied"]
          /\ totals' = [totals EXCEPT ![b] =
                 [gross |-> SumFunction([p \in still |-> saw[p].gross]),
                  net   |-> SumFunction([p \in still |-> net(p)]),
                  count |-> Cardinality(still)]]
          /\ Emit(b, "net_pay_applied", SumFunction([p \in still |-> net(p)]))
  BY DEF CommitApply
<1>12. \A p \in S : Written(saw[p].net, net(p), payment[p].net) = amount(p)
  BY <1>3, <1>6 DEF Written
<1> HIDE DEF net, saw, lines, b
<1>13. payment' = WithNetPay(S)
  BY <1>3, <1>7, <1>12 DEF WithNetPay
<1>14. deductions' = WithNetPayLines(S)
  BY <1>3, <1>4, <1>8 DEF WithNetPayLines
<1>15. CASE b = NoBatch
  <2>1. PICK p \in Payments : S = {p}
    BY <1>2, <1>15, ConstantsAssumption DEF Target, b
  <2>2. NetPayApplicable(p) /\ payment' = WithNetPay({p}) /\ deductions' = WithNetPayLines({p})
    BY <1>5, <1>13, <1>14, <2>1
  <2>3. UNCHANGED <<batchVars, memberVars>>
    BY <1>9, <1>10, <1>15 DEF batchVars, outVars
  <2> QED  BY <2>2, <2>3 DEF ApplyNetPay
<1>16. CASE b # NoBatch
  <2>1. b \in Batches /\ batchStatus[b] = "draft" /\ S = Members(b) /\ S # {}
    BY <1>2, <1>16 DEF Target, b
  <2>2. still = S
    BY <1>3, <2>1 DEF Members
  <2>3. \A p \in S : WithNetPay(S)[p].net = amount(p)
    <3>1. \A p \in S : payment[p] \in PaymentRow
      BY DEF SerialInv, LedgerInv, TypeOK
    <3> QED  BY <3>1 DEF WithNetPay, PaymentRow
  <2>4. [p \in still |-> net(p)] = [p \in S |-> WithNetPay(S)[p].net]
    BY <1>6, <2>2, <2>3
  <2>5. [p \in still |-> saw[p].gross] = [p \in S |-> payment[p].gross]
    BY <1>3, <2>2
  <2> HIDE DEF still
  <2>6. totals' = [totals EXCEPT ![b] =
             [gross |-> SumFunction([p \in S |-> payment[p].gross]),
              net   |-> SumFunction([p \in S |-> WithNetPay(S)[p].net]),
              count |-> Cardinality(S)]]
    BY <1>11, <1>16, <2>2, <2>4, <2>5
  <2>7. Emit(b, "net_pay_applied", SumFunction([p \in S |-> WithNetPay(S)[p].net]))
    BY <1>11, <1>16, <2>4
  <2>8. batchStatus' = [batchStatus EXCEPT ![b] = "net_pay_applied"]
    BY <1>11, <1>16
  <2>9. ApplyNetPayToBatch(b)
    BY <1>5, <1>9, <1>13, <1>14, <2>1, <2>6, <2>7, <2>8 DEF ApplyNetPayToBatch
  <2> QED  BY <2>1, <2>9
<1> QED  BY <1>15, <1>16

\* Every step of the one worker is a step of PaymentDisbursement or none at all.
LEMMA SerialStep ==
    ASSUME NEW w, Workers = {w}, SerialInv(w), [TxNext]_txVars
    PROVE  [Next]_vars /\ StaysFresh(w)
<1>1. w \in Workers
  OBVIOUS
<1>2. CASE Immediate(w)
  <2>1. Next
    BY <1>2 DEF Immediate, Next, PaymentRequest, MemberRequest
  <2>2. req[w] = Idle /\ UNCHANGED req /\ UNCHANGED <<answers, sent>>
    BY <1>2 DEF Immediate, CreatePayment, ChangeStandingOrders, SetTaxWithholding, batchVars, outVars
  <2>3. StaysFresh(w)
    BY <2>2 DEF SerialInv, StaysFresh, SentIsTable, Fresh
  <2> QED  BY <2>1, <2>3
<1>3. CASE Begin(w)
  BY <1>1, <1>3, BeginsFresh
<1>4. CASE ReadMembers(w) \/ ReadDispatched(w) \/ ReadLedger(w)
  BY <1>1, <1>4, ReadsFresh
<1>5. CASE Post(w)
  BY <1>1, <1>5, PostsFresh DEF Next, BatchRequest
<1>6. CASE Abort(w)
  <2>1. Serve(w, Idle) /\ UNCHANGED vars
    BY <1>6 DEF Abort
  <2>2. SentIsTable'
    BY <2>1 DEF SerialInv, SentIsTable, vars, batchVars, outVars
  <2> QED  BY <1>1, <2>1, <2>2, EndsFresh
<1>7. CASE \/ CommitStatus(w) \/ CommitTermination(w) \/ CommitCreateBatch(w)
           \/ CommitApply(w) \/ CommitDispatch(w) \/ CommitReconcile(w)
  <2>1. Serve(w, Idle)
    BY <1>7 DEF CommitStatus, CommitTermination, CommitCreateBatch, CommitApply, CommitDispatch,
                CommitReconcile
  <2>2. CommitDispatch(w) \/ UNCHANGED <<answers, sent>>
    BY <1>7 DEF CommitStatus, CommitTermination, CommitCreateBatch, CommitApply,
                CommitReconcile, batchVars, outVars
  <2>3. SentIsTable'
    BY <1>1, <2>2, DispatchIsAtomic DEF SerialInv, SentIsTable
  <2>4. PaymentRequest \/ BatchRequest \/ MemberRequest
    BY <1>1, <1>7, StatusIsAtomic, TerminationIsAtomic, CreateIsAtomic, ApplyIsAtomic,
       DispatchIsAtomic, ReconcileIsAtomic DEF PaymentRequest, BatchRequest, MemberRequest
  <2> QED  BY <1>1, <2>1, <2>3, <2>4, EndsFresh DEF Next
<1>8. CASE UNCHANGED txVars
  <2>1. UNCHANGED vars /\ UNCHANGED req
    BY <1>8 DEF txVars
  <2>2. Fresh(req[w])'
    BY <2>1, FreshKept DEF SerialInv
  <2>3. SentIsTable' /\ DOMAIN req' = Workers
    BY <2>1 DEF SerialInv, SentIsTable, vars, batchVars, outVars
  <2> QED  BY <2>1, <2>2, <2>3 DEF StaysFresh
<1>9. CASE Answer
  <2>1. Next /\ UNCHANGED req
    BY <1>9 DEF Answer, Next, BatchRequest
  <2>2. AnswerOnly
    BY <1>9 DEF Answer, DeliverAnswer, LoseAnswer, SerialInv, SentIsTable, LedgerInv, TypeOK, AnswerOnly
  <2>3. Fresh(req[w])'
    BY <2>1, <2>2, FreshThroughAnswers DEF SerialInv
  <2> QED  BY <2>1, <2>2, <2>3 DEF StaysFresh, SerialInv, AnswerOnly
<1> QED  BY <1>2, <1>3, <1>4, <1>5, <1>6, <1>7, <1>8, <1>9 DEF TxNext, Proceed

\* One worker's behaviours are behaviours of PaymentDisbursement: the reads,
\* the POST and the commit of a request of payment_service or
\* payment_batch_service add up to its atomic step, and every theorem above
\* about Spec holds of them.
THEOREM SingleWorkerIsSerial ==
    ASSUME NEW w, Workers = {w}
    PROVE  TxSpec => Serializable
<1>1. TxInit => Init /\ SerialInv(w)
  <2> SUFFICES ASSUME TxInit PROVE Init /\ SerialInv(w)
    OBVIOUS
  <2>1. LedgerInv
    BY LedgerInvHolds DEF TxInit
  <2>2. SentIsTable /\ DOMAIN req = Workers /\ req[w] = Idle
    BY DEF TxInit, Init, SentIsTable
  <2> QED  BY <2>1, <2>2 DEF TxInit, SerialInv, Fresh
<1>2. SerialInv(w) /\ [TxNext]_txVars => [Next]_vars /\ SerialInv(w)'
  BY SerialStep, LedgerInvStep DEF SerialInv, StaysFresh
<1> QED  BY <1>1, <1>2, PTL DEF TxSpec, Serializable, Spec
=============================================================================
