------------------------ MODULE EmployerBillingProofs ------------------------
(***************************************************************************)
(* Invoices, for any rates, reports, amounts and number of overlapping     *)
(* requests: what is recorded as paid was received, a paid invoice is      *)
(* covered, and a settled one stays as it is unless requests overlap.      *)
(***************************************************************************)
EXTENDS EmployerBilling, ContributionRatesProofs

Loaded == UNION {[S -> InvoiceRow] : S \in SUBSET Invoices}
TxRow == [kind: Kinds \cup {"idle"}, loaded: Loaded]

\* Invoices, payment ledgers and open requests keep their columns.
BillingType == /\ rates \subseteq RateRows /\ IsFiniteSet(rates)
               /\ invoice \in [Invoices -> InvoiceRow]
               /\ received \in [Invoices -> [number: Nat, sum: Int, paidIn: Nat]]
               /\ tx \in [Workers -> TxRow]
               /\ contested \subseteq Invoices

\* A row that invoice i is or has been: its amount due is fixed, and what was
\* received only grows.
PastRow(row, i) == /\ row.status # "absent" /\ invoice[i].status # "absent"
                   /\ row.due = invoice[i].due
                   /\ row.paid <= received[i].paidIn

InvoiceFacts(i) ==
    IF invoice[i].status = "absent" THEN invoice[i].paid = 0 /\ received[i].sum = 0
    ELSE /\ PastRow(invoice[i], i)
         /\ invoice[i].status = "paid" => received[i].paidIn >= invoice[i].due

\* What a request checked on the rows it loaded.
Checked(kind, row) == IF kind = "overdue" THEN row.status = "issued"
                      ELSE kind \in Kinds /\ Accepts(kind, row)

RequestFacts(w) == \A i \in DOMAIN tx[w].loaded : /\ PastRow(tx[w].loaded[i], i)
                                                  /\ Checked(tx[w].kind, tx[w].loaded[i])

AtWork(w, i) == i \in DOMAIN tx[w].loaded

\* An invoice on which requests never overlapped: at most one is at work on it,
\* with the row as it is.
Uncontested(i) ==
    i \notin contested =>
        /\ \A w \in Workers : AtWork(w, i) => tx[w].loaded[i] = invoice[i]
        /\ \A v, w \in Workers : AtWork(v, i) /\ AtWork(w, i) => v = w
        /\ invoice[i].paid = received[i].sum
        /\ invoice[i].status = "paid" => invoice[i].paid >= invoice[i].due

BillingInv == /\ BillingType
              /\ \A i \in Invoices : InvoiceFacts(i)
              /\ \A w \in Workers : RequestFacts(w)
              /\ \A i \in Invoices : Uncontested(i)

\* A step that leaves the settled invoices alone.
SettledStay == \A i \in Invoices :
                   invoice[i].status \in {"paid", "voided"} /\ i \notin contested
                      => invoice'[i] = invoice[i]

\* An invoice that does not exist yet has all columns of an invoice.
LEMMA NoInvoiceType == NoInvoice \in InvoiceRow /\ NoInvoice.status = "absent" /\ NoInvoice.paid = 0
BY DaysAssumption DEF NoInvoice, InvoiceRow, Status

\* A worker between requests.
LEMMA IdleType == Idle \in TxRow /\ Idle.kind = "idle" /\ DOMAIN Idle.loaded = {}
<1>1. NoRows \in [{} -> InvoiceRow] /\ DOMAIN NoRows = {}
  BY DEF NoRows
<1>2. NoRows \in Loaded
  BY <1>1 DEF Loaded
<1> QED  BY <1>1, <1>2 DEF Idle, TxRow

\* The rows a request loaded are rows of invoices.
LEMMA LoadedRows ==
    ASSUME NEW rows \in Loaded
    PROVE  DOMAIN rows \subseteq Invoices /\ \A i \in DOMAIN rows : rows[i] \in InvoiceRow
BY DEF Loaded

\* At the start there is no invoice and no request.
LEMMA InitHolds == Init => BillingInv
<1> SUFFICES ASSUME Init PROVE BillingInv
  OBVIOUS
<1>1. BillingType
  BY NoInvoiceType, IdleType, FS_EmptySet DEF Init, BillingType
<1>2. \A i \in Invoices : invoice[i] = NoInvoice /\ received[i].sum = 0
  BY DEF Init
<1>3. \A w \in Workers : DOMAIN tx[w].loaded = {}
  BY IdleType DEF Init
<1> QED  BY <1>1, <1>2, <1>3, NoInvoiceType
         DEF BillingInv, InvoiceFacts, RequestFacts, Uncontested, AtWork

\* What a flush leaves in a row: the columns the request did not change are as stored.
LEMMA FlushColumns ==
    ASSUME NEW stored \in InvoiceRow, NEW loaded \in InvoiceRow, NEW changed \in InvoiceRow,
           changed.due = loaded.due
    PROVE  /\ Flush(stored, loaded, changed) \in InvoiceRow
           /\ Flush(stored, loaded, changed).due = stored.due
           /\ \/ Flush(stored, loaded, changed).status = stored.status
              \/ changed.status # loaded.status
                 /\ Flush(stored, loaded, changed).status = changed.status
           /\ Flush(stored, loaded, changed).paid \in {stored.paid, changed.paid}
BY DEF Flush, InvoiceRow

\* A flush over the very row that was loaded stores the row that was computed.
LEMMA FlushAlone ==
    ASSUME NEW loaded \in InvoiceRow, NEW changed \in InvoiceRow
    PROVE  Flush(loaded, loaded, changed) = changed
BY DEF Flush, InvoiceRow

-----------------------------------------------------------------------------
(* What all commits have in common *)

\* The rows `loaded` are written as `changed`, with a payment of `a` on each.
Writes(w, loaded, changed, a) ==
    /\ invoice' = [i \in Invoices |-> IF i \in DOMAIN loaded
                                      THEN Flush(invoice[i], loaded[i], changed[i])
                                      ELSE invoice[i]]
    /\ tx' = [tx EXCEPT ![w] = Idle]
    /\ received' \in [Invoices -> [number: Nat, sum: Int, paidIn: Nat]]
    /\ \A i \in Invoices :
          IF i \in DOMAIN loaded
          THEN /\ received'[i].sum = received[i].sum + a
               /\ received'[i].paidIn >= received[i].paidIn
               /\ received'[i].paidIn >= received[i].paidIn + a
          ELSE received'[i] = received[i]
    /\ UNCHANGED <<rates, contested>>

\* What every handler sees to, by what it checked on the row it loaded.
Justified(row, changed, a) ==
    /\ changed \in InvoiceRow /\ changed.status # "absent"
    /\ changed.due = row.due /\ changed.paid = row.paid + a
    /\ changed.status = "paid" => changed.paid >= row.due
    /\ row.status # "paid" /\ (row.status = "voided" => changed = row)

\* A commit that is justified by the rows it loaded keeps the invariant, and
\* leaves settled invoices alone where no requests overlapped.
LEMMA CommitKeeps ==
    ASSUME BillingInv, NEW w \in Workers, NEW loaded, loaded = tx[w].loaded,
           NEW changed, NEW a \in Int,
           \A i \in DOMAIN loaded : Justified(loaded[i], changed[i], a),
           Writes(w, loaded, changed, a)
    PROVE  BillingInv' /\ SettledStay
<1>1. BillingType /\ DOMAIN loaded \subseteq Invoices /\ \A i \in DOMAIN loaded : loaded[i] \in InvoiceRow
  <2>1. BillingType /\ loaded \in Loaded
    BY DEF BillingInv, BillingType, TxRow
  <2> QED  BY <2>1, LoadedRows
<1>2. ASSUME NEW i \in Invoices
      PROVE  invoice[i] \in InvoiceRow /\ received[i].sum \in Int /\ received[i].paidIn \in Nat
             /\ InvoiceFacts(i) /\ Uncontested(i)
  BY <1>1 DEF BillingInv, BillingType
<1>3. ASSUME NEW i \in Invoices, i \notin DOMAIN loaded
      PROVE  invoice'[i] = invoice[i] /\ received'[i] = received[i]
  BY <1>3 DEF Writes
<1>4. ASSUME NEW i \in DOMAIN loaded
      PROVE  /\ i \in Invoices
             /\ PastRow(loaded[i], i) /\ Justified(loaded[i], changed[i], a)
             /\ invoice'[i] = Flush(invoice[i], loaded[i], changed[i])
             /\ invoice'[i] \in InvoiceRow /\ invoice'[i].due = invoice[i].due
             /\ \/ invoice'[i].status = invoice[i].status
                \/ invoice'[i].status = changed[i].status
             /\ invoice'[i].paid \in {invoice[i].paid, changed[i].paid}
             /\ received'[i].sum = received[i].sum + a
             /\ received'[i].paidIn >= received[i].paidIn
             /\ received'[i].paidIn >= received[i].paidIn + a
             /\ i \notin contested => invoice[i] = loaded[i] /\ invoice'[i] = changed[i]
  <2>1. i \in Invoices /\ loaded[i] \in InvoiceRow /\ invoice[i] \in InvoiceRow
        /\ Justified(loaded[i], changed[i], a)
    BY <1>1, <1>2, <1>4
  <2>2. PastRow(loaded[i], i)
    BY <1>4 DEF BillingInv, RequestFacts
  <2>3. invoice'[i] = Flush(invoice[i], loaded[i], changed[i])
        /\ received'[i].sum = received[i].sum + a
        /\ received'[i].paidIn >= received[i].paidIn
        /\ received'[i].paidIn >= received[i].paidIn + a
    BY <1>4, <2>1 DEF Writes
  <2>4. changed[i] \in InvoiceRow /\ changed[i].due = loaded[i].due
    BY <2>1 DEF Justified
  <2>5. i \notin contested => invoice[i] = loaded[i]
    BY <1>2, <1>4, <2>1 DEF Uncontested, AtWork
  <2>6. i \notin contested => invoice'[i] = changed[i]
    BY <2>1, <2>3, <2>4, <2>5, FlushAlone
  <2>7. /\ invoice'[i] \in InvoiceRow /\ invoice'[i].due = invoice[i].due
        /\ \/ invoice'[i].status = invoice[i].status
           \/ invoice'[i].status = changed[i].status
        /\ invoice'[i].paid \in {invoice[i].paid, changed[i].paid}
    BY <2>1, <2>3, <2>4, FlushColumns
  <2> QED  BY <2>1, <2>2, <2>3, <2>5, <2>6, <2>7
<1>5. BillingType'
  <2>1. \A i \in Invoices : invoice'[i] \in InvoiceRow
    BY <1>2, <1>3, <1>4
  <2>2. invoice' \in [Invoices -> InvoiceRow]
    BY <2>1 DEF Writes
  <2> QED  BY <1>1, <2>2, IdleType DEF BillingType, Writes
<1>6. ASSUME NEW i \in Invoices PROVE InvoiceFacts(i)'
  <2>1. CASE i \in DOMAIN loaded
    <3>1. PastRow(loaded[i], i) /\ Justified(loaded[i], changed[i], a) /\ loaded[i] \in InvoiceRow
          /\ invoice[i] \in InvoiceRow /\ received[i].paidIn \in Nat
          /\ received'[i].paidIn \in Nat
      BY <1>1, <1>2, <1>4, <1>5, <2>1 DEF BillingType
    <3>2. InvoiceFacts(i) /\ invoice[i].status # "absent"
      BY <1>2, <3>1 DEF PastRow
    <3>3. invoice'[i].status # "absent" /\ PastRow(invoice[i], i)' /\ PastRow(invoice[i], i)
      BY <1>4, <2>1, <3>1, <3>2 DEF InvoiceFacts, PastRow, Justified, InvoiceRow
    <3>4. ASSUME invoice'[i].status = "paid" PROVE received'[i].paidIn >= invoice'[i].due
      <4>1. CASE invoice[i].status = "paid"
        BY <1>4, <2>1, <3>1, <3>2, <4>1 DEF InvoiceFacts, InvoiceRow
      <4>2. CASE changed[i].status = "paid"
        BY <1>4, <2>1, <3>1, <4>2 DEF PastRow, Justified, InvoiceRow
      <4> QED  BY <1>4, <2>1, <3>4, <4>1, <4>2
    <3> QED  BY <3>3, <3>4 DEF InvoiceFacts
  <2>2. CASE i \notin DOMAIN loaded
    BY <1>2, <1>3, <2>2 DEF InvoiceFacts, PastRow
  <2> QED  BY <2>1, <2>2
<1>7. ASSUME NEW i \in Invoices, NEW row \in InvoiceRow, PastRow(row, i) PROVE PastRow(row, i)'
  <2>1. CASE i \in DOMAIN loaded
    <3>1. received[i].paidIn \in Nat /\ received'[i].paidIn \in Nat
      BY <1>2, <1>5 DEF BillingType
    <3> QED  BY <1>4, <1>7, <2>1, <3>1 DEF PastRow, Justified, InvoiceRow
  <2>2. CASE i \notin DOMAIN loaded
    BY <1>3, <1>7, <2>2 DEF PastRow
  <2> QED  BY <2>1, <2>2
<1>8. \A v \in Workers : IF v = w THEN DOMAIN tx'[v].loaded = {} ELSE tx'[v] = tx[v]
  BY <1>1, IdleType DEF Writes, BillingType
<1>9. ASSUME NEW v \in Workers PROVE RequestFacts(v)'
  <2>1. CASE v = w
    BY <1>8, <2>1 DEF RequestFacts
  <2>2. CASE v # w
    <3>1. tx'[v] = tx[v] /\ RequestFacts(v) /\ tx[v].loaded \in Loaded
      BY <1>1, <1>8, <2>2 DEF BillingInv, BillingType, TxRow
    <3>2. \A i \in DOMAIN tx[v].loaded : i \in Invoices /\ tx[v].loaded[i] \in InvoiceRow
      BY <3>1, LoadedRows
    <3>3. \A i \in DOMAIN tx[v].loaded : PastRow(tx[v].loaded[i], i)'
      BY <1>7, <3>1, <3>2 DEF RequestFacts, PastRow
    <3> QED  BY <3>1, <3>3 DEF RequestFacts, PastRow
  <2> QED  BY <2>1, <2>2
<1>10. ASSUME NEW i \in Invoices PROVE Uncontested(i)'
  <2> SUFFICES ASSUME i \notin contested' PROVE Uncontested(i)'
    BY DEF Uncontested
  <2>1. i \notin contested /\ Uncontested(i)
    BY <1>2 DEF Writes
  <2>2. \A v \in Workers : AtWork(v, i)' => v # w /\ AtWork(v, i) /\ tx'[v] = tx[v]
    BY <1>8 DEF AtWork
  <2>3. CASE i \in DOMAIN loaded
    <3>1. \A v \in Workers : ~AtWork(v, i)'
      BY <2>1, <2>2, <2>3 DEF Uncontested, AtWork
    <3>2. invoice'[i].paid = received'[i].sum
      BY <1>4, <2>1, <2>3 DEF Uncontested, Justified
    <3>3. invoice'[i].status = "paid" => invoice'[i].paid >= invoice'[i].due
      BY <1>4, <2>1, <2>3 DEF Uncontested, Justified
    <3> QED  BY <3>1, <3>2, <3>3 DEF Uncontested
  <2>4. CASE i \notin DOMAIN loaded
    BY <1>3, <2>1, <2>2, <2>4 DEF Uncontested
  <2> QED  BY <2>3, <2>4
<1>11. SettledStay
  <2> SUFFICES ASSUME NEW i \in Invoices, invoice[i].status \in {"paid", "voided"}, i \notin contested
               PROVE  invoice'[i] = invoice[i]
    BY DEF SettledStay
  <2>1. CASE i \in DOMAIN loaded
    BY <1>4, <2>1 DEF Justified
  <2>2. CASE i \notin DOMAIN loaded
    BY <1>3, <2>2
  <2> QED  BY <2>1, <2>2
<1> QED  BY <1>5, <1>6, <1>9, <1>10, <1>11 DEF BillingInv

-----------------------------------------------------------------------------
(* The requests *)

\* What the invariant says of a request that commits and the rows it loaded.
LEMMA AtCommit ==
    ASSUME BillingInv, NEW w \in Workers, NEW i \in DOMAIN tx[w].loaded
    PROVE  /\ i \in Invoices /\ tx[w].loaded[i] \in InvoiceRow
           /\ PastRow(tx[w].loaded[i], i) /\ Checked(tx[w].kind, tx[w].loaded[i])
<1>1. tx[w].loaded \in Loaded /\ RequestFacts(w)
  BY DEF BillingInv, BillingType, TxRow
<1> QED  BY <1>1, LoadedRows DEF RequestFacts

\* A commit of another status: issue_invoice, mark_overdue_invoices, void_invoice.
LEMMA StatusStep ==
    ASSUME BillingInv, NEW w \in Workers, IssueInvoice(w) \/ MarkOverdue(w) \/ VoidInvoice(w)
    PROVE  BillingInv' /\ SettledStay
<1>1. PICK s \in {"issued", "overdue", "voided"} :
         /\ Commit(w, CASE s = "issued" -> "issue" [] s = "overdue" -> "overdue" [] s = "voided" -> "void",
                   WithStatus(w, s))
         /\ UNCHANGED received
  BY DEF IssueInvoice, MarkOverdue, VoidInvoice
<1> SUFFICES ASSUME NEW loaded, loaded = tx[w].loaded PROVE BillingInv' /\ SettledStay
  OBVIOUS
<1> DEFINE changed == [i \in DOMAIN loaded |-> [loaded[i] EXCEPT !.status = s]]
<1>2. ASSUME NEW i \in DOMAIN loaded PROVE Justified(loaded[i], changed[i], 0)
  <2>1. loaded[i] \in InvoiceRow /\ Checked(tx[w].kind, loaded[i])
    BY AtCommit
  <2>2. changed[i] = [loaded[i] EXCEPT !.status = s]
    OBVIOUS
  <2>3. loaded[i].status # "paid" /\ (loaded[i].status = "voided" => s = "voided")
    BY <1>1, <2>1 DEF Commit, Checked, Accepts
  <2> HIDE DEF changed
  <2>4. loaded[i].status = "voided" => changed[i] = loaded[i]
    BY <2>1, <2>2, <2>3 DEF InvoiceRow
  <2>5. /\ changed[i] \in InvoiceRow /\ changed[i].status = s
        /\ changed[i].due = loaded[i].due /\ changed[i].paid = loaded[i].paid
    BY <2>1, <2>2 DEF InvoiceRow, Status
  <2>6. loaded[i].paid \in Int
    BY <2>1 DEF InvoiceRow
  <2> QED  BY <2>3, <2>4, <2>5, <2>6 DEF Justified
<1>3. Writes(w, loaded, changed, 0)
  <2>1. received \in [Invoices -> [number: Nat, sum: Int, paidIn: Nat]]
    BY DEF BillingInv, BillingType
  <2> QED  BY <1>1, <2>1 DEF Commit, WithStatus, Writes
<1> HIDE DEF changed
<1> QED  BY <1>2, <1>3, CommitKeeps

\* A payment is added to the total and settles the invoice when it covers it
\* (record_payment).
LEMMA PaymentStep ==
    ASSUME BillingInv, NEW w \in Workers, NEW a \in Amounts, RecordPayment(w, a)
    PROVE  BillingInv' /\ SettledStay
<1> SUFFICES ASSUME NEW loaded, loaded = tx[w].loaded PROVE BillingInv' /\ SettledStay
  OBVIOUS
<1> DEFINE Pay(row) == [row EXCEPT !.paid = @ + a,
                                   !.status = IF Settles(row, row.paid + a) THEN "paid" ELSE @]
           changed == [i \in DOMAIN loaded |-> Pay(loaded[i])]
<1>1. tx[w].kind = "pay" /\ a \in Int
  BY AmountsAssumption DEF RecordPayment, Commit
<1>2. ASSUME NEW i \in DOMAIN loaded PROVE Justified(loaded[i], changed[i], a)
  <2> SUFFICES ASSUME NEW row, row = loaded[i] PROVE Justified(row, Pay(row), a)
    OBVIOUS
  <2>1. row \in InvoiceRow /\ row.status \notin {"absent", "paid", "voided"}
    BY <1>1, AtCommit DEF Checked, Accepts
  <2>2. row.paid \in Int /\ row.due \in Int /\ row.paid + a \in Int
    BY <1>1, <2>1 DEF InvoiceRow
  <2>3. /\ Pay(row) \in InvoiceRow /\ Pay(row).due = row.due /\ Pay(row).paid = row.paid + a
        /\ Pay(row).status = IF Settles(row, row.paid + a) THEN "paid" ELSE row.status
    BY <2>1, <2>2 DEF InvoiceRow, Status
  <2> HIDE DEF Pay
  <2> QED  BY <2>1, <2>2, <2>3 DEF Justified, Settles
<1>3. Writes(w, loaded, changed, a)
  <2>1. received \in [Invoices -> [number: Nat, sum: Int, paidIn: Nat]]
    BY DEF BillingInv, BillingType
  <2>2. UNCHANGED <<rates, contested>> /\ tx' = [tx EXCEPT ![w] = Idle]
        /\ invoice' = [i \in Invoices |-> IF i \in DOMAIN loaded
                                          THEN Flush(invoice[i], loaded[i], changed[i])
                                          ELSE invoice[i]]
    BY DEF RecordPayment, Commit
  <2>3. received' = [i \in Invoices |-> IF i \in DOMAIN loaded
                        THEN [number |-> received[i].number + 1, sum |-> received[i].sum + a,
                              paidIn |-> received[i].paidIn + AtLeast(0, a)]
                        ELSE received[i]]
    BY DEF RecordPayment, Receive
  <2>4. AtLeast(0, a) \in Nat /\ AtLeast(0, a) >= a
    BY <1>1 DEF AtLeast
  <2>5. received' \in [Invoices -> [number: Nat, sum: Int, paidIn: Nat]]
    BY <1>1, <2>1, <2>3, <2>4
  <2>6. ASSUME NEW i \in Invoices, i \in DOMAIN loaded
        PROVE  /\ received'[i].sum = received[i].sum + a
               /\ received'[i].paidIn >= received[i].paidIn
               /\ received'[i].paidIn >= received[i].paidIn + a
    BY <1>1, <2>1, <2>3, <2>4, <2>6
  <2>7. ASSUME NEW i \in Invoices, i \notin DOMAIN loaded PROVE received'[i] = received[i]
    BY <2>3, <2>7
  <2> HIDE DEF changed
  <2> QED  BY <2>2, <2>5, <2>6, <2>7 DEF Writes
<1> HIDE DEF changed
<1> QED  BY <1>1, <1>2, <1>3, CommitKeeps

\* Interest is a number of cents.
LEMMA InterestType ==
    ASSUME NEW row \in InvoiceRow, NEW asOf \in Days
    PROVE  Interest(row, asOf) \in Int
<1>1. row.due \in Int /\ InterestRate \in Int /\ asOf - row.dueDate \in Int
  <2>1. row.due \in Int /\ row.dueDate \in Days
    BY DEF InvoiceRow
  <2>2. asOf \in Int /\ row.dueDate \in Int
    BY <2>1, DatesAssumption
  <2> QED  BY <2>1, <2>2, InterestAssumption
<1>2. \A x, y \in Int : x * y \in Int
  OBVIOUS
<1>3. row.due * InterestRate * (asOf - row.dueDate) \in Int
  <2>1. row.due * InterestRate \in Int
    BY <1>1, <1>2
  <2> QED  BY <1>1, <1>2, <2>1
<1>4. \A n \in Int : RoundHalfUp(n, 36500) \in Int
  BY DEF RoundHalfUp
<1> QED  BY <1>3, <1>4 DEF Interest

\* Interest changes neither the amount due nor the status (accrue_interest).
LEMMA AccrualStep ==
    ASSUME BillingInv, NEW w \in Workers, NEW asOf \in Days, AccrueInterest(w, asOf)
    PROVE  BillingInv' /\ SettledStay
<1> SUFFICES ASSUME NEW loaded, loaded = tx[w].loaded PROVE BillingInv' /\ SettledStay
  OBVIOUS
<1> DEFINE Accrue(row) ==
               [row EXCEPT !.interest =
                   AtLeast(-MaxInterest, AtMost(MaxInterest, @ + Interest(row, asOf)))]
           changed == [i \in DOMAIN loaded |-> Accrue(loaded[i])]
<1>1. tx[w].kind = "accrue" /\ \A i \in DOMAIN loaded : asOf > loaded[i].dueDate
  BY DEF AccrueInterest, Commit
<1>2. ASSUME NEW i \in DOMAIN loaded PROVE Justified(loaded[i], changed[i], 0)
  <2> SUFFICES ASSUME NEW row, row = loaded[i] PROVE Justified(row, Accrue(row), 0)
    OBVIOUS
  <2>1. row \in InvoiceRow /\ row.status \in {"overdue", "issued"} /\ asOf > row.dueDate
    BY <1>1, AtCommit DEF Checked, Accepts
  <2>2. row.paid \in Int /\ row.interest \in Int /\ Interest(row, asOf) \in Int
    BY <2>1, InterestType DEF InvoiceRow
  <2>3. AtLeast(-MaxInterest, AtMost(MaxInterest, row.interest + Interest(row, asOf))) \in Int
    BY <2>2, InterestAssumption DEF AtMost, AtLeast
  <2>4. /\ Accrue(row) \in InvoiceRow /\ Accrue(row).due = row.due /\ Accrue(row).paid = row.paid
        /\ Accrue(row).status = row.status
    BY <2>1, <2>3 DEF InvoiceRow
  <2> HIDE DEF Accrue
  <2> QED  BY <2>1, <2>2, <2>4 DEF Justified
<1>3. Writes(w, loaded, changed, 0)
  <2>1. received \in [Invoices -> [number: Nat, sum: Int, paidIn: Nat]]
    BY DEF BillingInv, BillingType
  <2> QED  BY <2>1 DEF AccrueInterest, Commit, Writes
<1> HIDE DEF changed
<1> QED  BY <1>2, <1>3, CommitKeeps

\* A request that takes up invoices on which another is at work contests them.
LEMMA LoadStep ==
    ASSUME BillingInv, NEW w \in Workers, NEW k \in Kinds, NEW S \in SUBSET Invoices,
           Load(w, k, S),
           \A i \in S : invoice[i].status # "absent" /\ Checked(k, invoice[i])
    PROVE  BillingInv' /\ SettledStay
<1>1. BillingType /\ tx[w] = Idle /\ DOMAIN tx[w].loaded = {}
  BY IdleType DEF BillingInv, Load
<1>2. /\ tx' = [tx EXCEPT ![w] = [kind |-> k, loaded |-> [i \in S |-> invoice[i]]]]
      /\ contested \subseteq contested' /\ contested' \subseteq Invoices
      /\ \A i \in S : i \notin contested' => \A v \in Workers : ~AtWork(v, i)
      /\ UNCHANGED <<rates, invoice, received>>
  BY <1>1, IdleType DEF Load, BillingType, AtWork
<1>3. [i \in S |-> invoice[i]] \in Loaded
  BY <1>1 DEF BillingType, Loaded
<1>4. /\ tx'[w].kind = k /\ tx'[w].loaded = [i \in S |-> invoice[i]]
      /\ \A v \in Workers \ {w} : tx'[v] = tx[v]
  BY <1>1, <1>2 DEF BillingType
<1>5. BillingType'
  BY <1>1, <1>2, <1>3 DEF BillingType, TxRow
<1>6. ASSUME NEW i \in Invoices PROVE InvoiceFacts(i)'
  BY <1>2 DEF BillingInv, InvoiceFacts, PastRow
<1>7. ASSUME NEW v \in Workers PROVE RequestFacts(v)'
  <2>1. CASE v = w
    <3>1. \A i \in S : PastRow(invoice[i], i)
      BY DEF BillingInv, InvoiceFacts
    <3> QED  BY <1>2, <1>4, <2>1, <3>1 DEF RequestFacts, PastRow
  <2>2. CASE v # w
    BY <1>2, <1>4, <2>2 DEF BillingInv, RequestFacts, PastRow
  <2> QED  BY <2>1, <2>2
<1>8. ASSUME NEW i \in Invoices PROVE Uncontested(i)'
  <2> SUFFICES ASSUME i \notin contested' PROVE Uncontested(i)'
    BY DEF Uncontested
  <2>1. i \notin contested /\ Uncontested(i)
    BY <1>2 DEF BillingInv
  <2>2. CASE i \in S
    <3>1. \A v \in Workers : AtWork(v, i)' => v = w
      BY <1>2, <1>4, <2>2 DEF AtWork
    <3> QED  BY <1>2, <1>4, <2>1, <2>2, <3>1 DEF Uncontested
  <2>3. CASE i \notin S
    BY <1>2, <1>4, <2>1, <2>3 DEF Uncontested, AtWork
  <2> QED  BY <2>2, <2>3
<1>9. SettledStay
  BY <1>2 DEF SettledStay
<1> QED  BY <1>5, <1>6, <1>7, <1>8, <1>9 DEF BillingInv

\* An invoice that is drafted is one nobody is at work on.
LEMMA DraftStep ==
    ASSUME BillingInv, NEW i \in Invoices, NEW amount \in Int, NEW day \in Days,
           Draft(i, amount, day)
    PROVE  BillingInv' /\ SettledStay
<1> DEFINE new == [NoInvoice EXCEPT !.status = "draft", !.due = amount, !.dueDate = day]
<1>1. /\ new \in InvoiceRow /\ new.status = "draft" /\ new.paid = 0
  BY NoInvoiceType DEF InvoiceRow, Status
<1>2. /\ invoice[i].status = "absent" /\ invoice' = [invoice EXCEPT ![i] = new]
      /\ UNCHANGED <<rates, received, tx, contested>>
  BY DEF Draft
<1> HIDE DEF new
<1>3. BillingType /\ invoice'[i] = new /\ \A j \in Invoices \ {i} : invoice'[j] = invoice[j]
  BY <1>2 DEF BillingInv, BillingType
<1>4. received[i].sum = 0 /\ received[i].paidIn \in Nat
  BY <1>2, <1>3 DEF BillingInv, InvoiceFacts, BillingType
<1>5. \A w \in Workers : ~AtWork(w, i)
  BY <1>2, AtCommit DEF AtWork, PastRow
<1>6. BillingType'
  BY <1>1, <1>2, <1>3 DEF BillingType
<1>7. ASSUME NEW j \in Invoices PROVE InvoiceFacts(j)'
  <2>1. CASE j = i
    BY <1>1, <1>2, <1>3, <1>4, <2>1 DEF InvoiceFacts, PastRow
  <2>2. CASE j # i
    BY <1>2, <1>3, <2>2 DEF BillingInv, InvoiceFacts, PastRow
  <2> QED  BY <2>1, <2>2
<1>8. ASSUME NEW w \in Workers PROVE RequestFacts(w)'
  <2> SUFFICES ASSUME NEW j \in DOMAIN tx[w].loaded
               PROVE  PastRow(tx[w].loaded[j], j)' /\ Checked(tx[w].kind, tx[w].loaded[j])
    BY <1>2 DEF RequestFacts
  <2>1. j \in Invoices \ {i}
    BY <1>5, AtCommit DEF AtWork
  <2> QED  BY <1>2, <1>3, <2>1, AtCommit DEF PastRow
<1>9. ASSUME NEW j \in Invoices PROVE Uncontested(j)'
  <2>1. CASE j = i
    BY <1>1, <1>2, <1>3, <1>4, <1>5, <2>1 DEF Uncontested, AtWork
  <2>2. CASE j # i
    BY <1>2, <1>3, <2>2 DEF BillingInv, Uncontested, AtWork
  <2> QED  BY <2>1, <2>2
<1>10. SettledStay
  BY <1>2, <1>3 DEF SettledStay
<1> QED  BY <1>6, <1>7, <1>8, <1>9, <1>10 DEF BillingInv

\* Nothing is written to invoices: a rate is added, a request is given up.
LEMMA QuietStep ==
    ASSUME BillingInv, UNCHANGED <<invoice, received, contested>>, rates' \subseteq RateRows,
           IsFiniteSet(rates)', tx' = tx \/ \E w \in Workers : tx' = [tx EXCEPT ![w] = Idle]
    PROVE  BillingInv' /\ SettledStay
<1>1. BillingType
  BY DEF BillingInv
<1>2. BillingType' /\ \A v \in Workers : tx'[v] = tx[v] \/ DOMAIN tx'[v].loaded = {}
  BY <1>1, IdleType DEF BillingType
<1>3. ASSUME NEW i \in Invoices PROVE InvoiceFacts(i)' /\ Uncontested(i)'
  <2>1. InvoiceFacts(i)'
    BY DEF BillingInv, InvoiceFacts, PastRow
  <2>2. Uncontested(i)'
    BY <1>2 DEF BillingInv, Uncontested, AtWork
  <2> QED  BY <2>1, <2>2
<1>4. ASSUME NEW v \in Workers PROVE RequestFacts(v)'
  BY <1>2 DEF BillingInv, RequestFacts, PastRow
<1> QED  BY <1>2, <1>3, <1>4 DEF BillingInv, SettledStay

\* What reports fall short of the rates is a whole number of cents.
LEMMA DeficiencyIsNatural ==
    ASSUME NEW R \in SUBSET RateRows, NEW S \in SUBSET DOMAIN FiledReports, NEW asOf
    PROVE  Deficiency(R, S, asOf) \in Nat
<1> DEFINE w == [f \in S |-> ReportDeficiency(FiledReports[f], R, Employer, asOf[f])]
<1>1. \A f \in S : w[f] \in Nat
  <2> SUFFICES ASSUME NEW f \in S
               PROVE  ReportDeficiency(FiledReports[f], R, Employer, asOf[f]) \in Nat
    OBVIOUS
  <2>1. /\ R \in SUBSET RateRow /\ IsFiniteSet(DOMAIN FiledReports[f])
        /\ \A k \in DOMAIN FiledReports[f] : BillableRow(FiledReports[f][k])
    BY RateRowsAssumption, ReportsAssumption DEF BillableRow
  <2> QED  BY <2>1, ReportDeficiencyFacts
<1>2. IsFiniteSet(S)
  BY ReportsAssumption, FS_Subset
<1>3. Deficiency(R, S, asOf) = SumFunctionOnSet(w, S)
  BY DEF Deficiency, SumFunction
<1> HIDE DEF w
<1> QED  BY <1>1, <1>2, <1>3, SumOfNaturals

\* Every step keeps the invariant and the settled invoices on which requests did
\* not overlap.
LEMMA AllSteps ==
    ASSUME BillingInv, [Next]_vars
    PROVE  BillingInv' /\ SettledStay
<1>0. rates \subseteq RateRows /\ IsFiniteSet(rates)
  BY DEF BillingInv, BillingType
<1>1. ASSUME NEW r \in RateRows, CreateRate(r) PROVE BillingInv' /\ SettledStay
  <2>1. IsFiniteSet(rates')
    BY <1>0, <1>1, FS_AddElement DEF CreateRate
  <2> QED  BY <1>0, <1>1, <2>1, QuietStep DEF CreateRate
<1>2. ASSUME NEW i \in Invoices, NEW d \in Days, NEW a \in Charges,
             CreateSupplementalInvoice(i, a, d)
      PROVE  BillingInv' /\ SettledStay
  BY <1>2, DraftStep, AmountsAssumption DEF CreateSupplementalInvoice
<1>3. ASSUME NEW i \in Invoices, NEW d \in Days, NEW S \in SUBSET DOMAIN FiledReports,
             CreateDeficiencyInvoice(i, S, d)
      PROVE  BillingInv' /\ SettledStay
  <2>1. PICK asOf \in [S -> Days] : Draft(i, Deficiency(rates, S, asOf), d)
    BY <1>3 DEF CreateDeficiencyInvoice
  <2>2. Deficiency(rates, S, asOf) \in Nat
    BY <1>0, DeficiencyIsNatural
  <2> QED  BY <2>1, <2>2, DraftStep
<1>4. ASSUME NEW w \in Workers, InvoiceRequest(w) PROVE BillingInv' /\ SettledStay
  <2>1. CASE \E k \in Kinds \ {"overdue"}, i \in Invoices : Begin(w, k, i)
    <3>1. PICK k \in Kinds \ {"overdue"}, i \in Invoices : Begin(w, k, i)
      BY <2>1
    <3>2. invoice[i].status # "absent" /\ Checked(k, invoice[i]) /\ Load(w, k, {i})
      BY <3>1 DEF Begin, Checked, Accepts, Kinds
    <3> QED  BY <3>2, LoadStep
  <2>2. CASE \E d \in Days : BeginMarkOverdue(w, d)
    <3>1. PICK d \in Days : BeginMarkOverdue(w, d)
      BY <2>2
    <3>2. PICK S \in SUBSET Invoices : /\ \A i \in S : invoice[i].status = "issued"
                                       /\ Load(w, "overdue", S)
      BY <3>1 DEF BeginMarkOverdue
    <3> QED  BY <3>2, LoadStep DEF Checked, Kinds
  <2>3. CASE \E d \in Days : AccrueInterest(w, d)
    BY <2>3, AccrualStep
  <2>4. CASE IssueInvoice(w) \/ MarkOverdue(w) \/ VoidInvoice(w)
    BY <2>4, StatusStep
  <2>5. CASE \E a \in Amounts : RecordPayment(w, a)
    BY <2>5, PaymentStep
  <2>6. CASE Abort(w)
    BY <1>0, <2>6, QuietStep DEF Abort
  <2> QED  BY <1>4, <2>1, <2>2, <2>3, <2>4, <2>5, <2>6 DEF InvoiceRequest
<1>5. CASE UNCHANGED vars
  BY <1>0, <1>5, QuietStep DEF vars
<1> QED  BY <1>1, <1>2, <1>3, <1>4, <1>5 DEF Next, Create
-----------------------------------------------------------------------------
(* What a reader should know *)

\* The invariant of the invoices holds in every state the service can reach.
THEOREM BillingInvariant == Spec => []BillingInv
<1>1. BillingInv /\ [Next]_vars => BillingInv'
  BY AllSteps
<1> QED  BY <1>1, InitHolds, PTL DEF Spec

\* amount_paid never claims more than was ever paid in, whatever requests overlap,
\* and is the sum of the payment rows when none did (record_payment).
THEOREM AmountMatchesTheLedger == Spec => []AmountPaidIsReceived
<1>1. ASSUME BillingInv PROVE AmountPaidIsReceived
  <2> SUFFICES ASSUME NEW i \in Invoices
               PROVE  /\ invoice[i].paid <= received[i].paidIn
                      /\ i \notin contested => invoice[i].paid = received[i].sum
    BY DEF AmountPaidIsReceived
  <2>1. invoice[i].paid <= received[i].paidIn
    <3>1. received[i].paidIn \in Nat /\ InvoiceFacts(i)
      BY <1>1 DEF BillingInv, BillingType
    <3> QED  BY <3>1 DEF InvoiceFacts, PastRow
  <2>2. i \notin contested => invoice[i].paid = received[i].sum
    BY <1>1 DEF BillingInv, Uncontested
  <2> QED  BY <2>1, <2>2
<1> QED  BY <1>1, BillingInvariant, PTL

\* Whatever overlaps, payments that cover a paid invoice came in, and they still
\* cover it where requests did not overlap (record_payment).
THEOREM PaidMeansCovered == Spec => []PaidIsCovered
<1>1. ASSUME BillingInv PROVE PaidIsCovered
  <2> SUFFICES ASSUME NEW i \in Invoices, invoice[i].status = "paid"
               PROVE  /\ received[i].paidIn >= invoice[i].due
                      /\ i \notin contested => received[i].sum >= invoice[i].due
    BY DEF PaidIsCovered
  <2>1. received[i].paidIn >= invoice[i].due
    BY <1>1 DEF BillingInv, InvoiceFacts
  <2>2. i \notin contested => received[i].sum >= invoice[i].due
    BY <1>1 DEF BillingInv, Uncontested
  <2> QED  BY <2>1, <2>2
<1> QED  BY <1>1, BillingInvariant, PTL

\* Where requests did not overlap, a paid or voided invoice is not touched again
\* (issue_invoice, record_payment, void_invoice, mark_overdue_invoices).
THEOREM SettledStaysSettled == Spec => SettledIsFinal
<1>1. BillingInv /\ [Next]_vars =>
         [\A i \in Invoices :
             invoice[i].status \in {"paid", "voided"} /\ i \notin contested
                => invoice'[i] = invoice[i]]_vars
  BY AllSteps DEF SettledStay
<1> QED  BY <1>1, BillingInvariant, PTL DEF Spec, SettledIsFinal

\* The cache of payroll ingestion and deficiency calculation (build_rate_cache)
\* answers like get_effective_rate for every table of rates, except where a
\* fund-wide default of the type passes before the employer-wide override.
THEOREM CacheAgreesWithQuery == Spec => []CacheAgreesUnlessShadowed
<1>1. ASSUME BillingInv PROVE CacheAgreesUnlessShadowed
  <2> SUFFICES ASSUME NEW e \in Employers, NEW t \in EmploymentTypes, NEW d \in Days,
                      ~Shadowed(e, t, d)
               PROVE  CachedRate(rates, e, t, d) = EffectiveRate(rates, e, t, d)
    BY DEF CacheAgreesUnlessShadowed
  <2>1. rates \in SUBSET RateRow /\ IsFiniteSet(rates)
    BY <1>1, RateRowsAssumption DEF BillingInv, BillingType
  <2>2. \/ \A r \in CacheEntry(rates, e, Every, d) : r.employer # e
        \/ \A r \in CacheEntry(rates, e, t, d) : r.employer # Every
    BY DEF Shadowed, CacheEntry, First
  <2> QED  BY <2>1, <2>2, CacheAgrees
<1> QED  BY <1>1, BillingInvariant, PTL
=============================================================================
