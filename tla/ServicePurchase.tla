--------------------------- MODULE ServicePurchase ---------------------------
(***************************************************************************)
(* Buying service credit: a claim is priced and snapshot at creation,      *)
(* submitted, approved, paid in one or more payments and completed, or     *)
(* cancelled.  The credit entry is written on approval, on the first       *)
(* payment or on completion, as the purchase type says.                    *)
(*                                                                         *)
(* Every request loads the claim (get_claim), checks it and commits, with  *)
(* no lock in between: Workers requests can be inside that window at once. *)
(* `contested` remembers the claims on which two requests ever overlapped, *)
(* or of which a payment brought what was paid back to nothing: payments   *)
(* may be of any amount, negative ones and 0 among them.                   *)
(***************************************************************************)
EXTENDS RequestSession, Cents, FiniteSets

CONSTANTS
    Claims,
    Workers,            \* connections that serve requests
    PurchaseTypes,      \* keys the service_purchase_types configuration may have
    Settings,           \* the settings of each type, see TypeSettings
    Salaries,           \* salary rows of the member: [effective, annual]
    PeriodEnd,          \* end of the purchased period: every as_of of a claim
    Years,              \* credit years asked for, any number
    Refunds,            \* refunds the member took: [amount, paidOut]
    Amounts,            \* amounts of a payment, in cents
    MaxPayments         \* bound on the payments of a claim

TypeSettings == [method: {"rate_based", "refund_repayment"}, rate: Nat,
                 installments: BOOLEAN,
                 grantOn: {"approval", "first_payment", "completion"},
                 restores: BOOLEAN]

ASSUME SettingsAssumption == Settings \in [PurchaseTypes -> TypeSettings]
ASSUME AmountsAssumption == Amounts \subseteq Int
ASSUME ClaimsAssumption == Claims # {} /\ PurchaseTypes # {}

VARIABLES
    configured,     \* types the configuration in force at PeriodEnd lists
    claim,          \* service_purchase_claims
    received,       \* service_purchase_payments of a claim: their number, their
                    \* sum and the sum of the positive ones
    credits,        \* service_credit_entries that name the claim
    restored,       \* claims that restored the member's certification date
    tx,             \* the request each worker is inside of
    contested       \* claims two requests worked on at the same time, or paid back

rows == <<claim, received, credits, restored>>
vars == <<configured, rows, tx, contested>>

Status == {"absent", "draft", "pending_approval", "approved", "in_payment",
           "completed", "cancelled"}
Terminal == {"completed", "cancelled"}

\* A claim row: what its type said at creation is copied into it.
ClaimRow == [status: Status, type: PurchaseTypes, due: Int, paid: Int, cert: BOOLEAN]
NoClaim == [status |-> "absent", type |-> CHOOSE t \in PurchaseTypes : TRUE,
            due |-> 0, paid |-> 0, cert |-> FALSE]

Kinds == {"submit", "approve", "cancel", "pay"}
Idle == [kind |-> "idle", claim |-> CHOOSE c \in Claims : TRUE, loaded |-> NoClaim]
TxRow == [kind: Kinds \cup {"idle"}, claim: Claims, loaded: ClaimRow]

Init == /\ configured = PurchaseTypes
        /\ claim = [c \in Claims |-> NoClaim]
        /\ received = [c \in Claims |-> [number |-> 0, sum |-> 0, paidIn |-> 0]]
        /\ credits = [c \in Claims |-> 0]
        /\ restored = {}
        /\ tx = [w \in Workers |-> Idle]
        /\ contested = {}
-----------------------------------------------------------------------------
(* Prices *)

\* The most recent salary row of any of the member's employments.
CurrentSalary == {s \in Salaries :
                    /\ s.effective <= PeriodEnd
                    /\ \A o \in Salaries : o.effective <= PeriodEnd => o.effective <= s.effective}

\* Rates are in percent.
RateBasedCost(years, salary, rate) == RoundHalfUp(years * salary * rate, 100)

\* The refund with compound interest since it was paid out, in whole years.
RefundRepaymentCost(refund, rate) ==
    LET elapsed == PeriodEnd - refund.paidOut
    IN  RoundHalfUp(refund.amount * (100 + rate)^elapsed, 100^elapsed)

\* The costs the calculation method of a type can come to; none, and the request
\* is refused, without a salary row or with a refund paid out after the period.
Prices(t) ==
    LET rate == Settings[t].rate
    IN  IF Settings[t].method = "rate_based"
        THEN {RateBasedCost(y, s.annual, rate) : y \in Years, s \in CurrentSalary}
        ELSE {RefundRepaymentCost(r, rate) : r \in {x \in Refunds : x.paidOut <= PeriodEnd}}

\* Costs are amounts in whole cents, below 0 for negative years or refunds.
ASSUME PricesAssumption == \A t \in PurchaseTypes : Prices(t) \subseteq Int
-----------------------------------------------------------------------------
(* What a handler checks on the claim it loaded *)

Payable(row) == /\ row.status \in {"approved", "in_payment"}
                /\ Settings[row.type].installments \/ row.paid <= 0

Accepts(kind, row) ==
    CASE kind = "submit"  -> row.status = "draft"
      [] kind = "approve" -> row.status = "pending_approval"
      [] kind = "cancel"  -> row.status \notin Terminal \cup {"absent"}
      [] kind = "pay"     -> Payable(row)

\* _load_type_config: the type is in the configuration in force at PeriodEnd.
Listed(t) == t \in configured

\* A refund claim that carries a certification date reads the settings again
\* when its credit is granted, and the request fails when they are gone.
CanGrant(row) == row.cert => Listed(row.type)

Restores(row) == row.cert /\ Settings[row.type].restores
-----------------------------------------------------------------------------
(* Requests *)

CreateClaim(c, t, cost, cert) ==
    /\ claim[c].status = "absent"
    /\ Listed(t)
    /\ cost \in Prices(t)
    /\ cert => Settings[t].method = "refund_repayment"
    /\ claim' = [claim EXCEPT ![c] = [status |-> "draft", type |-> t, due |-> cost,
                                      paid |-> 0, cert |-> cert]]
    /\ UNCHANGED <<configured, received, credits, restored, tx, contested>>

\* A request loads its claim and passes its checks.
Begin(w, kind, c) ==
    /\ tx[w].kind = "idle"
    /\ Accepts(kind, claim[c])
    /\ kind = "pay" => received[c].number < MaxPayments
    /\ tx' = [tx EXCEPT ![w] = [kind |-> kind, claim |-> c, loaded |-> claim[c]]]
    /\ contested' = IF \E v \in Workers : tx[v].kind # "idle" /\ tx[v].claim = c
                    THEN contested \cup {c} ELSE contested
    /\ UNCHANGED <<configured, rows>>

\* The request of worker w commits the row it changed, with or without the
\* credit entry.
Commit(w, kind, changed, grants) ==
    LET c == tx[w].claim
        row == tx[w].loaded
    IN  /\ tx[w].kind = kind
        /\ grants => CanGrant(row)
        /\ claim' = [claim EXCEPT ![c] = Flush(@, row, changed)]
        /\ credits' = [credits EXCEPT ![c] = @ + (IF grants THEN 1 ELSE 0)]
        /\ restored' = IF grants /\ Restores(row) THEN restored \cup {c} ELSE restored
        /\ tx' = [tx EXCEPT ![w] = Idle]
        /\ UNCHANGED configured

SubmitClaim(w) ==
    /\ Commit(w, "submit", [tx[w].loaded EXCEPT !.status = "pending_approval"], FALSE)
    /\ UNCHANGED <<received, contested>>

ApproveClaim(w) ==
    LET row == tx[w].loaded
        now == Settings[row.type].grantOn = "approval"
    IN  /\ Commit(w, "approve", [row EXCEPT !.status = IF now THEN "completed" ELSE "approved"], now)
        /\ UNCHANGED <<received, contested>>

CancelClaim(w) ==
    /\ Commit(w, "cancel", [tx[w].loaded EXCEPT !.status = "cancelled"], FALSE)
    /\ UNCHANGED <<received, contested>>

\* Whether a payment grants the credit, from the total it found and leaves.
GrantsOnEveryPayment(row, total) ==
    \/ Settings[row.type].grantOn = "first_payment"
    \/ Settings[row.type].grantOn = "completion" /\ total >= row.due

GrantsWhenPaidBefore(row, total) ==
    \/ Settings[row.type].grantOn = "first_payment" /\ row.paid = 0
    \/ Settings[row.type].grantOn = "completion" /\ row.paid >= row.due

GrantsOnPayment(row, total) ==
    \/ Settings[row.type].grantOn = "first_payment" /\ row.paid = 0
    \/ Settings[row.type].grantOn = "completion" /\ total >= row.due

StatusAfter(row, total) == IF total >= row.due THEN "completed" ELSE "in_payment"

\* A payment that leaves an open claim with nothing paid leaves it without a first
\* payment: the next one counts as the first again.
Receive(c, row, a) ==
    LET total == row.paid + a
    IN  /\ received' = [received EXCEPT ![c] = [number |-> @.number + 1, sum |-> @.sum + a,
                                                paidIn |-> @.paidIn + AtLeast(0, a)]]
        /\ contested' = IF total = 0 /\ StatusAfter(row, total) = "in_payment"
                        THEN contested \cup {c} ELSE contested

RecordPaymentUpToDue(w, a) ==
    LET row == tx[w].loaded
        total == AtMost(row.due, row.paid + a)
    IN  /\ Commit(w, "pay", [row EXCEPT !.paid = total, !.status = StatusAfter(row, total)],
                  GrantsOnPayment(row, total))
        /\ Receive(tx[w].claim, row, a)

RecordPayment(w, a) ==
    LET row == tx[w].loaded
        total == row.paid + a
    IN  /\ Commit(w, "pay", [row EXCEPT !.paid = total, !.status = StatusAfter(row, total)],
                  GrantsOnPayment(row, total))
        /\ Receive(tx[w].claim, row, a)

\* A refused, failed or dropped request rolls back.
Abort(w) == /\ tx[w].kind # "idle"
            /\ tx' = [tx EXCEPT ![w] = Idle]
            /\ UNCHANGED <<configured, rows, contested>>

\* A later configuration for the same period lists other types.
ReplaceConfiguration(S) == /\ configured' = S
                           /\ UNCHANGED <<rows, tx, contested>>

ClaimRequest(w) == \/ \E k \in Kinds, c \in Claims : Begin(w, k, c)
                   \/ SubmitClaim(w) \/ ApproveClaim(w) \/ CancelClaim(w)
                   \/ \E a \in Amounts : RecordPayment(w, a)
                   \/ Abort(w)

Next == \/ \E w \in Workers : ClaimRequest(w)
        \/ \E c \in Claims, t \in PurchaseTypes, cert \in BOOLEAN :
               \E cost \in Prices(t) : CreateClaim(c, t, cost, cert)
        \/ \E S \in SUBSET PurchaseTypes : ReplaceConfiguration(S)

Spec == Init /\ [][Next]_vars
-----------------------------------------------------------------------------
(* Properties *)

\* Claims, ledgers and open requests keep their columns.
TypeOK == /\ configured \subseteq PurchaseTypes
          /\ claim \in [Claims -> ClaimRow]
          /\ received \in [Claims -> [number: Nat, sum: Int, paidIn: Nat]]
          /\ credits \in [Claims -> Nat]
          /\ restored \subseteq Claims
          /\ tx \in [Workers -> TxRow]
          /\ contested \subseteq Claims

GrantOn(c) == Settings[claim[c].type].grantOn

\* Whatever requests overlap, cost_paid never claims more than was ever paid in;
\* it is the sum of the payment rows, negative ones included, as long as no two
\* requests worked on the claim at the same time (record_payment adds to the value
\* it loaded).
PaidIsReceived ==
    \A c \in Claims : /\ claim[c].paid <= received[c].paidIn
                      /\ c \notin contested => claim[c].paid = received[c].sum

\* Credit that is due on completion is never granted before payments of the whole
\* price came in, and a completed claim has its credit, even when requests overlap;
\* when none did, what was paid back does not count (record_payment, _grant_credit).
CreditIsPaidFor ==
    \A c \in Claims :
        /\ credits[c] > 0 /\ GrantOn(c) = "completion" =>
              /\ received[c].paidIn >= claim[c].due
              /\ c \notin contested => received[c].sum >= claim[c].due
        /\ claim[c].status = "completed" => credits[c] > 0

\* A claim as CreditPromise sees it.
Stage(c) ==
    IF c \in contested THEN "disputed"
    ELSE CASE claim[c].status \in {"draft", "pending_approval"} -> "asked"
           [] claim[c].status \in {"approved", "in_payment"} -> "accepted"
           [] claim[c].status = "cancelled" -> "withdrawn"
           [] OTHER -> claim[c].status
Moment(c) == IF claim[c].status = "absent" THEN "completion" ELSE GrantOn(c)
Granted(c) == IF c \in contested THEN 0 ELSE credits[c]
Funded(c) == /\ c \notin contested
             /\ claim[c].status # "absent"
             /\ received[c].sum >= claim[c].due

Promise == INSTANCE CreditPromise WITH
    stage   <- [c \in Claims |-> Stage(c)],
    moment  <- [c \in Claims |-> Moment(c)],
    granted <- [c \in Claims |-> Granted(c)],
    funded  <- [c \in Claims |-> Funded(c)]

\* The claims keep the promise of CreditPromise: one credit entry, at the moment
\* the type names, nothing after the end (the module docstring of
\* service_purchase_service.py and the lifecycle in models/service_purchase.py).
KeepsThePromise == Promise!Spec
=============================================================================
