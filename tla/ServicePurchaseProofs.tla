------------------------- MODULE ServicePurchaseProofs -------------------------
(***************************************************************************)
(* Buying service credit, for any claims, purchase types, prices and       *)
(* number of overlapping requests: what is paid and credited agrees, and   *)
(* the claims implement CreditPromise.                                     *)
(***************************************************************************)
EXTENDS ServicePurchase, TLAPS

Busy(w) == tx[w].kind # "idle"

\* A row that claim c is or has been: what was fixed at creation, and what only
\* grows since.
PastRow(row, c) ==
    /\ row.status # "absent" /\ claim[c].status # "absent"
    /\ row.type = claim[c].type /\ row.due = claim[c].due
    /\ row.paid <= received[c].paidIn
    /\ row.status \in {"approved", "in_payment"} => Settings[row.type].grantOn # "approval"
    /\ row.paid # 0 /\ Settings[row.type].grantOn = "first_payment" => credits[c] > 0

\* The credit entries of a claim on which requests did not overlap.
CreditsFit(row, n) ==
    /\ row.status \in {"absent", "draft", "pending_approval", "approved"} => n = 0 /\ row.paid = 0
    /\ row.status = "in_payment" =>
          row.paid # 0 /\ n = IF Settings[row.type].grantOn = "first_payment" THEN 1 ELSE 0
    /\ row.status = "completed" => n = 1
    /\ n > 0 /\ Settings[row.type].grantOn = "completion" => row.paid >= row.due

\* Credit due on completion is covered, and a completed claim has its credit.
Earned(row, c) ==
    /\ credits[c] > 0 /\ Settings[row.type].grantOn = "completion" => received[c].paidIn >= row.due
    /\ row.status = "completed" => credits[c] > 0

ClaimFacts(c) ==
    IF claim[c].status = "absent"
    THEN claim[c].paid = 0 /\ received[c].sum = 0 /\ received[c].paidIn = 0 /\ credits[c] = 0 /\ c \notin contested
    ELSE PastRow(claim[c], c) /\ Earned(claim[c], c)

RequestFacts(w) == Busy(w) => /\ PastRow(tx[w].loaded, tx[w].claim)
                              /\ Accepts(tx[w].kind, tx[w].loaded)

\* A claim on which requests never overlapped: at most one is at work on it, with
\* the row as it is.
Uncontested(c) ==
    c \notin contested =>
        /\ \A w \in Workers : Busy(w) /\ tx[w].claim = c => tx[w].loaded = claim[c]
        /\ \A v, w \in Workers : Busy(v) /\ Busy(w) /\ tx[v].claim = c /\ tx[w].claim = c => v = w
        /\ claim[c].paid = received[c].sum
        /\ CreditsFit(claim[c], credits[c])

PurchaseInv == /\ TypeOK
               /\ \A c \in Claims : ClaimFacts(c)
               /\ \A w \in Workers : RequestFacts(w)
               /\ \A c \in Claims : Uncontested(c)

\* A claim that does not exist yet has all columns of a claim.
LEMMA NoClaimType == NoClaim \in ClaimRow /\ NoClaim.status = "absent" /\ NoClaim.paid = 0
BY ClaimsAssumption DEF NoClaim, ClaimRow, Status

\* A worker between requests.
LEMMA IdleType == Idle \in TxRow /\ Idle.kind = "idle"
BY NoClaimType, ClaimsAssumption DEF Idle, TxRow

\* At the start there is no claim and nothing was paid.
LEMMA InitHolds == Init => PurchaseInv
<1> SUFFICES ASSUME Init PROVE PurchaseInv
  OBVIOUS
<1>1. TypeOK
  BY NoClaimType, IdleType DEF Init, TypeOK
<1>2. \A c \in Claims : claim[c] = NoClaim /\ received[c].sum = 0 /\ received[c].paidIn = 0
                          /\ credits[c] = 0 /\ c \notin contested
  BY DEF Init
<1>3. \A w \in Workers : ~Busy(w)
  BY IdleType DEF Init, Busy
<1> QED  BY <1>1, <1>2, <1>3, NoClaimType
         DEF PurchaseInv, ClaimFacts, RequestFacts, Uncontested, CreditsFit

\* What a flush leaves in a row: the columns the request did not change are as stored.
LEMMA FlushColumns ==
    ASSUME NEW stored \in ClaimRow, NEW loaded \in ClaimRow, NEW changed \in ClaimRow,
           changed.type = loaded.type, changed.due = loaded.due
    PROVE  /\ Flush(stored, loaded, changed) \in ClaimRow
           /\ Flush(stored, loaded, changed).type = stored.type
           /\ Flush(stored, loaded, changed).due = stored.due
           /\ Flush(stored, loaded, changed).status \in {stored.status, changed.status}
           /\ Flush(stored, loaded, changed).paid \in {stored.paid, changed.paid}
BY DEF Flush, ClaimRow

\* A flush over the very row that was loaded stores the row that was computed.
LEMMA FlushAlone ==
    ASSUME NEW loaded \in ClaimRow, NEW changed \in ClaimRow
    PROVE  Flush(loaded, loaded, changed) = changed
BY DEF Flush, ClaimRow

\* Nothing that CreditPromise sees of the other claims changes.
Elsewhere(c) == \A d \in Claims \ {c} : /\ Stage(d)' = Stage(d) /\ Moment(d)' = Moment(d)
                                        /\ Granted(d)' = Granted(d) /\ Funded(d)' = Funded(d)

\* A step that writes the rows of one claim changes the view of no other.
LEMMA SameView ==
    ASSUME NEW c \in Claims,
           \A d \in Claims \ {c} : /\ claim'[d] = claim[d] /\ credits'[d] = credits[d]
                                   /\ received'[d] = received[d]
                                   /\ d \in contested' <=> d \in contested
    PROVE  Elsewhere(c)
<1> SUFFICES ASSUME NEW d \in Claims \ {c}
             PROVE  /\ Stage(d)' = Stage(d) /\ Moment(d)' = Moment(d)
                    /\ Granted(d)' = Granted(d) /\ Funded(d)' = Funded(d)
  BY DEF Elsewhere
<1>1. Moment(d)' = Moment(d)
  BY DEF Moment, GrantOn
<1>2. CASE d \in contested
  <2>1. Stage(d)' = "disputed" /\ Stage(d) = "disputed" /\ Granted(d)' = 0 /\ Granted(d) = 0
    BY <1>2 DEF Stage, Granted
  <2>2. Funded(d)' = FALSE /\ Funded(d) = FALSE
    BY <1>2 DEF Funded
  <2> QED  BY <1>1, <2>1, <2>2
<1>3. CASE d \notin contested
  <2>1. Granted(d)' = Granted(d)
    BY <1>3 DEF Granted
  <2>2. Stage(d)' = Stage(d)
    BY <1>3 DEF Stage
  <2>3. Funded(d)' = Funded(d)
    BY <1>3 DEF Funded
  <2> QED  BY <1>1, <2>1, <2>2, <2>3
<1> QED  BY <1>2, <1>3

\* A request commits: row `changed` against the one it loaded, `n` credit entries
\* and `a` more in the payment ledger.
Writes(w, c, row, changed, n, a) ==
    /\ claim' = [claim EXCEPT ![c] = Flush(@, row, changed)]
    /\ credits' = [credits EXCEPT ![c] = @ + n]
    /\ tx' = [tx EXCEPT ![w] = Idle]
    /\ received' \in [Claims -> [number: Nat, sum: Int, paidIn: Nat]]
    /\ received'[c].sum = received[c].sum + a
    /\ received'[c].paidIn >= received[c].paidIn /\ received'[c].paidIn >= received[c].paidIn + a
    /\ \A d \in Claims \ {c} : received'[d] = received[d]
    /\ contested' \in {contested, contested \cup {c}}
    /\ configured' \subseteq PurchaseTypes /\ restored' \subseteq Claims

\* What every handler sees to, by what it checked on the row it loaded.
Justified(c, row, changed, n, a) ==
    LET moment == Settings[row.type].grantOn
    IN  /\ changed.type = row.type /\ changed.due = row.due /\ changed.paid = row.paid + a
        /\ changed.status # "absent"
        /\ changed.status \in {"approved", "in_payment"} => moment # "approval"
        /\ changed.paid # 0 /\ moment = "first_payment" => row.paid # 0 \/ n = 1
        /\ n = 1 /\ moment = "completion" => changed.paid >= row.due
        /\ changed.status = "completed" => n = 1 \/ credits[c] > 0

\* A commit that is justified by the row it loaded keeps the invariant; on a claim
\* that is not contested it stores exactly the row the handler computed.
LEMMA CommitKeeps ==
    ASSUME PurchaseInv, NEW w \in Workers, Busy(w), NEW c \in Claims, c = tx[w].claim,
           NEW row \in ClaimRow, row = tx[w].loaded,
           NEW changed \in ClaimRow, NEW n \in {0, 1}, NEW a \in Int,
           Writes(w, c, row, changed, n, a), Justified(c, row, changed, n, a),
           c \notin contested' => CreditsFit(changed, credits[c] + n)
    PROVE  /\ PurchaseInv' /\ Elsewhere(c) /\ Moment(c)' = Moment(c)
           /\ c \notin contested' => /\ claim[c] = row /\ claim'[c] = changed
                                     /\ credits'[c] = credits[c] + n
                                     /\ received'[c].sum = changed.paid
<1> USE DEF Writes, Justified
<1>1. TypeOK /\ claim[c] \in ClaimRow /\ credits[c] \in Nat
      /\ received[c].sum \in Int /\ received[c].paidIn \in Nat
  BY DEF PurchaseInv, TypeOK
<1>2. PastRow(row, c)
  BY DEF PurchaseInv, RequestFacts
<1>3. PastRow(claim[c], c) /\ Earned(claim[c], c)
  BY <1>2 DEF PastRow, PurchaseInv, ClaimFacts
<1> DEFINE new == Flush(claim[c], row, changed)
<1>4. /\ new \in ClaimRow /\ new.type = claim[c].type /\ new.due = claim[c].due
      /\ new.status \in {claim[c].status, changed.status}
      /\ new.paid \in {claim[c].paid, changed.paid}
  BY <1>1, FlushColumns
<1>5. claim' = [claim EXCEPT ![c] = new]
  OBVIOUS
<1> HIDE DEF new
<1>6. claim'[c] = new /\ credits'[c] = credits[c] + n
  BY <1>1, <1>5 DEF TypeOK
<1>7. \A d \in Claims \ {c} : /\ claim'[d] = claim[d] /\ credits'[d] = credits[d]
                              /\ received'[d] = received[d]
                              /\ d \in contested' <=> d \in contested
  BY <1>1, <1>5 DEF TypeOK
<1>8. TypeOK'
  BY <1>1, <1>4, <1>5, IdleType DEF TypeOK
<1>9. ASSUME NEW past \in ClaimRow, PastRow(past, c) PROVE PastRow(past, c)'
  BY <1>1, <1>3, <1>4, <1>6, <1>9 DEF PastRow, ClaimRow
<1>10. ASSUME NEW d \in Claims PROVE ClaimFacts(d)'
  <2>1. CASE d = c
    <3>1. PastRow(claim[c], c)'
      <4>1. /\ row.paid \in Int /\ claim[c].paid \in Int /\ received[c].paidIn \in Nat
            /\ received'[c].paidIn \in Nat /\ n \in Nat
        BY <1>1 DEF ClaimRow
      <4>2. new.paid <= received'[c].paidIn
        <5>1. /\ received'[c].paidIn >= received[c].paidIn
              /\ received'[c].paidIn >= received[c].paidIn + a
              /\ changed.paid = row.paid + a
          OBVIOUS
        <5>2. row.paid <= received[c].paidIn /\ claim[c].paid <= received[c].paidIn
          BY <1>2, <1>3 DEF PastRow
        <5> HIDE DEF Writes, Justified
        <5> QED  BY <1>4, <4>1, <5>1, <5>2
      <4>3. changed.paid # 0 /\ Settings[row.type].grantOn = "first_payment" => credits'[c] > 0
        BY <1>1, <1>2, <1>6, <4>1 DEF PastRow
      <4>4. claim[c].paid # 0 /\ Settings[row.type].grantOn = "first_payment" => credits'[c] > 0
        BY <1>1, <1>2, <1>3, <1>6, <4>1 DEF PastRow
      <4>5. new.status \in {"approved", "in_payment"} => Settings[row.type].grantOn # "approval"
        BY <1>2, <1>3, <1>4 DEF PastRow
      <4> HIDE DEF Writes, Justified
      <4> QED  BY <1>2, <1>3, <1>4, <1>6, <4>2, <4>3, <4>4, <4>5 DEF PastRow, Justified
    <3>2. Earned(claim[c], c)'
      BY <1>1, <1>2, <1>3, <1>4, <1>6 DEF PastRow, Earned, ClaimRow
    <3>3. claim'[d].status # "absent"
      BY <1>3, <1>4, <1>6, <2>1 DEF PastRow
    <3> QED  BY <2>1, <3>1, <3>2, <3>3, <1>6 DEF ClaimFacts
  <2>2. CASE d # c
    BY <1>7, <2>2 DEF PurchaseInv, ClaimFacts, PastRow, Earned
  <2> QED  BY <2>1, <2>2
<1>11. ASSUME NEW v \in Workers PROVE RequestFacts(v)'
  <2>1. CASE v = w
    BY <1>1, <2>1, IdleType DEF TypeOK, RequestFacts, Busy
  <2>2. CASE v # w
    <3> SUFFICES ASSUME Busy(v) PROVE PastRow(tx[v].loaded, tx[v].claim)'
                                      /\ Accepts(tx[v].kind, tx[v].loaded)
      BY <1>1, <2>2 DEF TypeOK, RequestFacts, Busy
    <3>1. tx'[v] = tx[v] /\ tx[v].claim \in Claims /\ tx[v].loaded \in ClaimRow
      BY <1>1, <2>2 DEF TypeOK, TxRow
    <3>2. PastRow(tx[v].loaded, tx[v].claim) /\ Accepts(tx[v].kind, tx[v].loaded)
      BY DEF PurchaseInv, RequestFacts
    <3>3. CASE tx[v].claim = c
      BY <1>9, <3>1, <3>2, <3>3 DEF PastRow
    <3>4. CASE tx[v].claim # c
      BY <1>7, <3>1, <3>2, <3>4 DEF PastRow
    <3> QED  BY <3>2, <3>3, <3>4
  <2> QED  BY <2>1, <2>2
<1>12. ASSUME NEW d \in Claims PROVE Uncontested(d)'
  <2> SUFFICES ASSUME d \notin contested' PROVE Uncontested(d)'
    BY DEF Uncontested
  <2>1. \A v \in Workers : Busy(v)' => v # w /\ Busy(v) /\ tx'[v] = tx[v]
    BY <1>1, IdleType DEF TypeOK, Busy
  <2>2. d \notin contested /\ Uncontested(d)
    BY DEF PurchaseInv
  <2>3. CASE d = c
    <3>1. row = claim[c] /\ \A v \in Workers : Busy(v)' => tx'[v].claim # c
      BY <2>1, <2>2, <2>3 DEF Uncontested
    <3>2. claim'[c] = changed
      BY <3>1, <1>6, FlushAlone DEF new
    <3>3. claim'[c].paid = received'[c].sum
      BY <2>2, <2>3, <3>1, <3>2 DEF Uncontested
    <3>4. CreditsFit(changed, credits[c] + n)
      BY <2>3
    <3> QED  BY <2>3, <3>1, <3>2, <3>3, <3>4, <1>6 DEF Uncontested, CreditsFit
  <2>4. CASE d # c
    BY <1>7, <2>1, <2>2, <2>4 DEF Uncontested, CreditsFit
  <2> QED  BY <2>3, <2>4
<1>13. PurchaseInv'
  BY <1>8, <1>10, <1>11, <1>12 DEF PurchaseInv
<1>14. Elsewhere(c)
  BY <1>7, SameView
<1>15. Moment(c)' = Moment(c)
  BY <1>3, <1>4, <1>6 DEF Moment, GrantOn, PastRow
<1>16. ASSUME c \notin contested'
       PROVE  /\ claim[c] = row /\ claim'[c] = changed
              /\ received'[c].sum = changed.paid
  <2>1. Uncontested(c) /\ c \notin contested
    BY <1>16 DEF PurchaseInv
  <2>2. claim[c] = row /\ claim[c].paid = received[c].sum
    BY <2>1 DEF Uncontested
  <2> QED  BY <2>2, <1>6, FlushAlone DEF new
<1> QED  BY <1>6, <1>13, <1>14, <1>15, <1>16

-----------------------------------------------------------------------------
(* The moves of CreditPromise *)

\* What CreditPromise sees changes for one claim.
LEMMA OneClaimMoves ==
    ASSUME NEW c \in Claims, Elsewhere(c)
    PROVE  /\ [d \in Claims |-> Stage(d)]' = [[d \in Claims |-> Stage(d)] EXCEPT ![c] = Stage(c)']
           /\ [d \in Claims |-> Moment(d)]' = [[d \in Claims |-> Moment(d)] EXCEPT ![c] = Moment(c)']
           /\ [d \in Claims |-> Granted(d)]' = [[d \in Claims |-> Granted(d)] EXCEPT ![c] = Granted(c)']
           /\ [d \in Claims |-> Funded(d)]' = [[d \in Claims |-> Funded(d)] EXCEPT ![c] = Funded(c)']
BY DEF Elsewhere

\* A step after which every claim looks the same to CreditPromise.
LEMMA Stutters ==
    ASSUME NEW c \in Claims, Elsewhere(c), Stage(c)' = Stage(c), Moment(c)' = Moment(c),
           Granted(c)' = Granted(c), Funded(c)' = Funded(c)
    PROVE  [Promise!Next]_(Promise!vars)
BY DEF Elsewhere, Promise!vars

\* A claim that is contested after the step.
LEMMA Disputes ==
    ASSUME NEW c \in Claims, Elsewhere(c), Moment(c)' = Moment(c), c \in contested'
    PROVE  [Promise!Next]_(Promise!vars)
<1>1. Stage(c)' = "disputed" /\ Granted(c)' = 0 /\ Funded(c)' = FALSE
  BY DEF Stage, Granted, Funded
<1>2. Promise!Dispute(c)
  BY <1>1, OneClaimMoves DEF Promise!Dispute
<1> QED  BY <1>2 DEF Promise!Next
-----------------------------------------------------------------------------
(* The requests keep the invariant and follow CreditPromise *)

\* What the invariant says of a request under way and its claim.
LEMMA AtWork ==
    ASSUME PurchaseInv, NEW w \in Workers, Busy(w)
    PROVE  /\ tx[w].claim \in Claims /\ tx[w].loaded \in ClaimRow /\ tx[w].kind \in Kinds
           /\ PastRow(tx[w].loaded, tx[w].claim) /\ Accepts(tx[w].kind, tx[w].loaded)
           /\ tx[w].claim \notin contested => CreditsFit(tx[w].loaded, credits[tx[w].claim])
<1>1. /\ tx[w].claim \in Claims /\ tx[w].loaded \in ClaimRow /\ tx[w].kind \in Kinds
      /\ PastRow(tx[w].loaded, tx[w].claim) /\ Accepts(tx[w].kind, tx[w].loaded)
  BY DEF PurchaseInv, TypeOK, TxRow, RequestFacts, Busy
<1>2. tx[w].claim \notin contested => CreditsFit(tx[w].loaded, credits[tx[w].claim])
  BY <1>1 DEF PurchaseInv, Uncontested
<1> QED  BY <1>1, <1>2

\* A submission changes nothing that CreditPromise sees (submit_claim).
LEMMA SubmitStep ==
    ASSUME PurchaseInv, NEW w \in Workers, SubmitClaim(w)
    PROVE  PurchaseInv' /\ [Promise!Next]_(Promise!vars)
<1>1. Busy(w) /\ tx[w].kind = "submit"
  BY DEF SubmitClaim, Commit, Busy
<1> SUFFICES ASSUME NEW c \in Claims, c = tx[w].claim, NEW row \in ClaimRow, row = tx[w].loaded
             PROVE  PurchaseInv' /\ [Promise!Next]_(Promise!vars)
  BY <1>1, AtWork
<1> DEFINE changed == [row EXCEPT !.status = "pending_approval"]
<1>2. /\ row.status = "draft" /\ PastRow(row, c)
      /\ c \notin contested => CreditsFit(row, credits[c])
  BY <1>1, AtWork DEF Accepts
<1>3. /\ changed \in ClaimRow /\ changed.status = "pending_approval" /\ changed.type = row.type
      /\ changed.due = row.due /\ changed.paid = row.paid
  BY DEF ClaimRow, Status
<1>4. TypeOK /\ credits[c] + 0 = credits[c]
  BY DEF PurchaseInv, TypeOK
<1>5. Writes(w, c, row, changed, 0, 0)
  BY <1>4 DEF SubmitClaim, Commit, Writes, TypeOK
<1>6. Justified(c, row, changed, 0, 0) /\ (c \notin contested => CreditsFit(changed, credits[c]))
  BY <1>2, <1>3 DEF Justified, CreditsFit, PastRow, ClaimRow
<1> HIDE DEF changed
<1>7. /\ PurchaseInv' /\ Elsewhere(c) /\ Moment(c)' = Moment(c)
      /\ c \notin contested' => /\ claim[c] = row /\ claim'[c] = changed
                                /\ credits'[c] = credits[c]
                                /\ received'[c].sum = changed.paid
  <2>1. contested' = contested
    BY DEF SubmitClaim
  <2> QED  BY <1>1, <1>3, <1>4, <1>5, <1>6, <2>1, CommitKeeps
<1>8. CASE c \in contested'
  BY <1>7, <1>8, Disputes
<1>9. CASE c \notin contested'
  <2>1. Stage(c)' = Stage(c) /\ Granted(c)' = Granted(c)
    BY <1>2, <1>3, <1>7, <1>9 DEF Stage, Granted, SubmitClaim
  <2>2. Funded(c)' = Funded(c)
    BY <1>2, <1>3, <1>7, <1>9 DEF Funded, SubmitClaim
  <2> QED  BY <1>7, <2>1, <2>2, Stutters
<1> QED  BY <1>7, <1>8, <1>9

\* A cancellation is a withdrawal and leaves the credit alone (cancel_claim).
LEMMA CancelStep ==
    ASSUME PurchaseInv, NEW w \in Workers, CancelClaim(w)
    PROVE  PurchaseInv' /\ [Promise!Next]_(Promise!vars)
<1>1. Busy(w) /\ tx[w].kind = "cancel"
  BY DEF CancelClaim, Commit, Busy
<1> SUFFICES ASSUME NEW c \in Claims, c = tx[w].claim, NEW row \in ClaimRow, row = tx[w].loaded
             PROVE  PurchaseInv' /\ [Promise!Next]_(Promise!vars)
  BY <1>1, AtWork
<1> DEFINE changed == [row EXCEPT !.status = "cancelled"]
<1>2. /\ row.status \in {"draft", "pending_approval", "approved", "in_payment"} /\ PastRow(row, c)
      /\ c \notin contested => CreditsFit(row, credits[c])
  BY <1>1, AtWork DEF Accepts, ClaimRow, Status, Terminal
<1>3. /\ changed \in ClaimRow /\ changed.status = "cancelled" /\ changed.type = row.type
      /\ changed.due = row.due /\ changed.paid = row.paid
  BY DEF ClaimRow, Status
<1>4. TypeOK /\ credits[c] + 0 = credits[c] /\ contested' = contested
  BY DEF PurchaseInv, TypeOK, CancelClaim
<1>5. Writes(w, c, row, changed, 0, 0)
  BY <1>4 DEF CancelClaim, Commit, Writes, TypeOK
<1>6. Justified(c, row, changed, 0, 0) /\ (c \notin contested => CreditsFit(changed, credits[c]))
  BY <1>2, <1>3 DEF Justified, CreditsFit, PastRow, ClaimRow
<1> HIDE DEF changed
<1>7. /\ PurchaseInv' /\ Elsewhere(c) /\ Moment(c)' = Moment(c)
      /\ c \notin contested => /\ claim[c] = row /\ claim'[c] = changed
                               /\ credits'[c] = credits[c]
                               /\ received'[c].sum = changed.paid
  BY <1>1, <1>3, <1>4, <1>5, <1>6, CommitKeeps
<1>8. CASE c \in contested
  BY <1>4, <1>7, <1>8, Disputes
<1>9. CASE c \notin contested
  <2>1. /\ Stage(c) \in {"asked", "accepted"} /\ Stage(c)' = "withdrawn"
        /\ Granted(c)' = Granted(c)
    BY <1>2, <1>3, <1>4, <1>7, <1>9 DEF Stage, Granted
  <2>2. Funded(c)' = Funded(c)
    BY <1>2, <1>3, <1>4, <1>7, <1>9 DEF Funded, CancelClaim
  <2>3. Promise!Withdraw(c)
    BY <1>7, <2>1, <2>2, OneClaimMoves DEF Elsewhere, Promise!Withdraw, Promise!Move
  <2> QED  BY <1>7, <2>3 DEF Promise!Next
<1> QED  BY <1>8, <1>9

\* An approval accepts the claim, and grants and ends it when its type says so
\* (approve_claim).
LEMMA ApproveStep ==
    ASSUME PurchaseInv, NEW w \in Workers, ApproveClaim(w)
    PROVE  PurchaseInv' /\ [Promise!Next]_(Promise!vars)
<1>1. Busy(w) /\ tx[w].kind = "approve"
  BY DEF ApproveClaim, Commit, Busy
<1> SUFFICES ASSUME NEW c \in Claims, c = tx[w].claim, NEW row \in ClaimRow, row = tx[w].loaded
             PROVE  PurchaseInv' /\ [Promise!Next]_(Promise!vars)
  BY <1>1, AtWork
<1> DEFINE atOnce == Settings[row.type].grantOn = "approval"
           n == IF atOnce THEN 1 ELSE 0
           status == IF atOnce THEN "completed" ELSE "approved"
           changed == [row EXCEPT !.status = status]
<1>2. /\ row.status = "pending_approval" /\ PastRow(row, c)
      /\ c \notin contested => CreditsFit(row, credits[c])
  BY <1>1, AtWork DEF Accepts
<1>3. /\ changed \in ClaimRow /\ changed.status = status /\ changed.type = row.type
      /\ changed.due = row.due /\ changed.paid = row.paid
  BY DEF ClaimRow, Status
<1>4. TypeOK /\ contested' = contested /\ n \in {0, 1} /\ credits[c] + n \in Nat
  BY DEF PurchaseInv, TypeOK, ApproveClaim
<1>5. Writes(w, c, row, changed, n, 0)
  BY <1>4 DEF ApproveClaim, Commit, Writes, TypeOK
<1>6. Justified(c, row, changed, n, 0) /\ (c \notin contested => CreditsFit(changed, credits[c] + n))
  BY <1>2, <1>3, <1>4 DEF Justified, CreditsFit, PastRow, ClaimRow, TypeOK
<1> HIDE DEF changed
<1>7. /\ PurchaseInv' /\ Elsewhere(c) /\ Moment(c)' = Moment(c)
      /\ c \notin contested => /\ claim[c] = row /\ claim'[c] = changed
                               /\ credits'[c] = credits[c] + n
                               /\ received'[c].sum = changed.paid
  BY <1>1, <1>3, <1>4, <1>5, <1>6, CommitKeeps
<1>8. CASE c \in contested
  BY <1>4, <1>7, <1>8, Disputes
<1>9. CASE c \notin contested
  <2>1. /\ Stage(c) = "asked" /\ Granted(c) = 0 /\ Moment(c) = Settings[row.type].grantOn
        /\ Stage(c)' = (IF atOnce THEN "completed" ELSE "accepted") /\ Granted(c)' = n
    BY <1>2, <1>3, <1>4, <1>7, <1>9 DEF Stage, Granted, Moment, GrantOn, CreditsFit, TypeOK
  <2>2. Funded(c)' = Funded(c)
    BY <1>2, <1>3, <1>4, <1>7, <1>9 DEF Funded, ApproveClaim
  <2>3. Promise!Accept(c)
    BY <1>7, <2>1, <2>2, OneClaimMoves DEF Elsewhere, Promise!Accept, Promise!Move
  <2> QED  BY <1>7, <2>3 DEF Promise!Next
<1> QED  BY <1>8, <1>9

\* A payment grants the credit when it is the first and credit is due then, or
\* when it covers the price.
LEMMA PayStep ==
    ASSUME PurchaseInv, NEW w \in Workers, NEW a \in Amounts, RecordPayment(w, a)
    PROVE  PurchaseInv' /\ [Promise!Next]_(Promise!vars)
<1>1. Busy(w) /\ tx[w].kind = "pay"
  BY DEF RecordPayment, Commit, Busy
<1> SUFFICES ASSUME NEW c \in Claims, c = tx[w].claim, NEW row \in ClaimRow, row = tx[w].loaded
             PROVE  PurchaseInv' /\ [Promise!Next]_(Promise!vars)
  BY <1>1, AtWork
<1> DEFINE total == row.paid + a
           n == IF GrantsOnPayment(row, total) THEN 1 ELSE 0
           status == StatusAfter(row, total)
           changed == [row EXCEPT !.paid = total, !.status = status]
<1>2. /\ row.status \in {"approved", "in_payment"} /\ PastRow(row, c)
      /\ c \notin contested => CreditsFit(row, credits[c])
  BY <1>1, AtWork DEF Accepts, Payable
<1>3. /\ changed \in ClaimRow /\ changed.status = status /\ changed.type = row.type
      /\ changed.due = row.due /\ changed.paid = total
      /\ total \in Int /\ row.paid \in Int /\ row.due \in Int
      /\ status = (IF total >= row.due THEN "completed" ELSE "in_payment")
  <2>1. row.paid \in Int /\ row.due \in Int /\ a \in Int
    BY AmountsAssumption DEF ClaimRow
  <2>2. /\ total \in Int /\ status \in Status
        /\ status = (IF total >= row.due THEN "completed" ELSE "in_payment")
    BY <2>1 DEF Status, StatusAfter
  <2> HIDE DEF total, status
  <2>3. /\ changed \in ClaimRow /\ changed.status = status /\ changed.type = row.type
        /\ changed.due = row.due /\ changed.paid = total
    BY <2>2 DEF ClaimRow
  <2> QED  BY <2>1, <2>2, <2>3
<1>4. /\ TypeOK /\ n \in {0, 1} /\ credits[c] \in Nat /\ a \in Int
      /\ contested' = IF total = 0 /\ status = "in_payment" THEN contested \cup {c} ELSE contested
  BY AmountsAssumption DEF PurchaseInv, TypeOK, RecordPayment, Receive
<1>5. Writes(w, c, row, changed, n, a)
  <2>1. claim' = [claim EXCEPT ![c] = Flush(@, row, changed)] /\ tx' = [tx EXCEPT ![w] = Idle]
    BY DEF RecordPayment, Commit
  <2>2. credits' = [credits EXCEPT ![c] = @ + n]
    BY DEF RecordPayment, Commit
  <2>3. /\ received' \in [Claims -> [number: Nat, sum: Int, paidIn: Nat]]
        /\ received'[c].sum = received[c].sum + a
        /\ received'[c].paidIn >= received[c].paidIn
        /\ received'[c].paidIn >= received[c].paidIn + a
        /\ \A d \in Claims \ {c} : received'[d] = received[d]
    <3>1. received' = [received EXCEPT ![c] = [number |-> @.number + 1, sum |-> @.sum + a,
                                               paidIn |-> @.paidIn + AtLeast(0, a)]]
      BY DEF RecordPayment, Receive
    <3>2. AtLeast(0, a) \in Nat /\ AtLeast(0, a) >= a
      BY <1>4 DEF AtLeast
    <3>3. received \in [Claims -> [number: Nat, sum: Int, paidIn: Nat]]
      BY <1>4 DEF TypeOK
    <3> HIDE DEF total, n, status, changed
    <3>4. /\ received[c].number + 1 \in Nat /\ received[c].sum + a \in Int
          /\ received[c].paidIn \in Nat /\ received[c].paidIn + AtLeast(0, a) \in Nat
      BY <1>4, <3>2, <3>3
    <3>5. received'[c] = [number |-> received[c].number + 1, sum |-> received[c].sum + a,
                          paidIn |-> received[c].paidIn + AtLeast(0, a)]
      BY <3>1, <3>3
    <3>6. received' \in [Claims -> [number: Nat, sum: Int, paidIn: Nat]]
      BY <3>1, <3>3, <3>4
    <3> QED  BY <1>4, <3>1, <3>2, <3>3, <3>4, <3>5, <3>6
  <2>4. configured' \subseteq PurchaseTypes /\ restored' \subseteq Claims
    BY <1>4 DEF RecordPayment, Commit, TypeOK
  <2> QED  BY <1>4, <2>1, <2>2, <2>3, <2>4 DEF Writes
<1>6. Settings[row.type].grantOn \in {"first_payment", "completion"}
  BY <1>2, SettingsAssumption DEF PastRow, TypeSettings, ClaimRow
<1>7. Justified(c, row, changed, n, a)
  BY <1>2, <1>3, <1>4, <1>6 DEF Justified, PastRow, GrantsOnPayment
<1>8. c \notin contested' => CreditsFit(changed, credits[c] + n)
  BY <1>2, <1>3, <1>4, <1>6 DEF CreditsFit, GrantsOnPayment
<1> HIDE DEF changed
<1>9. /\ PurchaseInv' /\ Elsewhere(c) /\ Moment(c)' = Moment(c)
      /\ c \notin contested' => /\ claim[c] = row /\ claim'[c] = changed
                                /\ credits'[c] = credits[c] + n
                                /\ received'[c].sum = changed.paid
  <2> HIDE DEF n
  <2> QED  BY <1>1, <1>3, <1>4, <1>5, <1>7, <1>8, CommitKeeps
<1>10. CASE c \in contested'
  BY <1>9, <1>10, Disputes
<1>11. CASE c \notin contested'
  <2>1. /\ c \notin contested /\ CreditsFit(row, credits[c]) /\ CreditsFit(changed, credits[c] + n)
        /\ received[c].sum = row.paid
    BY <1>2, <1>4, <1>8, <1>9, <1>11 DEF PurchaseInv, Uncontested
  <2>2. /\ Stage(c) = "accepted" /\ Stage(c)' = (IF total >= row.due THEN "completed" ELSE "accepted")
        /\ Granted(c) = credits[c] /\ Granted(c)' = credits[c] + n
        /\ Moment(c) = Settings[row.type].grantOn
    BY <1>2, <1>3, <1>9, <1>11, <2>1 DEF Stage, Granted, Moment, GrantOn
  <2>3. CASE total >= row.due
    <3>1. Funded(c)' = TRUE
      BY <1>3, <1>9, <1>11, <2>3 DEF Funded
    <3>2. Granted(c)' = 1
      BY <1>3, <2>1, <2>2, <2>3 DEF CreditsFit
    <3>3. Promise!PayInFull(c)
      BY <1>9, <2>2, <2>3, <3>1, <3>2, OneClaimMoves DEF Elsewhere, Promise!PayInFull, Promise!Move
    <3> QED  BY <1>9, <3>3 DEF Promise!Next
  <2>4. CASE ~(total >= row.due)
    <3>1. Funded(c)' = FALSE
      BY <1>3, <1>9, <1>11, <2>4 DEF Funded
    <3>2. Granted(c)' = IF Moment(c) = "first_payment" THEN 1 ELSE 0
      BY <1>3, <2>1, <2>2, <2>4 DEF CreditsFit
    <3>3. Stage(c) = "accepted" /\ Stage(c)' = "accepted"
      BY <2>2, <2>4
    <3> HIDE DEF total, n
    <3>4. /\ [d \in Claims |-> Stage(d)]' = [[d \in Claims |-> Stage(d)] EXCEPT ![c] = "accepted"]
          /\ [d \in Claims |-> Stage(d)][c] = "accepted"
      BY <1>9, <3>3, OneClaimMoves
    <3>5. [d \in Claims |-> Granted(d)]'
             = [[d \in Claims |-> Granted(d)] EXCEPT
                  ![c] = IF [d \in Claims |-> Moment(d)][c] = "first_payment" THEN 1 ELSE 0]
      BY <1>9, <3>2, OneClaimMoves
    <3>6. /\ [d \in Claims |-> Moment(d)]' = [d \in Claims |-> Moment(d)]
          /\ [d \in Claims |-> Funded(d)]' = [[d \in Claims |-> Funded(d)] EXCEPT ![c] = FALSE]
      BY <1>9, <3>1, OneClaimMoves DEF Elsewhere
    <3>7. Promise!PayPart(c)
      BY <3>4, <3>5, <3>6 DEF Promise!PayPart, Promise!Move
    <3> QED  BY <1>9, <3>7 DEF Promise!Next
  <2> QED  BY <2>3, <2>4
<1> QED  BY <1>10, <1>11

\* A new claim is one nobody is at work on (create_claim).
LEMMA CreateStep ==
    ASSUME PurchaseInv, NEW c \in Claims, NEW t \in PurchaseTypes, NEW cost \in Prices(t),
           NEW cert \in BOOLEAN, CreateClaim(c, t, cost, cert)
    PROVE  PurchaseInv' /\ [Promise!Next]_(Promise!vars)
<1> DEFINE new == [status |-> "draft", type |-> t, due |-> cost, paid |-> 0, cert |-> cert]
<1>1. cost \in Int /\ new \in ClaimRow
  BY PricesAssumption DEF ClaimRow, Status
<1>2. /\ new.status = "draft" /\ new.type = t /\ new.due = cost /\ new.paid = 0
      /\ claim[c].status = "absent" /\ claim' = [claim EXCEPT ![c] = new]
      /\ UNCHANGED <<configured, received, credits, restored, tx, contested>>
  BY DEF CreateClaim
<1> HIDE DEF new
<1>3. TypeOK /\ claim'[c] = new /\ \A d \in Claims \ {c} : claim'[d] = claim[d]
  BY <1>2 DEF PurchaseInv, TypeOK
<1>4. received[c].sum = 0 /\ received[c].paidIn = 0 /\ credits[c] = 0 /\ c \notin contested
  BY <1>2 DEF PurchaseInv, ClaimFacts
<1>5. \A w \in Workers : Busy(w) => tx[w].claim \in Claims \ {c}
  BY <1>2, AtWork DEF PastRow
<1>6. TypeOK'
  BY <1>1, <1>2, <1>3 DEF TypeOK
<1>7. ASSUME NEW d \in Claims PROVE ClaimFacts(d)' /\ Uncontested(d)'
  <2>1. CASE d = c
    BY <1>2, <1>3, <1>4, <1>5, <2>1 DEF ClaimFacts, Uncontested, PastRow, Earned, CreditsFit, Busy
  <2>2. CASE d # c
    <3>1. ClaimFacts(d)'
      BY <1>2, <1>3, <2>2 DEF PurchaseInv, ClaimFacts, PastRow, Earned
    <3>2. Uncontested(d)'
      BY <1>2, <1>3, <2>2 DEF PurchaseInv, Uncontested, CreditsFit, Busy
    <3> QED  BY <3>1, <3>2
  <2> QED  BY <2>1, <2>2
<1>8. ASSUME NEW w \in Workers PROVE RequestFacts(w)'
  BY <1>2, <1>3, <1>5, AtWork DEF RequestFacts, Busy, PastRow
<1>9. Elsewhere(c)
  BY <1>2, <1>3, SameView
<1>10. /\ Stage(c) = "absent" /\ Stage(c)' = "asked" /\ Granted(c)' = Granted(c)
       /\ Moment(c)' \in Promise!GrantMoments
  BY <1>2, <1>3, <1>4, SettingsAssumption
     DEF Stage, Granted, Moment, GrantOn, TypeSettings, Promise!GrantMoments
<1>11. Funded(c)' \in BOOLEAN
  BY DEF Funded
<1>12. Promise!Ask(c)
  BY <1>9, <1>10, <1>11, OneClaimMoves DEF Elsewhere, Promise!Ask, Promise!Move
<1> QED  BY <1>6, <1>7, <1>8, <1>12 DEF PurchaseInv, Promise!Next

\* A request that takes up a claim on which another is at work contests it.
LEMMA BeginStep ==
    ASSUME PurchaseInv, NEW w \in Workers, NEW k \in Kinds, NEW c \in Claims, Begin(w, k, c)
    PROVE  PurchaseInv' /\ [Promise!Next]_(Promise!vars)
<1>1. /\ ~Busy(w) /\ Accepts(k, claim[c])
      /\ tx' = [tx EXCEPT ![w] = [kind |-> k, claim |-> c, loaded |-> claim[c]]]
      /\ contested' \in {contested, contested \cup {c}}
      /\ c \notin contested' => \A v \in Workers : Busy(v) => tx[v].claim # c
      /\ UNCHANGED <<configured, claim, received, credits, restored>>
  BY DEF Begin, Busy, rows
<1>2. TypeOK /\ ClaimFacts(c) /\ Uncontested(c)
  BY DEF PurchaseInv
<1>3. claim[c].status # "absent" /\ PastRow(claim[c], c)
  BY <1>1, <1>2 DEF Accepts, Payable, Kinds, ClaimFacts
<1>4. /\ tx'[w].kind = k /\ tx'[w].claim = c /\ tx'[w].loaded = claim[c] /\ k # "idle"
      /\ \A v \in Workers \ {w} : tx'[v] = tx[v]
  BY <1>1, <1>2 DEF TypeOK, Kinds
<1>5. TypeOK'
  BY <1>1, <1>2 DEF TypeOK, TxRow
<1>6. ASSUME NEW d \in Claims PROVE ClaimFacts(d)'
  <2>1. CASE d = c
    BY <1>1, <1>2, <1>3, <2>1 DEF ClaimFacts, PastRow, Earned
  <2>2. CASE d # c
    BY <1>1, <2>2 DEF PurchaseInv, ClaimFacts, PastRow, Earned
  <2> QED  BY <2>1, <2>2
<1>7. ASSUME NEW v \in Workers PROVE RequestFacts(v)'
  <2>1. CASE v = w
    BY <1>1, <1>3, <1>4, <2>1 DEF RequestFacts, PastRow
  <2>2. CASE v # w
    BY <1>1, <1>4, <2>2 DEF PurchaseInv, RequestFacts, PastRow, Busy
  <2> QED  BY <2>1, <2>2
<1>8. ASSUME NEW d \in Claims PROVE Uncontested(d)'
  <2> SUFFICES ASSUME d \notin contested' PROVE Uncontested(d)'
    BY DEF Uncontested
  <2>1. d \notin contested /\ Uncontested(d)
    BY <1>1 DEF PurchaseInv
  <2>2. CASE d = c
    <3>1. \A v \in Workers : Busy(v)' /\ tx'[v].claim = c => v = w
      BY <1>1, <1>4, <2>2 DEF Busy
    <3> QED  BY <1>1, <1>4, <2>1, <2>2, <3>1 DEF Uncontested, CreditsFit
  <2>3. CASE d # c
    BY <1>1, <1>4, <2>1, <2>3 DEF Uncontested, CreditsFit, Busy
  <2> QED  BY <2>2, <2>3
<1>9. PurchaseInv'
  BY <1>5, <1>6, <1>7, <1>8 DEF PurchaseInv
<1>10. Elsewhere(c) /\ Moment(c)' = Moment(c)
  BY <1>1, SameView DEF Moment, GrantOn
<1>11. CASE c \in contested'
  BY <1>9, <1>10, <1>11, Disputes
<1>12. CASE c \notin contested'
  <2>1. c \notin contested
    BY <1>1, <1>12
  <2>2. Stage(c)' = Stage(c) /\ Granted(c)' = Granted(c)
    BY <1>1, <1>12, <2>1 DEF Stage, Granted
  <2>3. Funded(c)' = Funded(c)
    BY <1>1, <1>12, <2>1 DEF Funded
  <2> QED  BY <1>9, <1>10, <2>2, <2>3, Stutters
<1> QED  BY <1>11, <1>12

\* Nothing is written: a request is given up, or another configuration is in force.
LEMMA QuietStep ==
    ASSUME PurchaseInv, UNCHANGED <<claim, received, credits, restored, contested>>,
           configured' \subseteq PurchaseTypes,
           tx' = tx \/ \E w \in Workers : tx' = [tx EXCEPT ![w] = Idle]
    PROVE  PurchaseInv' /\ [Promise!Next]_(Promise!vars)
<1>1. TypeOK
  BY DEF PurchaseInv
<1>2. TypeOK' /\ \A v \in Workers : Busy(v)' => Busy(v) /\ tx'[v] = tx[v]
  BY <1>1, IdleType DEF TypeOK, Busy
<1>3. ASSUME NEW d \in Claims PROVE ClaimFacts(d)' /\ Uncontested(d)'
  <2>1. ClaimFacts(d)'
    BY DEF PurchaseInv, ClaimFacts, PastRow, Earned
  <2>2. Uncontested(d)'
    BY <1>2 DEF PurchaseInv, Uncontested, CreditsFit
  <2> QED  BY <2>1, <2>2
<1>4. ASSUME NEW v \in Workers PROVE RequestFacts(v)'
  BY <1>2 DEF PurchaseInv, RequestFacts, PastRow
<1>5. PurchaseInv'
  BY <1>2, <1>3, <1>4 DEF PurchaseInv
<1>6. PICK c \in Claims : TRUE
  BY ClaimsAssumption
<1>7. Elsewhere(c) /\ Moment(c)' = Moment(c)
  BY SameView DEF Moment, GrantOn
<1>8. CASE c \in contested
  BY <1>7, <1>8, <1>5, Disputes
<1>9. CASE c \notin contested
  <2>1. Stage(c)' = Stage(c) /\ Granted(c)' = Granted(c)
    BY <1>9 DEF Stage, Granted
  <2>2. Funded(c)' = Funded(c)
    BY <1>9 DEF Funded
  <2> QED  BY <1>7, <1>5, <2>1, <2>2, Stutters
<1> QED  BY <1>8, <1>9

\* Every step keeps the invariant and is a step or a stutter of CreditPromise.
LEMMA AllSteps ==
    ASSUME PurchaseInv, [Next]_vars
    PROVE  PurchaseInv' /\ [Promise!Next]_(Promise!vars)
<1>1. ASSUME NEW w \in Workers, ClaimRequest(w)
      PROVE  PurchaseInv' /\ [Promise!Next]_(Promise!vars)
  <2>1. CASE \E k \in Kinds, c \in Claims : Begin(w, k, c)
    BY <2>1, BeginStep
  <2>2. CASE SubmitClaim(w) \/ ApproveClaim(w) \/ CancelClaim(w)
    BY <2>2, SubmitStep, ApproveStep, CancelStep
  <2>3. CASE \E a \in Amounts : RecordPayment(w, a)
    BY <2>3, PayStep
  <2>4. CASE Abort(w)
    BY <2>4, QuietStep DEF Abort, rows, PurchaseInv, TypeOK
  <2> QED  BY <1>1, <2>1, <2>2, <2>3, <2>4 DEF ClaimRequest
<1>2. ASSUME NEW c \in Claims, NEW t \in PurchaseTypes, NEW cert \in BOOLEAN,
             NEW cost \in Prices(t), CreateClaim(c, t, cost, cert)
      PROVE  PurchaseInv' /\ [Promise!Next]_(Promise!vars)
  BY <1>2, CreateStep
<1>3. ASSUME NEW S \in SUBSET PurchaseTypes, ReplaceConfiguration(S)
      PROVE  PurchaseInv' /\ [Promise!Next]_(Promise!vars)
  BY <1>3, QuietStep DEF ReplaceConfiguration, rows
<1>4. CASE UNCHANGED vars
  BY <1>4, QuietStep DEF vars, rows, PurchaseInv, TypeOK
<1> QED  BY <1>1, <1>2, <1>3, <1>4 DEF Next

\* The initial states are those of CreditPromise.
LEMMA FromTheStart == Init => Promise!Init
<1> SUFFICES ASSUME Init PROVE Promise!Init
  OBVIOUS
<1>1. \A c \in Claims : claim[c].status = "absent" /\ credits[c] = 0 /\ c \notin contested
  BY NoClaimType DEF Init
<1>2. \A c \in Claims : Stage(c) = "absent" /\ Moment(c) = "completion" /\ Granted(c) = 0
  BY <1>1 DEF Stage, Moment, Granted
<1>3. ASSUME NEW c \in Claims PROVE Funded(c) = FALSE
  BY <1>1 DEF Funded
<1> QED  BY <1>2, <1>3 DEF Promise!Init
-----------------------------------------------------------------------------
(* What a reader should know *)

\* The invariant of the claims holds in every state the service can reach.
THEOREM PurchaseInvariant == Spec => []PurchaseInv
<1>1. PurchaseInv /\ [Next]_vars => PurchaseInv'
  BY AllSteps
<1> QED  BY <1>1, InitHolds, PTL DEF Spec

\* Claims, ledgers and open requests keep their columns.
THEOREM PurchaseTypeCorrect == Spec => []TypeOK
<1>1. PurchaseInv => TypeOK
  BY DEF PurchaseInv
<1> QED  BY <1>1, PurchaseInvariant, PTL

\* cost_paid never claims more than was ever paid in, whatever requests overlap,
\* and is the sum of the payment rows when none did (record_payment).
THEOREM PaidMatchesTheLedger == Spec => []PaidIsReceived
<1>1. ASSUME PurchaseInv PROVE PaidIsReceived
  <2> SUFFICES ASSUME NEW c \in Claims
               PROVE  /\ claim[c].paid <= received[c].paidIn
                      /\ c \notin contested => claim[c].paid = received[c].sum
    BY DEF PaidIsReceived
  <2>1. claim[c].paid <= received[c].paidIn
    BY <1>1 DEF PurchaseInv, ClaimFacts, PastRow
  <2>2. c \notin contested => claim[c].paid = received[c].sum
    BY <1>1 DEF PurchaseInv, Uncontested
  <2> QED  BY <2>1, <2>2
<1> QED  BY <1>1, PurchaseInvariant, PTL

\* Credit due on completion waits until the whole price came in, payments back taken
\* off where requests did not overlap; a completed claim has its credit, also when
\* they did (record_payment, _grant_credit).
THEOREM CreditFollowsThePayments == Spec => []CreditIsPaidFor
<1>1. ASSUME PurchaseInv PROVE CreditIsPaidFor
  <2> SUFFICES ASSUME NEW c \in Claims
               PROVE  /\ credits[c] > 0 /\ GrantOn(c) = "completion" =>
                            /\ received[c].paidIn >= claim[c].due
                            /\ c \notin contested => received[c].sum >= claim[c].due
                      /\ claim[c].status = "completed" => credits[c] > 0
    BY DEF CreditIsPaidFor
  <2>1. ClaimFacts(c) /\ Uncontested(c)
    BY <1>1 DEF PurchaseInv
  <2>2. CASE claim[c].status = "absent"
    BY <2>1, <2>2 DEF ClaimFacts
  <2>3. CASE claim[c].status # "absent"
    <3>1. Earned(claim[c], c)
      BY <2>1, <2>3 DEF ClaimFacts
    <3>2. c \notin contested /\ credits[c] > 0 /\ GrantOn(c) = "completion"
             => received[c].sum >= claim[c].due
      BY <2>1 DEF Uncontested, CreditsFit, GrantOn
    <3> QED  BY <3>1, <3>2 DEF Earned, GrantOn
  <2> QED  BY <2>2, <2>3
<1> QED  BY <1>1, PurchaseInvariant, PTL

\* The service implements CreditPromise: one credit entry at the moment the type
\* names, nothing after the end, unless requests overlap or a payment leaves an open
\* claim with nothing paid.
THEOREM PromiseIsKept == Spec => KeepsThePromise
<1>1. Init => Promise!Init
  BY FromTheStart
<1>2. PurchaseInv /\ [Next]_vars => [Promise!Next]_(Promise!vars)
  BY AllSteps
<1> QED  BY <1>1, <1>2, PurchaseInvariant, PTL DEF Spec, KeepsThePromise, Promise!Spec
=============================================================================
