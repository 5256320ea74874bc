---------------------------- MODULE RetirementProofs ----------------------------
(***************************************************************************)
(* From a retirement case to a check stub.  First what RetirementCases and *)
(* MemberContract guarantee for any number of employments and cases, any   *)
(* dates and any annuities; then what PensionPaycheck guarantees for any   *)
(* file, rules, factors, caps and tax tables that are of their kind.       *)
(*                                                                         *)
(* What a recursion computes is proved by its least counterexample.        *)
(***************************************************************************)
EXTENDS RetirementCases, PensionPaycheck, ContributionRatesProofs, TLAPS

-----------------------------------------------------------------------------
(* Cases and the contract *)

\* The inductive invariant of the contract.
ContractInv == ContractTypeOK /\ SeparatedWorksNowhere /\ LeaveCanEnd

\* Every contract request keeps the invariant of the contract.
LEMMA ContractInvStep ==
    ASSUME ContractInv, ContractRequest
    PROVE  ContractInv'
<1> USE ContractAssumption DEF ContractInv, ContractTypeOK, MemberStatus, NoRow
<1>1. ASSUME NEW s \in MemberStatus, NEW d \in Dates, WriteStatus(s, d)
      PROVE  /\ status' = s
             /\ currentRow' \in [status : MemberStatus, date : Dates]
  <2>1. d \in Nat \ {0} /\ currentRow.date \in Nat
    <3>1. CASE currentRow = NoRow
      BY <3>1
    <3>2. CASE currentRow \in [status : MemberStatus, date : Dates]
      <4>1. currentRow.date \in Dates
        BY <3>2
      <4> QED
        BY <4>1
    <3> QED
      BY <3>1, <3>2
  <2>2. CASE d >= currentRow.date
    BY <1>1, <2>2 DEF WriteStatus
  <2>3. CASE ~(d >= currentRow.date)
    <3>1. currentRow # NoRow
      BY <2>1, <2>3
    <3> QED
      BY <1>1, <2>3, <3>1 DEF WriteStatus
  <2> QED
    BY <2>2, <2>3
<1>2. ASSUME NEW d \in Dates, NEW e \in Employments, NewHire(e, d)
      PROVE  ContractInv'
  BY <1>1, <1>2 DEF NewHire, SeparatedWorksNowhere, LeaveCanEnd
<1>3. ASSUME NEW d \in Dates, NEW e \in Employments, Terminate(e, d)
      PROVE  ContractInv'
  <2>1. CASE OtherOpen(e)
    BY <1>3, <2>1
    DEF Terminate, Allowed, AllowedFrom, SeparatedWorksNowhere, LeaveCanEnd
  <2>2. CASE ~OtherOpen(e)
    BY <1>1, <1>3, <2>2 DEF Terminate, OtherOpen, SeparatedWorksNowhere, LeaveCanEnd
  <2> QED
    BY <2>1, <2>2
<1>4. ASSUME NEW d \in Dates, NEW e \in Employments, BeginLeave(e, d)
      PROVE  ContractInv'
  BY <1>1, <1>4 DEF BeginLeave, SeparatedWorksNowhere, LeaveCanEnd
<1>5. ASSUME NEW d \in Dates, NEW e \in Employments, EndLeave(e, d)
      PROVE  ContractInv'
  BY <1>1, <1>5 DEF EndLeave, SeparatedWorksNowhere, LeaveCanEnd
<1>6. ASSUME NEW d \in Dates, RecordDeath(d)
      PROVE  ContractInv'
  BY <1>1, <1>6 DEF RecordDeath, SeparatedWorksNowhere, LeaveCanEnd
<1>7. ASSUME NEW d \in Dates, BeginAnnuity(d)
      PROVE  ContractInv'
  BY <1>1, <1>7 DEF BeginAnnuity, SeparatedWorksNowhere, LeaveCanEnd
<1>8. ASSUME NEW d \in Dates, ProcessRefund(d)
      PROVE  ContractInv'
  BY <1>1, <1>8
  DEF ProcessRefund, Allowed, AllowedFrom, SeparatedWorksNowhere, LeaveCanEnd
<1> QED
  BY <1>2, <1>3, <1>4, <1>5, <1>6, <1>7, <1>8 DEF ContractRequest

\* An annuitant is only ever followed by a deceased member, who has no contract
\* request left.
LEMMA EndsStayEnds ==
    ASSUME ContractRequest
    PROVE  /\ status # "deceased"
           /\ status = "annuitant" => status' = "deceased"
BY DEF ContractRequest, NewHire, Terminate, BeginLeave, EndLeave, RecordDeath,
       BeginAnnuity, ProcessRefund, Allowed, AllowedFrom, WriteStatus

\* A case has a final annuity once it is approved and not before.
DraftHasNoFinal ==
    \A c \in Cases : case[c].status \in {"absent", "draft"} => case[c].final = NotSet

\* An estimate and a date are taken when the case is created.
SnapshotTaken ==
    \A c \in Cases : case[c].status # "absent" =>
        case[c].snapshot \in Annuities /\ case[c].date \in Dates

\* The inductive invariant of the cases.
CaseInv ==
    /\ ContractInv /\ TypeOK
    /\ OneOpenCase /\ ApprovalIsWhole /\ FirstPaymentOnce
    /\ DraftHasNoFinal /\ SnapshotTaken

\* A contract request leaves the cases alone, and an annuitant retired.
LEMMA ContractStepKeeps ==
    ASSUME CaseInv, ContractStep
    PROVE  CaseInv'
<1>1. ContractInv'
  BY ContractInvStep DEF CaseInv, ContractStep
<1>2. TypeOK'
  BY <1>1 DEF CaseInv, ContractStep, ContractInv, TypeOK, caseVars
<1>3. ApprovalIsWhole'
  BY EndsStayEnds DEF CaseInv, ContractStep, ApprovalIsWhole, caseVars
<1>4. /\ OneOpenCase' /\ FirstPaymentOnce'
      /\ DraftHasNoFinal' /\ SnapshotTaken'
  BY DEF CaseInv, ContractStep, caseVars, OneOpenCase, FirstPaymentOnce,
         DraftHasNoFinal, SnapshotTaken
<1> QED
  BY <1>1, <1>2, <1>3, <1>4 DEF CaseInv

\* A case request keeps the invariant of the cases.
LEMMA CaseRequestKeeps ==
    ASSUME CaseInv, CaseRequest
    PROVE  CaseInv'
<1> USE ContractAssumption, CasesAssumption DEF CaseInv
<1>1. ASSUME NEW c \in Cases, NEW d \in Dates, NEW o \in Options, NEW m \in Annuities,
             CreateCase(c, d, o, m)
      PROVE  CaseInv'
  <2>1. ContractInv' /\ TypeOK'
    BY <1>1 DEF CreateCase, contractVars, ContractInv, ContractTypeOK, TypeOK, Case,
                SeparatedWorksNowhere, LeaveCanEnd
  <2>2. OneOpenCase' /\ ApprovalIsWhole'
    BY <1>1 DEF CreateCase, contractVars, NoOpenCase, TypeOK, OneOpenCase, ApprovalIsWhole
  <2>3. FirstPaymentOnce' /\ DraftHasNoFinal' /\ SnapshotTaken'
    BY <1>1 DEF CreateCase, TypeOK, FirstPaymentOnce, DraftHasNoFinal, SnapshotTaken
  <2> QED
    BY <2>1, <2>2, <2>3
<1>2. ASSUME NEW c \in Cases, NEW m \in Annuities, Recalculate(c, m)
      PROVE  CaseInv'
  <2>1. ContractInv' /\ TypeOK'
    <3>1. ContractInv'
      BY <1>2 DEF Recalculate, contractVars, ContractInv, ContractTypeOK, SeparatedWorksNowhere,
                  LeaveCanEnd
    <3>2. case' \in [Cases -> Case]
      <4>1. [case[c] EXCEPT !.snapshot = m] \in Case /\ case \in [Cases -> Case]
        BY DEF TypeOK, Case
      <4> QED  BY <1>2, <4>1 DEF Recalculate
    <3> QED  BY <1>2, <3>1, <3>2 DEF Recalculate, ContractInv, TypeOK
  <2>2. OneOpenCase' /\ ApprovalIsWhole'
    BY <1>2 DEF Recalculate, contractVars, TypeOK, Case, OneOpenCase, ApprovalIsWhole
  <2>3. FirstPaymentOnce' /\ DraftHasNoFinal' /\ SnapshotTaken'
    BY <1>2 DEF Recalculate, TypeOK, Case, FirstPaymentOnce, DraftHasNoFinal, SnapshotTaken
  <2> QED
    BY <2>1, <2>2, <2>3
<1>3. ASSUME NEW c \in Cases, ApproveCase(c)
      PROVE  CaseInv'
  <2>1. /\ case[c].status = "draft" /\ case[c].date \in Dates
        /\ case[c].snapshot \in Annuities
    BY <1>3 DEF ApproveCase, SnapshotTaken
  <2>2. ContractInv'
    BY <1>3, <2>1, ContractInvStep DEF ApproveCase, ContractRequest
  <2>3. TypeOK'
    <3>1. case[c].option \in Options /\ case \in [Cases -> Case]
      BY DEF TypeOK, Case
    <3>2. case' = [case EXCEPT ![c] = [case[c] EXCEPT !.status = "approved",
                                                     !.final = case[c].snapshot]]
      BY <1>3 DEF ApproveCase
    <3>3. [case[c] EXCEPT !.status = "approved", !.final = case[c].snapshot] \in Case
      BY <2>1, <3>1 DEF Case
    <3>4. case' \in [Cases -> Case]
      BY <3>1, <3>2, <3>3
    <3>5. elections' \subseteq [option : Options, date : Dates]
      BY <1>3, <2>1, <3>1 DEF ApproveCase, RecordElection, TypeOK
    <3> QED
      BY <1>3, <2>2, <3>4, <3>5 DEF ApproveCase, ContractInv, TypeOK
  <2>4. status' = "annuitant"
    BY <1>3 DEF ApproveCase, BeginAnnuity, WriteStatus
  <2>5. OneOpenCase' /\ ApprovalIsWhole'
    <3>1. OneOpenCase'
      BY <1>3 DEF ApproveCase, TypeOK, Case, OneOpenCase
    <3>2. ApprovalIsWhole'
      BY <1>3, <2>4 DEF ApproveCase, RecordElection, TypeOK, Case, ApprovalIsWhole
    <3> QED  BY <3>1, <3>2
  <2>6. FirstPaymentOnce' /\ DraftHasNoFinal' /\ SnapshotTaken'
    BY <1>3, <2>1 DEF ApproveCase, TypeOK, Case, FirstPaymentOnce, DraftHasNoFinal,
                      SnapshotTaken
  <2> QED
    BY <2>2, <2>3, <2>5, <2>6
<1>4. ASSUME NEW c \in Cases, ActivateCase(c)
      PROVE  CaseInv'
  <2>1. case[c].final \in Annuities
    BY <1>4 DEF ActivateCase, ApprovalIsWhole, SnapshotTaken
  <2>2. /\ annuities[c] = <<>> /\ annuities \in [Cases -> Seq(Annuities)]
        /\ case \in [Cases -> Case] /\ [case[c] EXCEPT !.status = "active"] \in Case
    BY <1>4 DEF ActivateCase, FirstPaymentOnce, TypeOK, Case
  <2>3. /\ annuities' = [annuities EXCEPT ![c] = <<case[c].final>>]
        /\ case' = [case EXCEPT ![c] = [case[c] EXCEPT !.status = "active"]]
    BY <1>4, <2>2 DEF ActivateCase, SetCase
  <2>4. <<case[c].final>> \in Seq(Annuities)
    BY <2>1
  <2>5. ContractInv'
    BY <1>4 DEF ActivateCase, contractVars, ContractInv, ContractTypeOK,
                SeparatedWorksNowhere, LeaveCanEnd
  <2>6. annuities' \in [Cases -> Seq(Annuities)] /\ case' \in [Cases -> Case]
    BY <2>2, <2>3, <2>4
  <2>7. TypeOK'
    BY <1>4, <2>5, <2>6 DEF ActivateCase, ContractInv, TypeOK
  <2>8. OneOpenCase' /\ ApprovalIsWhole'
    BY <1>4 DEF ActivateCase, SetCase, contractVars, TypeOK, Case, OneOpenCase, ApprovalIsWhole
  <2>9. FirstPaymentOnce'
    BY <2>2, <2>3 DEF FirstPaymentOnce, Case
  <2>10. DraftHasNoFinal' /\ SnapshotTaken'
    BY <1>4, <2>2, <2>3 DEF ActivateCase, DraftHasNoFinal, SnapshotTaken, Case
  <2> QED
    BY <2>5, <2>7, <2>8, <2>9, <2>10
<1>5. ASSUME NEW c \in Cases, CancelCase(c)
      PROVE  CaseInv'
  <2>1. ContractInv' /\ TypeOK'
    <3>1. ContractInv'
      BY <1>5 DEF CancelCase, SetCase, contractVars, ContractInv, ContractTypeOK, SeparatedWorksNowhere,
                  LeaveCanEnd
    <3>2. case' \in [Cases -> Case]
      <4>1. [case[c] EXCEPT !.status = "cancelled"] \in Case /\ case \in [Cases -> Case]
        BY DEF TypeOK, Case
      <4> QED  BY <1>5, <4>1 DEF CancelCase, SetCase
    <3> QED  BY <1>5, <3>1, <3>2 DEF CancelCase, SetCase, ContractInv, TypeOK
  <2>2. OneOpenCase' /\ ApprovalIsWhole'
    BY <1>5 DEF CancelCase, SetCase, contractVars, TypeOK, Case, OneOpenCase, ApprovalIsWhole
  <2>3. FirstPaymentOnce' /\ DraftHasNoFinal' /\ SnapshotTaken'
    BY <1>5 DEF CancelCase, SetCase, TypeOK, Case, FirstPaymentOnce, DraftHasNoFinal,
                SnapshotTaken
  <2> QED
    BY <2>1, <2>2, <2>3
<1> QED
  BY <1>1, <1>2, <1>3, <1>4, <1>5 DEF CaseRequest

\* A survivor request keeps the invariant of the cases.
LEMMA SurvivorRequestKeeps ==
    ASSUME CaseInv, SurvivorRequest
    PROVE  CaseInv'
<1>1. ContractInv'
  BY DEF CaseInv, SurvivorRequest, CreateElection, InitiateSurvivorPayments, contractVars,
         ContractInv, ContractTypeOK, SeparatedWorksNowhere, LeaveCanEnd
<1>2. TypeOK'
  <2>1. ASSUME NEW d \in Dates, NEW o \in Options, CreateElection(o, d)
        PROVE  TypeOK'
    BY <1>1, <2>1 DEF CaseInv, ContractInv, TypeOK, CreateElection, RecordElection
  <2>2. ASSUME NEW d \in Dates, InitiateSurvivorPayments(d)
        PROVE  TypeOK'
    BY <1>1, <2>2 DEF CaseInv, ContractInv, TypeOK, InitiateSurvivorPayments,
                      SurvivorPayments
  <2> QED
    BY <2>1, <2>2 DEF SurvivorRequest
<1>3. ApprovalIsWhole'
  BY DEF CaseInv, SurvivorRequest, CreateElection, InitiateSurvivorPayments,
         RecordElection, contractVars, ApprovalIsWhole
<1>4. /\ OneOpenCase' /\ FirstPaymentOnce'
      /\ DraftHasNoFinal' /\ SnapshotTaken'
  BY DEF CaseInv, SurvivorRequest, CreateElection, InitiateSurvivorPayments,
         OneOpenCase, FirstPaymentOnce, DraftHasNoFinal, SnapshotTaken
<1> QED
  BY <1>1, <1>2, <1>3, <1>4 DEF CaseInv

\* Every reachable state satisfies the invariant of the cases.
LEMMA CaseInvariance == Spec => []CaseInv
<1>1. Init => CaseInv
  BY ContractAssumption
  DEF Init, ContractInit, CaseInv, ContractInv, ContractTypeOK, SeparatedWorksNowhere,
      LeaveCanEnd, TypeOK, Case, NoCase, Options, OneOpenCase, ApprovalIsWhole,
      FirstPaymentOnce, DraftHasNoFinal, SnapshotTaken
<1>2. CaseInv /\ [Next]_memberVars => CaseInv'
  <2> SUFFICES ASSUME CaseInv, [Next]_memberVars PROVE CaseInv'
    OBVIOUS
  <2>1. CASE UNCHANGED memberVars
    BY <2>1
    DEF memberVars, contractVars, caseVars, CaseInv, ContractInv, ContractTypeOK,
        SeparatedWorksNowhere, LeaveCanEnd, TypeOK, OneOpenCase, ApprovalIsWhole,
        FirstPaymentOnce, DraftHasNoFinal, SnapshotTaken
  <2> QED
    BY <2>1, ContractStepKeeps, CaseRequestKeeps, SurvivorRequestKeeps DEF Next
<1> QED
  BY <1>1, <1>2, PTL DEF Spec

\* The columns of the member, the cases and what they create keep their types
\* for any cases and dates.
THEOREM TypeCorrect == Spec => []TypeOK
BY CaseInvariance, PTL DEF CaseInv

\* A separated member has no open employment, however many were held at once.
THEOREM Separation == Spec => []SeparatedWorksNowhere
BY CaseInvariance, PTL DEF CaseInv, ContractInv

\* A member put on leave has an open leave to return from, whatever leaves
\* ended employments have left open.
THEOREM LeaveIsNotATrap == Spec => []LeaveCanEnd
BY CaseInvariance, PTL DEF CaseInv, ContractInv

\* Requests that run one after another open one case of a member at most.
THEOREM OneCaseAtATime == Spec => []OneOpenCase
BY CaseInvariance, PTL DEF CaseInv

\* An approved case stands on its election and on an annuitant, although the
\* member can be made annuitant, or recorded dead, without any case.
THEOREM ApprovalsAreWhole == Spec => []ApprovalIsWhole
BY CaseInvariance, PTL DEF CaseInv

\* An activation, and nothing else, creates the first annuity payment.
THEOREM ActivatedOnce == Spec => []FirstPaymentOnce
BY CaseInvariance, PTL DEF CaseInv

\* No request takes a member out of annuity, and none writes the contract of a
\* deceased member, begin_annuity by way of an approval included.
THEOREM NoWayBack == Spec => EndsAreFinal
<1>1. [Next]_memberVars
      => [/\ status = "annuitant" => status' \in {"annuitant", "deceased"}
          /\ status = "deceased" => UNCHANGED contractVars]_contractVars
  <2> SUFFICES ASSUME [Next]_memberVars, contractVars' # contractVars
               PROVE  /\ status = "annuitant" => status' \in {"annuitant", "deceased"}
                      /\ status = "deceased" => UNCHANGED contractVars
    OBVIOUS
  <2>1. CASE ContractStep
    BY <2>1, EndsStayEnds DEF ContractStep
  <2>2. CASE CaseRequest
    <3>1. PICK c \in Cases : ApproveCase(c)
      BY <2>2 DEF CaseRequest, CreateCase, Recalculate, ActivateCase, CancelCase
    <3> QED
      BY <3>1 DEF ApproveCase, BeginAnnuity, Allowed, AllowedFrom
  <2>3. CASE SurvivorRequest
    BY <2>3 DEF SurvivorRequest, CreateElection, InitiateSurvivorPayments
  <2> QED
    BY <2>1, <2>2, <2>3 DEF Next, memberVars
<1> QED
  BY <1>1, PTL DEF Spec, EndsAreFinal

\* The annuity of a case that was ever approved is never recalculated.
THEOREM AmountsAreLocked == Spec => ApprovedAmountsAreLocked
<1>1. CaseInv /\ [Next]_memberVars
      => [\A c \in Cases : case[c].final # NotSet =>
             /\ case'[c].final = case[c].final
             /\ case'[c].snapshot = case[c].snapshot]_memberVars
  <2> SUFFICES ASSUME CaseInv, Next, NEW c \in Cases, case[c].final # NotSet
               PROVE  /\ case'[c].final = case[c].final
                      /\ case'[c].snapshot = case[c].snapshot
    OBVIOUS
  <2>1. case[c].status \notin {"absent", "draft"} /\ case \in [Cases -> Case]
    BY DEF CaseInv, DraftHasNoFinal, TypeOK
  <2>2. CASE CaseRequest
    BY <2>1, <2>2 DEF CaseRequest, CreateCase, Recalculate, ApproveCase, ActivateCase,
                      CancelCase, SetCase, Case
  <2>3. CASE ContractStep \/ SurvivorRequest
    BY <2>3 DEF ContractStep, caseVars, SurvivorRequest, CreateElection,
                InitiateSurvivorPayments
  <2> QED
    BY <2>2, <2>3 DEF Next
<1> QED
  BY <1>1, CaseInvariance, PTL DEF Spec, ApprovedAmountsAreLocked
-----------------------------------------------------------------------------
(* Least naturals and quotients *)

\* A set of naturals has a least one.
LEMMA LeastNatural ==
    ASSUME NEW T \in SUBSET Nat, T # {}
    PROVE  \E k \in T : \A j \in T : k <= j
<1>1. PICK n \in T : TRUE
  OBVIOUS
<1> DEFINE I == 0..n
           Bad == {0..k : k \in {j \in T : j <= n}}
<1>2. IsFiniteSet(I)
  BY FS_Interval
<1>3. Bad \in SUBSET SUBSET I /\ Bad # {}
  OBVIOUS
<1> HIDE DEF Bad, I
<1>4. PICK m \in Bad : \A u \in Bad : u \subseteq m => u = m
  BY <1>2, <1>3, SmallestSet
<1> USE DEF Bad
<1>5. PICK k \in T : k <= n /\ m = 0..k
  OBVIOUS
<1>6. ASSUME NEW j \in T, j < k
      PROVE  FALSE
  <2>1. 0..j \in Bad /\ 0..j \subseteq m /\ k \in m /\ k \notin 0..j
    BY <1>5, <1>6
  <2> QED  BY <1>4, <2>1
<1> QED  BY <1>6

\* A set with 0 and every successor holds all naturals.
LEMMA NaturalInduction ==
    ASSUME NEW S, 0 \in S, \A i \in Nat : i \in S => i + 1 \in S
    PROVE  Nat \subseteq S
<1>1. CASE Nat \ S = {}
  BY <1>1
<1>2. CASE Nat \ S # {}
  <2>1. PICK k \in Nat \ S : \A j \in Nat \ S : k <= j
    BY <1>2, LeastNatural
  <2>2. k # 0 /\ k - 1 \in Nat /\ k - 1 \in S
    BY <2>1
  <2> QED  BY <2>1, <2>2
<1> QED  BY <1>1, <1>2

\* What a quotient rounded down means.
LEMMA DivisionFacts ==
    ASSUME NEW a \in Int, NEW d \in Nat \ {0}
    PROVE  /\ a \div d \in Int
           /\ d * (a \div d) <= a
           /\ a < d * (a \div d) + d
OBVIOUS

\* A quotient is bounded by what its dividend is bounded by.
LEMMA QuotientBounds ==
    ASSUME NEW a \in Int, NEW d \in Nat \ {0}, NEW k \in Int
    PROVE  /\ a >= d * k => a \div d >= k
           /\ a < d * k + d => a \div d <= k
<1> DEFINE q == a \div d
<1>1. q \in Int /\ d * q <= a /\ a < d * q + d
  BY DivisionFacts
<1> HIDE DEF q
<1>2. ASSUME a >= d * k, q < k PROVE FALSE
  <2>1. q + 1 <= k
    BY <1>1, <1>2
  <2>2. d * (q + 1) <= d * k
    BY <1>1, <2>1
  <2> QED  BY <1>1, <1>2, <2>2
<1>3. ASSUME a < d * k + d, q > k PROVE FALSE
  <2>1. k + 1 <= q
    BY <1>1, <1>3
  <2>2. d * (k + 1) <= d * q
    BY <1>1, <2>1
  <2> QED  BY <1>1, <1>3, <2>2
<1>4. (a >= d * k => q >= k) /\ (a < d * k + d => q <= k)
  BY <1>1, <1>2, <1>3
<1> QED  BY <1>4 DEF q
-----------------------------------------------------------------------------
(* Bands of service *)

\* The recursion of ApplyBands on the first n bands, and what it computes.
Fills(f, q, bands, n) ==
    f = [i \in 0..n |-> IF i = 0 THEN q
                        ELSE IF bands[i].years = Never THEN 0
                        ELSE AtLeast(0, f[i - 1] - bands[i].years * Quarters)]

Left(q, bands) == CHOOSE f : Fills(f, q, bands, Len(bands))

\* The weights ApplyBands adds up.
Priced(f, bands) == [i \in DOMAIN bands |-> (f[i - 1] - f[i]) * bands[i].rate]

\* ApplyBands adds up what falls into each band, at its rate.
LEMMA ApplyBandsIsSum ==
    ASSUME NEW q, NEW bands
    PROVE  ApplyBands(q, bands) = SumFunction(Priced(Left(q, bands), bands))
BY DEF ApplyBands, Priced, Left, Fills

\* The recursion exists,
LEMMA FillsExists ==
    ASSUME NEW q, NEW bands, NEW n \in Nat
    PROVE  \E f : Fills(f, q, bands, n)
<1> DEFINE S == {m \in Nat : \E f : Fills(f, q, bands, m)}
<1>1. 0 \in S
  <2> DEFINE f == [i \in 0..0 |-> q]
  <2>1. Fills(f, q, bands, 0)
    BY DEF Fills
  <2> QED  BY <2>1
<1>2. ASSUME NEW m \in Nat, m \in S
      PROVE  m + 1 \in S
  <2>1. PICK f : Fills(f, q, bands, m)
    BY <1>2
  <2> DEFINE next == IF bands[m + 1].years = Never THEN 0
                     ELSE AtLeast(0, f[m] - bands[m + 1].years * Quarters)
             g == [i \in 0..m + 1 |-> IF i = m + 1 THEN next ELSE f[i]]
  <2>2. \A i \in 0..m : g[i] = f[i]
    OBVIOUS
  <2>3. g[m + 1] = next /\ g = [i \in 0..m + 1 |-> g[i]]
    OBVIOUS
  <2>4. \A i \in 0..m : f[i] = IF i = 0 THEN q
                               ELSE IF bands[i].years = Never THEN 0
                               ELSE AtLeast(0, f[i - 1] - bands[i].years * Quarters)
    BY <2>1 DEF Fills
  <2> HIDE DEF g
  <2>5. \A i \in 0..m + 1 : g[i] = IF i = 0 THEN q
                                   ELSE IF bands[i].years = Never THEN 0
                                   ELSE AtLeast(0, g[i - 1] - bands[i].years * Quarters)
    <3> TAKE i \in 0..m + 1
    <3>1. CASE i = m + 1
      <4>1. g[i - 1] = f[m] /\ i # 0
        BY <2>2, <3>1
      <4> QED  BY <2>3, <3>1, <4>1
    <3>2. CASE i # m + 1
      <4>1. i \in 0..m /\ (i # 0 => i - 1 \in 0..m)
        BY <3>2
      <4> QED  BY <2>2, <2>4, <4>1
    <3> QED  BY <3>1, <3>2
  <2>6. Fills(g, q, bands, m + 1)
    BY <2>3, <2>5 DEF Fills
  <2> QED  BY <2>6
<1> HIDE DEF S
<1>3. Nat \subseteq S
  BY <1>1, <1>2, NaturalInduction
<1> QED  BY <1>3 DEF S

\* The columns of a list of bands.
LEMMA BandColumns ==
    ASSUME NEW bands \in Bands
    PROVE  /\ Len(bands) \in Nat /\ DOMAIN bands = 1..Len(bands)
           /\ \A i \in 1..Len(bands) : /\ bands[i].years \in Nat \cup {Never}
                                       /\ bands[i].rate \in Nat
<1> DEFINE Row == [years : Nat \cup {Never}, rate : Nat]
<1>1. bands \in Seq(Row)
  BY DEF Bands
<1>2. \A row \in Row : row.years \in Nat \cup {Never} /\ row.rate \in Nat
  OBVIOUS
<1> HIDE DEF Row
<1>3. Len(bands) \in Nat /\ DOMAIN bands = 1..Len(bands) /\ \A i \in 1..Len(bands) : bands[i] \in Row
  BY <1>1
<1> QED  BY <1>2, <1>3

\* and computes natural numbers.
Fill(f, q, bands) ==
    /\ f[0] = q
    /\ \A i \in 0..Len(bands) : f[i] \in Nat
    /\ \A i \in 1..Len(bands) :
          f[i] = IF bands[i].years = Never THEN 0
                 ELSE AtLeast(0, f[i - 1] - bands[i].years * Quarters)

\* What is left after each band goes down from all of the service.
LEMMA LeftIsNatural ==
    ASSUME NEW q \in Nat, NEW bands \in Bands
    PROVE  Fill(Left(q, bands), q, bands)
<1> DEFINE f == Left(q, bands)
           n == Len(bands)
           S == {i \in Nat : i <= n => f[i] \in Nat}
<1>1. n \in Nat /\ \A i \in 1..n : bands[i].years \in Nat \cup {Never}
  BY BandColumns
<1>2. Fills(f, q, bands, n)
  BY <1>1, FillsExists DEF Left
<1> HIDE DEF f, n
<1>3. /\ f[0] = q
      /\ \A i \in 1..n : f[i] = IF bands[i].years = Never THEN 0
                                ELSE AtLeast(0, f[i - 1] - bands[i].years * Quarters)
  BY <1>1, <1>2 DEF Fills
<1>4. 0 \in S
  BY <1>3
<1>5. ASSUME NEW i \in Nat, i \in S
      PROVE  i + 1 \in S
  <2>1. CASE i + 1 <= n
    <3>1. f[i] \in Nat /\ i + 1 \in 1..n /\ (i + 1) - 1 = i
      BY <1>1, <1>5, <2>1
    <3>2. f[i + 1] \in {0, AtLeast(0, f[i] - bands[i + 1].years * Quarters)}
      BY <1>3, <3>1
    <3>3. CASE bands[i + 1].years \in Nat
      BY <3>1, <3>2, <3>3 DEF AtLeast, Quarters
    <3>4. CASE bands[i + 1].years = Never
      BY <1>3, <3>1, <3>4
    <3> QED  BY <1>1, <3>1, <3>3, <3>4
  <2>2. CASE ~(i + 1 <= n)
    BY <2>2
  <2> QED  BY <2>1, <2>2
<1> HIDE DEF S
<1>6. Nat \subseteq S
  BY <1>4, <1>5, NaturalInduction
<1>7. \A i \in 0..n : f[i] \in Nat
  BY <1>1, <1>6 DEF S
<1> QED  BY <1>3, <1>7 DEF f, n, Fill

\* Where each band ends, as in RateOf.
Ends(q, bands) ==
    [i \in DOMAIN bands |->
        IF \E j \in 1..i : bands[j].years = Never THEN q
        ELSE Quarters * SumFunction([j \in 1..i |-> bands[j].years])]

Over(q, bands) == {i \in DOMAIN bands : Ends(q, bands)[i] >= q}

\* RateOf names the first band that reaches up to a quarter.
LEMMA RateOfIs ==
    ASSUME NEW q, NEW bands
    PROVE  RateOf(q, bands) = IF Over(q, bands) = {} THEN 0 ELSE bands[Min(Over(q, bands))].rate
BY DEF RateOf, Over, Ends

\* Years up to a band, one band more.
YearsTo(bands, i) == SumFunction([j \in 1..i |-> bands[j].years])

\* The years up to a band are those before it and its own.
LEMMA YearsToNext ==
    ASSUME NEW bands, NEW i \in Nat, \A j \in 1..i + 1 : bands[j].years \in Nat
    PROVE  /\ YearsTo(bands, 0) = 0
           /\ YearsTo(bands, i) \in Int
           /\ YearsTo(bands, i + 1) = YearsTo(bands, i) + bands[i + 1].years
<1> DEFINE w == [j \in 1..i + 1 |-> bands[j].years]
           v == [j \in 1..i |-> bands[j].years]
           e == [j \in 1..0 |-> bands[j].years]
           I == 1..i
<1>1. YearsTo(bands, i + 1) = SumFunctionOnSet(w, 1..i + 1) /\ YearsTo(bands, i) = SumFunctionOnSet(v, I)
      /\ YearsTo(bands, 0) = SumFunctionOnSet(e, {})
  <2>1. DOMAIN w = 1..i + 1 /\ DOMAIN v = I /\ DOMAIN e = {}
    OBVIOUS
  <2>2. YearsTo(bands, i + 1) = SumFunction(w) /\ YearsTo(bands, i) = SumFunction(v)
        /\ YearsTo(bands, 0) = SumFunction(e)
    BY DEF YearsTo
  <2> HIDE DEF w, v, e, I
  <2> QED  BY <2>1, <2>2 DEF SumFunction
<1>2. (\A j \in I \cup {i + 1} : w[j] \in Int) /\ w[i + 1] = bands[i + 1].years /\ \A j \in I : v[j] = w[j]
  OBVIOUS
<1>3. 1..i + 1 = I \cup {i + 1} /\ i + 1 \notin I
  OBVIOUS
<1>4. IsFiniteSet(I)
  BY FS_Interval
<1> HIDE DEF w, v, I, e
<1>5. /\ SumFunctionOnSet(w, I \cup {i + 1}) = SumFunctionOnSet(w, I) + w[i + 1]
      /\ SumFunctionOnSet(w, I) \in Int
  BY <1>2, <1>3, <1>4, AddOne
<1>6. SumFunctionOnSet(v, I) = SumFunctionOnSet(w, I)
  BY <1>2, <1>4, SumIsLocal
<1>7. SumFunctionOnSet(e, {}) = 0
  BY EmptySum
<1> QED  BY <1>1, <1>2, <1>3, <1>5, <1>6, <1>7

\* Two fillings, of q and of q - 1, are the same up to the band q falls in;
\* while they are not full they differ by one,
OneLess(f, g, i) == f[i - 1] - f[i] = g[i - 1] - g[i]

Filling(f, g, q, bands, i) ==
    /\ f[i] = q - Quarters * YearsTo(bands, i) /\ f[i] = g[i] + 1
    /\ \A j \in 1..i : bands[j].years # Never /\ ~(Ends(q, bands)[j] >= q) /\ OneLess(f, g, j)

\* and from there on both are.
Filled(f, g, q, bands, i, k) ==
    /\ f[i] = 0 /\ g[i] = 0
    /\ k \in 1..i /\ Ends(q, bands)[k] >= q
    /\ f[k - 1] - f[k] = g[k - 1] - g[k] + 1
    /\ \A j \in 1..i : (j < k => ~(Ends(q, bands)[j] >= q)) /\ (j # k => OneLess(f, g, j))

\* One band: filled alike, or one quarter less falls into it.
LEMMA FillingNext ==
    ASSUME NEW q \in Nat \ {0}, NEW bands \in Bands, NEW f, NEW g,
           Fill(f, q, bands), Fill(g, q - 1, bands),
           NEW i \in Nat, i + 1 \in 1..Len(bands), Filling(f, g, q, bands, i)
    PROVE  Filling(f, g, q, bands, i + 1) \/ Filled(f, g, q, bands, i + 1, i + 1)
<1> DEFINE e == Ends(q, bands)
           k == i + 1
           y == bands[k].years
<1>1. /\ f[k] = IF y = Never THEN 0 ELSE AtLeast(0, f[i] - y * 4)
      /\ g[k] = IF y = Never THEN 0 ELSE AtLeast(0, g[i] - y * 4)
      /\ f[i] \in Nat /\ g[i] \in Nat
  <2>1. k \in 1..Len(bands) /\ i \in 0..Len(bands) /\ k - 1 = i
    BY BandColumns
  <2> HIDE DEF k
  <2> QED  BY <2>1 DEF Fill, Quarters
<1>2. \A j \in 1..i : bands[j].years # Never /\ ~(e[j] >= q) /\ OneLess(f, g, j)
  BY DEF Filling
<1>3. f[i] = q - 4 * YearsTo(bands, i) /\ f[i] = g[i] + 1
  BY DEF Filling, Quarters
<1>4. y \in Nat \cup {Never} /\ \A j \in 1..i : bands[j].years \in Nat
  BY <1>2, BandColumns
<1>5. CASE y = Never
  <2>1. f[k] = 0 /\ g[k] = 0
    BY <1>1, <1>5
  <2>2. e[k] = q
    BY <1>5, BandColumns DEF Ends
  <2> HIDE DEF e
  <2>3. Filled(f, g, q, bands, k, k)
    BY <1>1, <1>2, <1>3, <2>1, <2>2 DEF Filled, e
  <2> QED  BY <2>3
<1>6. CASE y \in Nat
  <2>1. \A j \in 1..k : bands[j].years \in Nat
    BY <1>4, <1>6
  <2>2. YearsTo(bands, k) = YearsTo(bands, i) + y /\ YearsTo(bands, i) \in Int
    BY <2>1, YearsToNext
  <2>3. e[k] = 4 * YearsTo(bands, k)
    <3>1. \A j \in 1..k : bands[j].years # Never
      BY <2>1, CalendarAssumption
    <3> QED  BY <3>1, BandColumns DEF Ends, YearsTo, Quarters
  <2>4. y # Never
    BY <1>6, CalendarAssumption
  <2> DEFINE a == f[i]  b == g[i]  z == YearsTo(bands, i)
  <2>5. /\ a \in Nat /\ b \in Nat /\ z \in Int /\ a = q - 4 * z /\ a = b + 1
        /\ f[k] = AtLeast(0, a - y * 4) /\ g[k] = AtLeast(0, b - y * 4)
        /\ e[k] = 4 * (z + y)
    BY <1>1, <1>3, <2>2, <2>3, <2>4
  <2>6. CASE a - y * 4 >= 1
    <3> HIDE DEF a, b, z, y, e
    <3>1. f[k] = a - y * 4 /\ g[k] = b - y * 4 /\ ~(e[k] >= q) /\ f[k] = g[k] + 1 /\ f[k] = q - 4 * (z + y)
      BY <1>6, <2>5, <2>6 DEF AtLeast
    <3>2. a - f[k] = b - g[k]
      BY <1>6, <2>5, <3>1
    <3>3. f[k] = q - Quarters * YearsTo(bands, k)
      BY <2>2, <3>1 DEF z, Quarters
    <3>4. OneLess(f, g, k)
      BY <3>2 DEF OneLess, a, b
    <3>5. Filling(f, g, q, bands, k)
      BY <1>2, <2>4, <3>1, <3>3, <3>4 DEF Filling, e, y
    <3> QED  BY <3>5
  <2>7. CASE ~(a - y * 4 >= 1)
    <3> HIDE DEF a, b, z, y, e
    <3>1. f[k] = 0 /\ g[k] = 0 /\ e[k] >= q /\ a - f[k] = b - g[k] + 1
      BY <1>6, <2>5, <2>7 DEF AtLeast
    <3>2. Filled(f, g, q, bands, k, k)
      BY <1>2, <3>1 DEF Filled, e, a, b
    <3> QED  BY <3>2
  <2> QED  BY <2>6, <2>7
<1> QED  BY <1>4, <1>5, <1>6

\* The bands up to one more.
LEMMA FilledNext ==
    ASSUME NEW q \in Nat \ {0}, NEW bands \in Bands, NEW f, NEW g,
           Fill(f, q, bands), Fill(g, q - 1, bands),
           NEW i \in Nat, i + 1 \in 1..Len(bands), NEW k, Filled(f, g, q, bands, i, k)
    PROVE  Filled(f, g, q, bands, i + 1, k)
<1> DEFINE n == i + 1
           y == bands[n].years
<1>0. n \in 1..Len(bands) /\ n - 1 = i
  OBVIOUS
<1>1. n \in 1..Len(bands) /\ n - 1 = i /\ y \in Nat \cup {Never}
  <2> HIDE DEF n
  <2> QED  BY <1>0, BandColumns
<1>2. /\ f[n] = IF y = Never THEN 0 ELSE AtLeast(0, f[i] - y * 4)
      /\ g[n] = IF y = Never THEN 0 ELSE AtLeast(0, g[i] - y * 4)
  <2> HIDE DEF n
  <2> QED  BY <1>1 DEF Fill, Quarters
<1>3. f[n] = 0 /\ g[n] = 0
  BY <1>1, <1>2 DEF Filled, AtLeast
<1>4. OneLess(f, g, n)
  BY <1>1, <1>3 DEF Filled, OneLess
<1>5. k \in 1..i
  BY DEF Filled
<1> HIDE DEF y
<1>6. k \in 1..n /\ ~(n < k) /\ k \in Int /\ n \in Int /\ \A j \in 1..n : j \in Int /\ (j \in 1..i \/ j = n)
  BY <1>5
<1> HIDE DEF n
<1>7. \A j \in 1..n : (j < k => ~(Ends(q, bands)[j] >= q)) /\ (j # k => OneLess(f, g, j))
  BY <1>4, <1>6 DEF Filled
<1>8. Filled(f, g, q, bands, n, k)
  BY <1>3, <1>6, <1>7 DEF Filled
<1> QED  BY <1>8 DEF n

\* What all the bands add up to, with a quarter more.
LEMMA BandsFill ==
    ASSUME NEW q \in Nat \ {0}, NEW bands \in Bands, NEW f, NEW g,
           Fill(f, q, bands), Fill(g, q - 1, bands)
    PROVE  \/ Filling(f, g, q, bands, Len(bands))
           \/ \E k : Filled(f, g, q, bands, Len(bands), k)
<1> DEFINE n == Len(bands)
           Stage(i) == Filling(f, g, q, bands, i) \/ \E k : Filled(f, g, q, bands, i, k)
           S == {i \in Nat : i <= n => Stage(i)}
<1>1. n \in Nat
  <2> HIDE DEF S, Stage
  <2> QED  BY BandColumns
<1>2. 0 \in S
  <2>1. YearsTo(bands, 0) = 0
    <3> DEFINE e == [j \in 1..0 |-> bands[j].years]
    <3>1. YearsTo(bands, 0) = SumFunction(e) /\ DOMAIN e = {}
      BY DEF YearsTo
    <3> HIDE DEF e
    <3> QED  BY <3>1, EmptySum DEF SumFunction
  <2>2. f[0] = q /\ g[0] = q - 1
    BY DEF Fill
  <2>3. Filling(f, g, q, bands, 0)
    BY <2>1, <2>2 DEF Filling, Quarters
  <2> QED  BY <2>3
<1>3. ASSUME NEW i \in Nat, i \in S
      PROVE  i + 1 \in S
  <2>1. CASE i + 1 <= n
    <3>1. Stage(i) /\ i + 1 \in 1..Len(bands)
      BY <1>1, <1>3, <2>1
    <3>2. Stage(i + 1)
      BY <3>1, FillingNext, FilledNext
    <3> QED  BY <3>2
  <2>2. CASE ~(i + 1 <= n)
    BY <2>2
  <2> QED  BY <2>1, <2>2
<1> HIDE DEF S
<1>4. Nat \subseteq S
  BY <1>2, <1>3, NaturalInduction
<1> QED  BY <1>1, <1>4 DEF S

\* The first band that reaches up to a quarter is the least of them.
LEMMA FilledIsMin ==
    ASSUME NEW q \in Nat \ {0}, NEW bands \in Bands, NEW f, NEW g, NEW k,
           Filled(f, g, q, bands, Len(bands), k)
    PROVE  Over(q, bands) # {} /\ Min(Over(q, bands)) = k
<1> DEFINE over == Over(q, bands)
           n == Len(bands)
<1>1. k \in 1..n /\ Ends(q, bands)[k] >= q /\ \A j \in 1..n : j < k => ~(Ends(q, bands)[j] >= q)
  BY DEF Filled
<1>2. n \in Nat /\ over = {i \in 1..n : Ends(q, bands)[i] >= q}
  BY BandColumns DEF Over
<1> HIDE DEF over, n
<1>3. k \in over /\ \A j \in over : k <= j
  BY <1>1, <1>2
<1>4. over \subseteq Int /\ Min(over) \in over /\ \A j \in over : Min(over) <= j
  BY <1>2, <1>3 DEF Min
<1> QED  BY <1>3, <1>4 DEF over

\* A quarter more adds the rate of its band.
LEMMA MarginalRate ==
    ASSUME NEW q \in Nat \ {0}, NEW bands \in Bands
    PROVE  ApplyBands(q, bands) = ApplyBands(q - 1, bands) + RateOf(q, bands)
<1> DEFINE f == Left(q, bands)
           g == Left(q - 1, bands)
           n == Len(bands)
           v == Priced(f, bands)
           w == Priced(g, bands)
           I == DOMAIN bands
<1>1. I = 1..n /\ n \in Nat /\ IsFiniteSet(I)
  BY BandColumns, FS_Interval
<1>2. Fill(f, q, bands) /\ Fill(g, q - 1, bands)
  BY LeftIsNatural
<1>3. /\ ApplyBands(q, bands) = SumFunctionOnSet(v, I)
      /\ ApplyBands(q - 1, bands) = SumFunctionOnSet(w, I)
  BY ApplyBandsIsSum DEF Priced, SumFunction
<1> HIDE DEF f, g
<1>4. \A i \in I : /\ f[i] \in Int /\ f[i - 1] \in Int /\ g[i] \in Int /\ g[i - 1] \in Int
                   /\ bands[i].rate \in Int
                   /\ v[i] = (f[i - 1] - f[i]) * bands[i].rate
                   /\ w[i] = (g[i - 1] - g[i]) * bands[i].rate
  BY <1>1, <1>2, BandColumns DEF Fill, Priced
<1>5. \A i \in I : v[i] \in Int /\ w[i] \in Int
  BY <1>4
<1> HIDE DEF v, w, I, n
<1>6. CASE Filling(f, g, q, bands, Len(bands))
  <2>1. \A i \in I : v[i] = w[i]
    BY <1>1, <1>4, <1>6 DEF Filling, OneLess, n
  <2>2. Over(q, bands) = {}
    BY <1>1, <1>6 DEF Filling, Over, n, I
  <2>3. SumFunctionOnSet(v, I) = SumFunctionOnSet(w, I) /\ SumFunctionOnSet(w, I) \in Int
    BY <1>1, <1>5, <2>1, SumIsLocal, SumOfIntegers
  <2> QED  BY <1>3, <2>2, <2>3, RateOfIs
<1>7. ASSUME NEW k, Filled(f, g, q, bands, Len(bands), k)
      PROVE  ApplyBands(q, bands) = ApplyBands(q - 1, bands) + RateOf(q, bands)
  <2>1. RateOf(q, bands) = bands[k].rate
    BY <1>7, FilledIsMin, RateOfIs
  <2>2. k \in I /\ f[k - 1] - f[k] = g[k - 1] - g[k] + 1
    BY <1>1, <1>7 DEF Filled, n
  <2>3. \A i \in I \ {k} : v[i] = w[i]
    BY <1>1, <1>4, <1>7 DEF Filled, OneLess, n
  <2>4. v[k] = w[k] + bands[k].rate
    <3> DEFINE a == f[k - 1] - f[k]  b == g[k - 1] - g[k]  r == bands[k].rate
    <3>1. a = b + 1 /\ b \in Int /\ r \in Int /\ v[k] = a * r /\ w[k] = b * r
      BY <1>4, <2>2
    <3> HIDE DEF a, b, r
    <3>2. (b + 1) * r = b * r + r
      BY <3>1
    <3>3. v[k] = w[k] + r
      BY <3>1, <3>2
    <3> QED  BY <3>3 DEF r
  <2>5. IsFiniteSet(I \ {k}) /\ SumFunctionOnSet(v, I \ {k}) = SumFunctionOnSet(w, I \ {k})
        /\ SumFunctionOnSet(w, I \ {k}) \in Int
    <3> DEFINE J == I \ {k}
    <3>1. IsFiniteSet(J) /\ \A i \in J : v[i] = w[i] /\ w[i] \in Int
      BY <1>1, <1>5, <2>3, FS_Subset
    <3> HIDE DEF J
    <3>2. SumFunctionOnSet(v, J) = SumFunctionOnSet(w, J) /\ SumFunctionOnSet(w, J) \in Int
      BY <3>1, SumIsLocal, SumOfIntegers
    <3> QED  BY <3>1, <3>2 DEF J
  <2>6. /\ SumFunctionOnSet(v, I) = v[k] + SumFunctionOnSet(v, I \ {k})
        /\ SumFunctionOnSet(w, I) = w[k] + SumFunctionOnSet(w, I \ {k})
    <3>1. IsFiniteSet(I) /\ k \in I /\ (\A i \in I : v[i] \in Int) /\ (\A i \in I : w[i] \in Int)
      BY <1>1, <1>5, <2>2
    <3> QED  BY <3>1, TakeOut
  <2>7. v[k] \in Int /\ w[k] \in Int /\ bands[k].rate \in Int
    BY <1>4, <1>5, <2>2
  <2> DEFINE x == SumFunctionOnSet(w, I \ {k})  r == bands[k].rate
  <2>8. SumFunctionOnSet(v, I) = v[k] + x /\ SumFunctionOnSet(w, I) = w[k] + x /\ x \in Int
        /\ v[k] = w[k] + r /\ r \in Int
    BY <2>4, <2>5, <2>6, <2>7
  <2> HIDE DEF x, r
  <2> DEFINE vk == v[k]  wk == w[k]  sv == SumFunctionOnSet(v, I)  sw == SumFunctionOnSet(w, I)
  <2>10. sv = vk + x /\ sw = wk + x /\ vk = wk + r /\ vk \in Int /\ wk \in Int
    BY <2>7, <2>8
  <2> HIDE DEF vk, wk, sv, sw
  <2>11. sv = sw + r
    BY <2>8, <2>10
  <2>9. SumFunctionOnSet(v, I) = SumFunctionOnSet(w, I) + r
    BY <2>11 DEF sv, sw
  <2> QED  BY <1>3, <2>1, <2>9 DEF r
<1> QED  BY <1>2, <1>6, <1>7, BandsFill
-----------------------------------------------------------------------------
(* Service *)

\* A quotient rounded half up.
LEMMA RoundIsNatural ==
    ASSUME NEW num \in Nat, NEW den \in Nat \ {0}
    PROVE  RoundHalfUp(num, den) \in Nat
<1> DEFINE a == 2 * num + den  d == 2 * den
<1>1. a \in Int /\ a >= d * 0 /\ d \in Nat \ {0}
  OBVIOUS
<1> HIDE DEF a, d
<1>2. a \div d \in Int /\ a \div d >= 0
  BY <1>1, DivisionFacts, QuotientBounds
<1>3. RoundHalfUp(num, den) = a \div d
  BY DEF RoundHalfUp, a, d
<1> QED  BY <1>2, <1>3

\* The step of a table that some days reach is worth whole quarters.
LEMMA StepIsNatural ==
    ASSUME NEW days \in Nat, NEW table \in Seq([days : Nat, credit : Nat])
    PROVE  StepCredit(days, table) \in Nat
<1> DEFINE Row == [days : Nat, credit : Nat]
           steps == {i \in DOMAIN table : days >= table[i].days}
<1>1. \A row \in Row : row.credit \in Nat
  OBVIOUS
<1>2. steps \in SUBSET Nat /\ \A i \in steps : table[i] \in Row
  <2> HIDE DEF Row
  <2>1. table \in Seq(Row)
    BY DEF Row
  <2>2. Len(table) \in Nat /\ DOMAIN table = 1..Len(table) /\ \A i \in 1..Len(table) : table[i] \in Row
    BY <2>1
  <2> QED  BY <2>2
<1> HIDE DEF Row
<1>3. CASE steps = {}
  BY <1>3 DEF StepCredit
<1>4. CASE steps # {}
  <2> DEFINE first == CHOOSE i \in steps : \A j \in steps : i <= j
  <2>1. StepCredit(days, table) = table[first].credit
    BY <1>4 DEF StepCredit
  <2> HIDE DEF steps
  <2>2. first \in steps
    BY <1>2, <1>4, LeastNatural
  <2> QED  BY <1>1, <1>2, <2>1, <2>2
<1> QED  BY <1>3, <1>4

\* Sick leave is worth whole quarters.
LEMMA SickIsNatural ==
    ASSUME NEW days \in Nat, NEW retirement, NEW termination, NEW c, WholeConfig(c)
    PROVE  SickLeaveCredit(days, retirement, termination, c) \in Nat
<1>1. /\ c.sickSteps \in Seq([days : Nat, credit : Nat])
      /\ c.sickDaysPerMonth \in Nat \ {0} /\ c.sickMaxCredit \in Nat
  BY DEF WholeConfig
<1>2. StepCredit(days, c.sickSteps) \in Nat
  BY <1>1, StepIsNatural
<1> DEFINE d == c.sickDaysPerMonth * 12  n == days * Quarters
<1>3. d \in Nat \ {0} /\ n \in Nat
  BY <1>1 DEF Quarters
<1> HIDE DEF d, n
<1>4. RoundHalfUp(n, d) \in Nat
  BY <1>3, RoundIsNatural
<1>5. AtMost(c.sickMaxCredit, RoundHalfUp(n, d)) \in Nat
  BY <1>1, <1>4 DEF AtMost
<1> QED  BY <1>2, <1>5 DEF SickLeaveCredit, n, d

\* Service in quarters.
LEMMA ServiceIsNatural ==
    ASSUME NEW r, NEW c, WholeRequest(r), WholeConfig(c)
    PROVE  /\ CalculateBenefit(r, c).sick = SickLeaveCredit(r.sickDays, r.retirement, r.termination, c)
           /\ CalculateBenefit(r, c).service = TotalService(r, CalculateBenefit(r, c).sick)
           /\ CalculateBenefit(r, c).sick \in Nat
           /\ CalculateBenefit(r, c).service \in Nat
<1>1. /\ CalculateBenefit(r, c).sick = SickLeaveCredit(r.sickDays, r.retirement, r.termination, c)
      /\ CalculateBenefit(r, c).service = TotalService(r, CalculateBenefit(r, c).sick)
  BY DEF CalculateBenefit
<1>2. {r.system, r.ope, r.military, r.reciprocal, r.sickDays} \subseteq Nat
  BY DEF WholeRequest
<1>3. CalculateBenefit(r, c).sick \in Nat
  BY <1>1, <1>2, SickIsNatural
<1> QED  BY <1>1, <1>2, <1>3 DEF TotalService
-----------------------------------------------------------------------------
(* What is on file and what is asked for *)

\* A finite set of integers has a greatest element.
LEMMA MaxExists ==
    ASSUME NEW S, IsFiniteSet(S), S # {}, \A x \in S : x \in Int
    PROVE  Max(S) \in S /\ \A y \in S : Max(S) >= y
<1> DEFINE Good(s) == s # {} => \E x \in s : \A y \in s : x >= y
           Bad == {s \in SUBSET S : ~Good(s)}
<1>1. CASE Bad = {}
  <2>1. \E x \in S : \A y \in S : x >= y
    BY <1>1
  <2> QED  BY <2>1 DEF Max
<1>2. CASE Bad # {}
  <2>0. Bad \in SUBSET SUBSET S
    OBVIOUS
  <2> HIDE DEF Bad, Good
  <2>1. PICK m \in Bad : \A u \in Bad : u \subseteq m => u = m
    BY <1>2, <2>0, SmallestSet
  <2> USE DEF Bad, Good
  <2>2. m \in SUBSET S /\ m # {} /\ ~\E x \in m : \A y \in m : x >= y
    OBVIOUS
  <2>3. PICK z \in m : TRUE
    BY <2>2
  <2>4. m \ {z} \in SUBSET S /\ m \ {z} # m
    BY <2>2
  <2>5. Good(m \ {z})
    <3> DEFINE k == m \ {z}
    <3>1. k \in SUBSET S /\ k \subseteq m /\ k # m
      BY <2>4
    <3> HIDE DEF k, Good
    <3>2. k \notin Bad
      BY <2>1, <3>1
    <3> QED  BY <3>1, <3>2 DEF k
  <2>6. CASE m \ {z} = {}
    BY <2>2, <2>6
  <2>7. CASE m \ {z} # {}
    <3>1. PICK x \in m \ {z} : \A y \in m \ {z} : x >= y
      BY <2>5, <2>7
    <3>2. x \in Int /\ z \in Int /\ \A y \in m : y \in Int /\ (y = z \/ x >= y)
      BY <2>2, <3>1
    <3>3. (\A y \in m : x >= y) \/ (\A y \in m : z >= y)
      BY <3>2
    <3> QED  BY <2>2, <3>1, <3>3
  <2> QED  BY <2>6, <2>7
<1> QED  BY <1>1, <1>2

\* A function has finitely many values on a finite set.
LEMMA ImageIsFinite ==
    ASSUME NEW f, NEW S, IsFiniteSet(S)
    PROVE  IsFiniteSet({f[x] : x \in S})
<1> DEFINE T == {f[x] : x \in S}
           g == [x \in S |-> f[x]]
<1>1. g \in Surjection(S, T)
  BY DEF Surjection
<1> HIDE DEF g, T
<1>2. IsFiniteSet(T)
  BY <1>1, FS_Surjection
<1> QED  BY <1>2 DEF T

\* The last employment ends on a date, or the retirement does.
LEMMA TerminationIsDate ==
    ASSUME NEW file, WholeFile(file), NEW retirement \in Int
    PROVE  TerminationOf(file, retirement) \in Int
<1> DEFINE f == [j \in file.jobs |-> j.until]
           dates == {f[j] : j \in file.jobs}
           ends == dates \ {Never}
<1>1. IsFiniteSet(file.jobs) /\ \A j \in file.jobs : j.until \in Int \cup {Never}
  BY DEF WholeFile
<1>2. TerminationOf(file, retirement) = IF ends = {} THEN retirement ELSE Max(ends)
  <2>1. dates = {j.until : j \in file.jobs}
    OBVIOUS
  <2> HIDE DEF dates
  <2> QED  BY <2>1 DEF TerminationOf
<1>3. \A x \in ends : x \in Int
  BY <1>1
<1>4. IsFiniteSet(ends)
  <2> HIDE DEF f
  <2>1. IsFiniteSet(dates)
    BY <1>1, ImageIsFinite
  <2> HIDE DEF dates
  <2> QED  BY <2>1, FS_Subset
<1> HIDE DEF ends
<1> QED  BY <1>2, <1>3, <1>4, MaxExists

\* Service credit of a slot adds up to whole quarters.
LEMMA CreditIsNatural ==
    ASSUME NEW file, WholeFile(file), NEW slot, NEW slots
    PROVE  Credit(file, slot, slots) \in Nat
<1> DEFINE E == {x \in file.credits : ~x.voided /\ SlotOf(x, slots) = slot}
           w == [e \in E |-> e.credit]
<1>1. Credit(file, slot, slots) = SumFunctionOnSet(w, E)
  BY DEF Credit, SumFunction
<1>2. IsFiniteSet(file.credits) /\ \A e \in file.credits : e.credit \in Nat
  BY DEF WholeFile
<1>3. IsFiniteSet(E) /\ \A e \in E : w[e] \in Nat
  BY <1>2, FS_Subset
<1> HIDE DEF E, w
<1> QED  BY <1>1, <1>3, SumOfNaturals

\* An estimate of a file on record is a request the calculator can answer.
LEMMA EstimateIsWhole ==
    ASSUME NEW file, WholeFile(file), Estimable(file), NEW retirement \in Int, NEW sick \in Nat,
           NEW option, option.age \in Int \cup {Never}, option.desired \in Nat \cup {Never}, NEW slots
    PROVE  WholeRequest(EstimateRequest(file, retirement, sick, option, slots))
<1> DEFINE t == TerminationOf(file, retirement)
           a == Credit(file, "system", slots)
           b == Credit(file, "ope", slots)
           d == Credit(file, "military", slots)
           pf == \E j \in file.jobs : j.type = "police_fire"
           r == EstimateRequest(file, retirement, sick, option, slots)
<1>1. t \in Int /\ a \in Nat /\ b \in Nat /\ d \in Nat
  BY TerminationIsDate, CreditIsNatural
<1>2. /\ file.cert \in Int /\ file.birth \in Int /\ Salaries(file.salaries)
      /\ file.contributions # Never => WholePurchase(file.contributions)
  BY DEF WholeFile, Estimable
<1> HIDE DEF t, a, b, d, pf
<1>3. r = [plan |-> file.plan, cert |-> file.cert, birth |-> file.birth, retirement |-> retirement,
           termination |-> t, system |-> a, ope |-> b, military |-> d, reciprocal |-> 0, sickDays |-> sick,
           history |-> file.salaries, purchase |-> file.contributions, factor |-> Never,
           policeFire |-> pf, policeFireService |-> Never, option |-> option]
  BY Zenon DEF EstimateRequest, t, a, b, d, pf
<1> HIDE DEF r
<1>4. /\ r.cert = file.cert /\ r.birth = file.birth /\ r.retirement = retirement /\ r.termination = t
      /\ r.system = a /\ r.ope = b /\ r.military = d /\ r.reciprocal = 0 /\ r.sickDays = sick
      /\ r.history = file.salaries /\ r.purchase = file.contributions /\ r.factor = Never
      /\ r.policeFireService = Never /\ r.option = option
  BY <1>3
<1>5. DOMAIN r = {"plan", "cert", "birth", "retirement", "termination", "system", "ope", "military",
                  "reciprocal", "sickDays", "history", "purchase", "factor", "policeFire",
                  "policeFireService", "option"}
  BY <1>3
<1>6. WholeRequest(r)
  BY <1>1, <1>2, <1>4, <1>5 DEF WholeRequest
<1> QED  BY <1>6 DEF r

\* The rules of SURS are a configuration the calculator can use.
LEMMA SursIsWhole ==
    ASSUME NEW minimum
    PROVE  WholeConfig(SursConfig(minimum))
<1> DEFINE c == SursConfig(minimum)
           Row == [years : Nat \cup {Never}, rate : Nat]
           Step == [days : Nat, credit : Nat]
<1>1. /\ {c.faeYearsI, c.faeYearsII, c.sickDaysPerMonth} \subseteq Nat \ {0}
      /\ {c.ayMonth, c.ayDay, c.normalAgeI, c.normalAgeII, c.pfAgeII} \subseteq Int
      /\ \A rule \in c.pfRules : rule.age \in Int
      /\ {c.spikeRate, c.multiplier, c.reductionI, c.reductionII, c.capPercent, c.sickMaxCredit,
          c.pfMax} \subseteq Nat
  BY DEF SursConfig
<1>2. Band(10, 167) \in Row /\ Band(10, 190) \in Row /\ Band(10, 210) \in Row /\ Band(Never, 230) \in Row
      /\ Band(10, 225) \in Row /\ Band(10, 250) \in Row /\ Band(Never, 275) \in Row
  BY DEF Band
<1>3. /\ c.bands = <<>> /\ c.preBands = <<Band(10, 167), Band(10, 190), Band(10, 210), Band(Never, 230)>>
      /\ c.pfBands = <<Band(10, 225), Band(10, 250), Band(Never, 275)>>
      /\ c.sickSteps = <<[days |-> 180, credit |-> 4], [days |-> 120, credit |-> 3],
                         [days |-> 60, credit |-> 2], [days |-> 20, credit |-> 1]>>
  BY DEF SursConfig
<1> HIDE DEF c
<1>4. c.bands \in Seq(Row) /\ c.preBands \in Seq(Row) /\ c.pfBands \in Seq(Row)
  <2> HIDE DEF Row
  <2> QED  BY <1>2, <1>3
<1>5. c.sickSteps \in Seq(Step)
  <2>1. [days |-> 180, credit |-> 4] \in Step /\ [days |-> 120, credit |-> 3] \in Step
        /\ [days |-> 60, credit |-> 2] \in Step /\ [days |-> 20, credit |-> 1] \in Step
    OBVIOUS
  <2> HIDE DEF Step
  <2> QED  BY <1>3, <2>1
<1>6. WholeConfig(c)
  BY <1>1, <1>4, <1>5 DEF WholeConfig, Bands
<1> QED  BY <1>6 DEF c
-----------------------------------------------------------------------------
(* What a calculation was made from *)

\* An answer with a benefit is that of its request.
Calculated(a) ==
    /\ WholeRequest(a.request) /\ ~Refused(a.request.option, a.request.plan)
    /\ WholeConfig(a.config)
    /\ a.result = CalculateBenefit(a.request, a.config)

BenefitInv ==
    /\ member \in Members
    /\ IsBenefit => Calculated(answer)

\* Nothing has been calculated at first.
LEMMA BenefitInvInit == PaycheckInit => BenefitInv
BY DEF PaycheckInit, BenefitInv, IsBenefit, Nothing

\* An answer is calculated from the request it names.
LEMMA AnswerIsCalculated ==
    ASSUME NEW kind, NEW r, NEW c, WholeRequest(r), WholeConfig(c), ~Refused(r.option, r.plan)
    PROVE  Calculated(Answer(kind, r, c))
<1> DEFINE a == Answer(kind, r, c)
           x == CalculateBenefit(r, c)
<1>1. a.request = r /\ a.config = c /\ a.result = x
  <2> HIDE DEF x
  <2>1. a = [kind |-> kind, request |-> r, config |-> c, result |-> x]
    BY DEF Answer, x
  <2> HIDE DEF a
  <2> QED  BY <2>1
<1> HIDE DEF a, x
<1>2. Calculated(a)
  BY <1>1 DEF Calculated, x
<1> QED  BY <1>2 DEF a

\* Every request answers with a calculation of its own, or with none.
LEMMA BenefitInvNext == BenefitInv /\ [PaycheckNext]_paycheckVars => BenefitInv'
<1> SUFFICES ASSUME BenefitInv, [PaycheckNext]_paycheckVars
             PROVE  BenefitInv'
  OBVIOUS
<1>1. ASSUME NEW retirement \in Retirements, NEW s \in SickDays, NEW o \in OptionForms,
             Estimate(retirement, s, o)
      PROVE  BenefitInv'
  <2> DEFINE r == EstimateRequest(member, retirement, s, o, Slots)
  <2>1. /\ Estimable(member) /\ ~Refused(o, member.plan)
        /\ answer' = Answer("estimate", r, Fund) /\ member' = member
    BY <1>1 DEF Estimate
  <2>2. /\ WholeFile(member) /\ retirement \in Int /\ s \in Nat /\ WholeConfig(Fund)
        /\ o.age \in Int \cup {Never} /\ o.desired \in Nat \cup {Never}
    BY FilesAssumption DEF BenefitInv
  <2>3. WholeRequest(r)
    BY <2>1, <2>2, EstimateIsWhole
  <2>4. r.option = o /\ r.plan = member.plan
    BY DEF EstimateRequest
  <2> HIDE DEF r
  <2>5. Calculated(answer')
    BY <2>1, <2>2, <2>3, <2>4, AnswerIsCalculated
  <2> QED  BY <2>1, <2>5 DEF BenefitInv, Calculated
<1>2. ASSUME NEW r \in Requests, Calculate(r)
      PROVE  BenefitInv'
  <2>1. /\ ~Refused(r.option, r.plan) /\ member' = member
        /\ answer' = Answer("calculation", r, SursConfig(Fund.minimumPerYear))
    BY <1>2 DEF Calculate
  <2>2. WholeRequest(r)
    BY FilesAssumption
  <2>3. Calculated(answer')
    BY <2>1, <2>2, SursIsWhole, AnswerIsCalculated
  <2> QED  BY <2>1, <2>3 DEF BenefitInv, Calculated
<1>3. ASSUME member' = member, answer' = Nothing
      PROVE  BenefitInv'
  BY <1>3 DEF BenefitInv, IsBenefit, Nothing
<1>4. ASSUME Award
      PROVE  BenefitInv'
  BY <1>3, <1>4 DEF Award
<1>5. ASSUME NEW o \in OrderForms, CreateDeductionOrder(o)
      PROVE  BenefitInv'
  BY <1>3, <1>5 DEF CreateDeductionOrder
<1>6. ASSUME NEW o \in orders, NEW day \in PayDays, EndDeductionOrder(o, day)
      PROVE  BenefitInv'
  BY <1>3, <1>6 DEF EndDeductionOrder
<1>7. ASSUME NEW f \in ElectionForms, SetTaxWithholding(f)
      PROVE  BenefitInv'
  BY <1>3, <1>7 DEF SetTaxWithholding
<1>8. ASSUME NEW day \in PayDays, Preview(day)
      PROVE  BenefitInv'
  <2>1. answer'.kind = "slip" /\ member' = member
    BY <1>8 DEF Preview
  <2> QED  BY <2>1 DEF BenefitInv, IsBenefit
<1>9. CASE UNCHANGED paycheckVars
  BY <1>9 DEF paycheckVars, BenefitInv, IsBenefit, Calculated
<1> QED  BY <1>1, <1>2, <1>4, <1>5, <1>6, <1>7, <1>8, <1>9 DEF PaycheckNext

\* Benefits on show are always those of their request.
LEMMA BenefitInvHolds == PaycheckSpec => []BenefitInv
BY BenefitInvInit, BenefitInvNext, PTL DEF PaycheckSpec

\* apply_bands is marginal for every list of bands and any service: a quarter
\* more adds the rate of its band.
THEOREM BandsMarginalHolds == PaycheckSpec => []BandsAreMarginal
<1>1. BenefitInv => BandsAreMarginal
  <2> SUFFICES ASSUME BenefitInv, IsBenefit,
                      NEW bands \in {answer.config.preBands, answer.config.pfBands, answer.config.bands},
                      answer.result.service > 0
               PROVE  ApplyBands(answer.result.service, bands)
                        = ApplyBands(answer.result.service - 1, bands) + RateOf(answer.result.service, bands)
    BY DEF BandsAreMarginal
  <2> DEFINE r == answer.request  c == answer.config
  <2>1. WholeRequest(r) /\ WholeConfig(c) /\ answer.result = CalculateBenefit(r, c)
    BY DEF BenefitInv, Calculated
  <2>2. bands \in Bands
    BY <2>1 DEF WholeConfig
  <2> HIDE DEF r, c
  <2>3. answer.result.service \in Nat \ {0}
    BY <2>1, ServiceIsNatural
  <2> QED  BY <2>2, <2>3, MarginalRate
<1> QED  BY <1>1, BenefitInvHolds, PTL
-----------------------------------------------------------------------------
(* Sorted years *)

\* How many members of S come before y.
Rank(S, y) == Cardinality({x \in S : x < y})

\* Ranks are in the order of the numbers.
LEMMA RankGrows ==
    ASSUME NEW S, IsFiniteSet(S), \A x \in S : x \in Int, NEW y \in S, NEW z \in S, y < z
    PROVE  Rank(S, y) \in Nat /\ Rank(S, z) \in Nat /\ Rank(S, y) < Rank(S, z)
<1> DEFINE a == {x \in S : x < y}
           b == {x \in S : x < z}
<1>1. a \subseteq b /\ y \in b /\ y \notin a /\ b \subseteq S
  OBVIOUS
<1> HIDE DEF a, b
<1>2. IsFiniteSet(b) /\ a \in SUBSET b /\ a # b
  BY <1>1, FS_Subset
<1>3. IsFiniteSet(a) /\ Cardinality(a) <= Cardinality(b) /\ Cardinality(a) # Cardinality(b)
  BY <1>2, FS_Subset
<1>4. Cardinality(a) \in Nat /\ Cardinality(b) \in Nat
  BY <1>2, <1>3, FS_CardinalityType
<1>5. Cardinality(a) < Cardinality(b)
  BY <1>3, <1>4
<1> QED  BY <1>4, <1>5 DEF Rank, a, b

\* Ranks start at 0 and end below the size of the set.
LEMMA RankIsBelow ==
    ASSUME NEW S, IsFiniteSet(S), \A x \in S : x \in Int, NEW y \in S
    PROVE  Cardinality(S) \in Nat /\ Rank(S, y) \in 0..Cardinality(S) - 1
<1> DEFINE a == {x \in S : x < y}
<1>1. a \in SUBSET S /\ a # S
  OBVIOUS
<1> HIDE DEF a
<1>2. IsFiniteSet(a) /\ Cardinality(a) <= Cardinality(S) /\ Cardinality(a) # Cardinality(S)
  BY <1>1, FS_Subset
<1>3. Cardinality(a) \in Nat /\ Cardinality(S) \in Nat
  BY <1>2, FS_CardinalityType
<1>4. Cardinality(a) \in 0..Cardinality(S) - 1
  BY <1>2, <1>3
<1> QED  BY <1>3, <1>4 DEF Rank, a

\* Every rank is taken.
LEMMA RankIsOnto ==
    ASSUME NEW S, IsFiniteSet(S), \A x \in S : x \in Int, NEW k \in 0..Cardinality(S) - 1
    PROVE  \E y \in S : Rank(S, y) = k
<1> DEFINE n == Cardinality(S)
           T == 0..n - 1
           f == [y \in S |-> Rank(S, y)]
<1>1. n \in Nat
  BY FS_CardinalityType
<1>2. IsFiniteSet(T) /\ Cardinality(T) = n
  BY <1>1, FS_Interval
<1>3. \A y \in S : f[y] \in T
  BY RankIsBelow
<1>4. \A y, z \in S : f[y] = f[z] => y = z
  <2> SUFFICES ASSUME NEW y \in S, NEW z \in S, f[y] = f[z], y # z
               PROVE  FALSE
    OBVIOUS
  <2>1. y < z \/ z < y
    OBVIOUS
  <2>2. Rank(S, y) = Rank(S, z)
    OBVIOUS
  <2> QED  BY <2>1, <2>2, RankGrows
<1>5. f \in [S -> T]
  BY <1>3
<1> HIDE DEF n, T
<1>6. f \in Injection(S, T)
  <2> HIDE DEF f
  <2> QED  BY <1>4, <1>5 DEF Injection, IsInjective
<1>7. f \in Surjection(S, T)
  <2> HIDE DEF f
  <2> QED  BY <1>2, <1>6, FS_Injection DEF n
<1>8. k \in T
  BY DEF T, n
<1>9. PICK y \in S : f[y] = k
  <2> HIDE DEF f
  <2> QED  BY <1>7, <1>8 DEF Surjection
<1> QED  BY <1>9

\* The list of a set: its members by rank.
LEMMA SortedByRank ==
    ASSUME NEW S, IsFiniteSet(S), \A x \in S : x \in Int
    PROVE  /\ Cardinality(S) \in Nat
           /\ DOMAIN Sorted(S) = 1..Cardinality(S)
           /\ \A i \in 1..Cardinality(S) : Sorted(S)[i] \in S /\ Rank(S, Sorted(S)[i]) = i - 1
<1> DEFINE n == Cardinality(S)
<1>1. n \in Nat
  BY FS_CardinalityType
<1>2. Sorted(S) = [i \in 1..n |-> CHOOSE y \in S : Rank(S, y) = i - 1]
  BY DEF Sorted, Rank
<1>3. ASSUME NEW i \in 1..n
      PROVE  \E y \in S : Rank(S, y) = i - 1
  <2>1. i - 1 \in 0..n - 1
    BY <1>1
  <2> QED  BY <2>1, RankIsOnto
<1> HIDE DEF n
<1>4. \A i \in 1..n : Sorted(S)[i] \in S /\ Rank(S, Sorted(S)[i]) = i - 1
  BY <1>2, <1>3
<1> QED  BY <1>1, <1>2, <1>4 DEF n

\* Every member has its place.
LEMMA PlaceInList ==
    ASSUME NEW S, IsFiniteSet(S), \A x \in S : x \in Int, NEW y \in S
    PROVE  Rank(S, y) + 1 \in 1..Cardinality(S) /\ Sorted(S)[Rank(S, y) + 1] = y
<1> DEFINE n == Cardinality(S)
           k == Rank(S, y)
           z == Sorted(S)[k + 1]
<1>1. n \in Nat /\ k \in 0..n - 1
  BY RankIsBelow
<1>2. k + 1 \in 1..n /\ k \in Int
  <2> HIDE DEF n, k
  <2> QED  BY <1>1
<1>3. z \in S /\ Rank(S, z) = k
  <2>1. z \in S /\ Rank(S, z) = (k + 1) - 1
    BY <1>2, SortedByRank
  <2> HIDE DEF k, z
  <2> QED  BY <1>2, <2>1
<1> HIDE DEF z
<1>4. z = y
  <2>1. y < z \/ z < y \/ y = z
    BY <1>3
  <2> QED  BY <1>3, <2>1, RankGrows
<1> QED  BY <1>2, <1>4 DEF z
-----------------------------------------------------------------------------
(* Earnings *)

\* Dates and calendar years are integers.
LEMMA DatesAreIntegers ==
    ASSUME NEW y \in Int, NEW m \in Int, NEW d \in Int, NEW day \in Int
    PROVE  Date(y, m, d) \in Int /\ YearOf(day) \in Int /\ YearDays \in Nat \ {0}
<1>1. YearDays \in Nat \ {0}
  BY CalendarAssumption DEF YearDays
<1>2. YearOf(day) \in Int
  BY <1>1, DivisionFacts DEF YearOf
<1>3. y * YearDays \in Int /\ (m - 1) * MonthDays \in Int
  <2>1. \A a, b \in Int : a * b \in Int
    OBVIOUS
  <2>2. y \in Int /\ YearDays \in Int /\ m - 1 \in Int /\ MonthDays \in Int
    BY <1>1, CalendarAssumption
  <2> QED  BY <2>1, <2>2
<1> DEFINE a == y * YearDays  b == (m - 1) * MonthDays
<1> HIDE DEF a, b
<1>4. a \in Int /\ b \in Int
  BY <1>3 DEF a, b
<1>5. a + b + d - 1 \in Int
  BY <1>4
<1> QED  BY <1>1, <1>2, <1>5 DEF Date, a, b

\* Academic years and their first days are integers.
LEMMA YearsAreIntegers ==
    ASSUME NEW day \in Int, NEW ay \in Int, NEW c, WholeConfig(c)
    PROVE  AcademicYear(day, c) \in Int /\ YearStart(ay, c) \in Int
<1>1. c.ayMonth \in Int /\ c.ayDay \in Int
  BY DEF WholeConfig
<1>2. YearOf(day) \in Int /\ Date(ay, c.ayMonth, c.ayDay) \in Int
  BY <1>1, DatesAreIntegers
<1> QED  BY <1>2 DEF AcademicYear, YearStart

\* One salary period: its columns, where it ends, what it pays in a year.
Period(p) == p.start \in Int /\ p.end \in Int \cup {Never} /\ p.salary \in Nat

EndOf(p, asOf) == IF p.end = Never THEN asOf ELSE p.end

\* What a period earns within a year is a whole amount.
LEMMA EarnedIsNatural ==
    ASSUME NEW p, Period(p), NEW ay \in Int, NEW asOf \in Int, NEW c, WholeConfig(c)
    PROVE  Earned(p, ay, asOf, c) \in Nat
<1> DEFINE end == IF p.end = Never THEN asOf ELSE p.end
           a == YearStart(ay + 1, c)
           b == YearStart(ay, c)
           days == AtMost(end, a - 1) - AtLeast(p.start, b) + 1
           num == p.salary * days
<1>1. end \in Int /\ a \in Int /\ b \in Int /\ p.start \in Int /\ p.salary \in Nat
  BY YearsAreIntegers DEF Period
<1>2. Earned(p, ay, asOf, c) = IF days <= 0 THEN 0 ELSE RoundHalfUp(num, YearDays)
  BY DEF Earned
<1> HIDE DEF end, a, b
<1>3. days \in Int
  BY <1>1 DEF AtMost, AtLeast
<1>4. YearDays \in Nat \ {0}
  BY CalendarAssumption DEF YearDays
<1> HIDE DEF days
<1>5. CASE days <= 0
  BY <1>2, <1>5
<1>6. CASE ~(days <= 0)
  <2>1. days \in Nat
    BY <1>3, <1>6
  <2>2. num \in Nat
    BY <1>1, <2>1
  <2> HIDE DEF num
  <2>3. RoundHalfUp(num, YearDays) \in Nat
    BY <1>4, <2>2, RoundIsNatural
  <2> QED  BY <1>2, <1>6, <2>3
<1> QED  BY <1>5, <1>6

\* A finite table of natural amounts by year.
EarningsTable(e) ==
    /\ IsFiniteSet(DOMAIN e) /\ \A y \in DOMAIN e : y \in Int
    /\ \A y \in DOMAIN e : e[y] \in Nat

\* Earnings by year are a table of whole amounts over finitely many years.
LEMMA EarningsAreNatural ==
    ASSUME NEW history, Salaries(history), NEW asOf \in Int, NEW c, WholeConfig(c)
    PROVE  EarningsTable(Earnings(history, asOf, c))
<1> DEFINE f == [p \in history |-> AcademicYear(p.start, c)..AcademicYear(EndOf(p, asOf), c)]
           years == UNION {f[p] : p \in history}
           w(ay) == [p \in history |-> Earned(p, ay, asOf, c)]
           e == Earnings(history, asOf, c)
<1>1. IsFiniteSet(history) /\ \A p \in history : Period(p)
  BY DEF Salaries, Period
<1>2. years = UNION {AcademicYear(p.start, c)..AcademicYear(EndOf(p, asOf), c) : p \in history}
  OBVIOUS
<1>3. e = [ay \in years |-> SumFunction(w(ay))]
  <2> HIDE DEF years
  <2> QED  BY <1>2 DEF Earnings, EndOf
<1>4. \A p \in history : p.start \in Int /\ EndOf(p, asOf) \in Int
  BY <1>1 DEF Period, EndOf
<1>5. \A p \in history : /\ AcademicYear(p.start, c) \in Int /\ AcademicYear(EndOf(p, asOf), c) \in Int
  BY <1>4, YearsAreIntegers
<1>6. \A p \in history : IsFiniteSet(f[p]) /\ \A y \in f[p] : y \in Int
  <2> TAKE p \in history
  <2>1. f[p] = AcademicYear(p.start, c)..AcademicYear(EndOf(p, asOf), c)
    OBVIOUS
  <2> QED  BY <1>5, <2>1, FS_Interval
<1> HIDE DEF f
<1>7. IsFiniteSet(years) /\ \A y \in years : y \in Int
  <2> DEFINE sets == {f[p] : p \in history}
  <2>1. IsFiniteSet(sets)
    BY <1>1, ImageIsFinite
  <2>2. \A t \in sets : IsFiniteSet(t) /\ \A y \in t : y \in Int
    BY <1>6
  <2> HIDE DEF sets
  <2>3. IsFiniteSet(UNION sets) /\ \A y \in UNION sets : y \in Int
    BY <2>1, <2>2, FS_UNION
  <2> QED  BY <2>3 DEF sets
<1> HIDE DEF years
<1>8. ASSUME NEW ay \in years
      PROVE  SumFunction(w(ay)) \in Nat
  <2> DEFINE v == w(ay)
  <2>1. DOMAIN v = history /\ \A p \in history : v[p] = Earned(p, ay, asOf, c)
    OBVIOUS
  <2>2. \A p \in history : v[p] \in Nat
    BY <1>1, <1>7, <2>1, EarnedIsNatural
  <2> HIDE DEF v
  <2>3. SumFunctionOnSet(v, history) \in Nat
    BY <1>1, <2>2, SumOfNaturals
  <2>4. SumFunction(v) \in Nat
    BY <2>1, <2>3 DEF SumFunction
  <2> QED  BY <2>4 DEF v
<1> HIDE DEF e, w
<1>9. EarningsTable(e)
  BY <1>3, <1>7, <1>8 DEF EarningsTable
<1> QED  BY <1>9 DEF e

\* The recursion of SpikeCapped on the years of a list with indices in D.
CapOf(prior, e, y, c) ==
    IF prior = 0 \/ YearStart(y, c) < c.spikeFrom THEN e[y]
    ELSE AtMost(e[y], RoundHalfUp(prior * (One + c.spikeRate), One))

Caps(f, e, list, c, D) ==
    f = [i \in D |-> CapOf(IF i = 1 THEN 0 ELSE f[i - 1], e, list[i], c)]

Capped(e, c) ==
    LET list == Sorted(DOMAIN e) IN CHOOSE f : Caps(f, e, list, c, DOMAIN list)

\* SpikeCapped is the recursion of Caps.
LEMMA SpikeCappedIs ==
    ASSUME NEW e, NEW c
    PROVE  SpikeCapped(e, c) =
             IF ~c.spikeCap THEN e
             ELSE [ay \in DOMAIN e |->
                     Capped(e, c)[CHOOSE i \in DOMAIN Sorted(DOMAIN e) : Sorted(DOMAIN e)[i] = ay]]
BY DEF SpikeCapped, Capped, Caps, CapOf

\* The recursion of the cap has a solution.
LEMMA CapsExists ==
    ASSUME NEW e, NEW list, NEW c, NEW n \in Nat
    PROVE  \E f : Caps(f, e, list, c, 1..n)
<1> DEFINE S == {m \in Nat : \E f : Caps(f, e, list, c, 1..m)}
<1>1. 0 \in S
  <2> DEFINE f == [i \in 1..0 |-> 0]
  <2>1. Caps(f, e, list, c, 1..0)
    BY DEF Caps
  <2> QED  BY <2>1
<1>2. ASSUME NEW m \in Nat, m \in S
      PROVE  m + 1 \in S
  <2>1. PICK f : Caps(f, e, list, c, 1..m)
    BY <1>2
  <2> DEFINE next == CapOf(IF m + 1 = 1 THEN 0 ELSE f[m], e, list[m + 1], c)
             g == [i \in 1..m + 1 |-> IF i = m + 1 THEN next ELSE f[i]]
  <2>2. \A i \in 1..m : g[i] = f[i]
    OBVIOUS
  <2>3. g[m + 1] = next /\ g = [i \in 1..m + 1 |-> g[i]]
    OBVIOUS
  <2>4. \A i \in 1..m : f[i] = CapOf(IF i = 1 THEN 0 ELSE f[i - 1], e, list[i], c)
    BY <2>1 DEF Caps
  <2> HIDE DEF g
  <2>5. \A i \in 1..m + 1 : g[i] = CapOf(IF i = 1 THEN 0 ELSE g[i - 1], e, list[i], c)
    <3> TAKE i \in 1..m + 1
    <3>1. CASE i = m + 1
      <4>1. i - 1 = m /\ (i # 1 => m \in 1..m)
        BY <3>1
      <4>2. i # 1 => g[i - 1] = f[m]
        BY <2>2, <4>1
      <4> QED  BY <2>3, <3>1, <4>2
    <3>2. CASE i # m + 1
      <4>1. i \in 1..m /\ (i # 1 => i - 1 \in 1..m)
        BY <3>2
      <4>2. g[i] = f[i] /\ (i # 1 => g[i - 1] = f[i - 1])
        BY <2>2, <4>1
      <4> QED  BY <2>4, <4>1, <4>2
    <3> QED  BY <3>1, <3>2
  <2>6. Caps(g, e, list, c, 1..m + 1)
    BY <2>3, <2>5 DEF Caps
  <2> QED  BY <2>6
<1> HIDE DEF S
<1>3. Nat \subseteq S
  BY <1>1, <1>2, NaturalInduction
<1> QED  BY <1>3 DEF S

\* What the spike cap leaves of a year is a whole amount.
LEMMA CapOfIsNatural ==
    ASSUME NEW prior \in Nat, NEW e, NEW y, e[y] \in Nat, NEW c, WholeConfig(c)
    PROVE  CapOf(prior, e, y, c) \in Nat
<1> DEFINE a == prior * (One + c.spikeRate)
<1>1. c.spikeRate \in Nat /\ One \in Nat \ {0}
  BY DEF WholeConfig, One
<1>2. a \in Nat
  BY <1>1
<1> HIDE DEF a
<1>3. RoundHalfUp(a, One) \in Nat
  BY <1>1, <1>2, RoundIsNatural
<1> QED  BY <1>3 DEF CapOf, AtMost, a

\* Capping keeps the years and natural amounts.
LEMMA SpikeKeepsTable ==
    ASSUME NEW e, EarningsTable(e), NEW c, WholeConfig(c)
    PROVE  EarningsTable(SpikeCapped(e, c)) /\ DOMAIN SpikeCapped(e, c) = DOMAIN e
<1>1. CASE ~c.spikeCap
  BY <1>1, SpikeCappedIs
<1>2. CASE c.spikeCap
  <2> DEFINE D == DOMAIN e
             list == Sorted(D)
             f == Capped(e, c)
             n == Cardinality(D)
             S == {i \in Nat : i >= 1 /\ i <= n => f[i] \in Nat}
  <2>1. IsFiniteSet(D) /\ (\A y \in D : y \in Int) /\ \A y \in D : e[y] \in Nat
    BY DEF EarningsTable
  <2> HIDE DEF D
  <2>2. /\ n \in Nat /\ DOMAIN list = 1..n /\ \A i \in 1..n : list[i] \in D
        /\ \A y \in D : Rank(D, y) + 1 \in 1..n /\ list[Rank(D, y) + 1] = y
    BY <2>1, SortedByRank, PlaceInList
  <2> HIDE DEF list, n
  <2>3. Caps(f, e, list, c, 1..n)
    <3>1. f = CHOOSE g : Caps(g, e, list, c, 1..n)
      BY <2>2 DEF Capped, list, D
    <3> HIDE DEF f
    <3> QED  BY <2>2, <3>1, CapsExists
  <2> HIDE DEF f
  <2>4. \A i \in 1..n : f[i] = CapOf(IF i = 1 THEN 0 ELSE f[i - 1], e, list[i], c)
    BY <2>3 DEF Caps
  <2>5. 0 \in S
    OBVIOUS
  <2>6. ASSUME NEW i \in Nat, i \in S
        PROVE  i + 1 \in S
    <3>1. CASE i + 1 <= n
      <4> DEFINE prior == IF i + 1 = 1 THEN 0 ELSE f[(i + 1) - 1]
      <4>1. i + 1 \in 1..n /\ (i + 1) - 1 = i
        BY <2>2, <3>1
      <4>2. prior \in Nat
        BY <2>6, <3>1, <4>1, <2>2
      <4>3. e[list[i + 1]] \in Nat
        BY <2>1, <2>2, <4>1
      <4>4. f[i + 1] = CapOf(prior, e, list[i + 1], c)
        BY <2>4, <4>1
      <4> HIDE DEF prior
      <4>5. f[i + 1] \in Nat
        BY <4>2, <4>3, <4>4, CapOfIsNatural
      <4> QED  BY <4>5
    <3>2. CASE ~(i + 1 <= n)
      BY <3>2
    <3> QED  BY <3>1, <3>2
  <2> HIDE DEF S
  <2>7. Nat \subseteq S
    BY <2>5, <2>6, NaturalInduction
  <2>8. \A i \in 1..n : f[i] \in Nat
    BY <2>2, <2>7 DEF S
  <2>9. SpikeCapped(e, c) = [ay \in D |-> f[CHOOSE i \in DOMAIN list : list[i] = ay]]
    BY <1>2, SpikeCappedIs DEF D, list, f
  <2>10. \A ay \in D : (CHOOSE i \in DOMAIN list : list[i] = ay) \in DOMAIN list
    BY <2>2
  <2>11. DOMAIN SpikeCapped(e, c) = D /\ \A ay \in D : SpikeCapped(e, c)[ay] \in Nat
    BY <2>2, <2>8, <2>9, <2>10
  <2> QED  BY <2>1, <2>11 DEF EarningsTable, D
<1> QED  BY <1>1, <1>2
-----------------------------------------------------------------------------
(* Windows of years *)

\* A sum is at most what its greatest weight would make of it.
LEMMA SumIsBounded ==
    ASSUME NEW w, NEW S, IsFiniteSet(S), NEW m \in Nat, \A x \in S : w[x] \in Nat /\ w[x] <= m
    PROVE  SumFunctionOnSet(w, S) <= Cardinality(S) * m
<1> DEFINE Good(s) == SumFunctionOnSet(w, s) <= Cardinality(s) * m
           Bad == {s \in SUBSET S : ~Good(s)}
<1>1. CASE Bad = {}
  BY <1>1
<1>2. CASE Bad # {}
  <2>0. Bad \in SUBSET SUBSET S
    OBVIOUS
  <2> HIDE DEF Bad, Good
  <2>1. PICK u \in Bad : \A v \in Bad : v \subseteq u => v = u
    BY <1>2, <2>0, SmallestSet
  <2> USE DEF Bad
  <2>2. u \in SUBSET S /\ ~Good(u)
    OBVIOUS
  <2>3. u # {}
    <3>1. ASSUME u = {} PROVE FALSE
      <4>1. SumFunctionOnSet(w, u) = 0 /\ Cardinality(u) = 0
        BY <3>1, EmptySum, FS_EmptySet
      <4> QED  BY <2>2, <4>1 DEF Good
    <3> QED  BY <3>1
  <2> DEFINE x == Pick(u)  r == Rest(u)
  <2>4. x \in u /\ r \in SUBSET u /\ r # u /\ r = u \ {x}
    BY <2>3, RestIsSmaller DEF Rest
  <2>5. SumFunctionOnSet(w, u) = w[x] + SumFunctionOnSet(w, r) /\ IsFiniteSet(u) /\ IsFiniteSet(r)
    BY <2>2, <2>3, <2>4, FirstAndRest, FS_Subset
  <2> HIDE DEF x, r
  <2>6. Good(r)
    <3>1. r \in SUBSET S /\ r \notin Bad
      BY <2>1, <2>2, <2>4
    <3> QED  BY <3>1
  <2>7. Cardinality(r) = Cardinality(u) - 1 /\ Cardinality(u) \in Nat
    BY <2>4, <2>5, FS_RemoveElement, FS_CardinalityType
  <2>8. w[x] \in Nat /\ w[x] <= m /\ SumFunctionOnSet(w, r) \in Nat
    BY <2>2, <2>4, <2>5, SumOfNaturals
  <2> DEFINE a == w[x]  b == SumFunctionOnSet(w, r)  k == Cardinality(u)
  <2>9. a \in Nat /\ b \in Nat /\ k \in Nat /\ a <= m /\ b <= (k - 1) * m /\ SumFunctionOnSet(w, u) = a + b
    BY <2>5, <2>6, <2>7, <2>8 DEF Good
  <2> HIDE DEF a, b, k
  <2>10. (k - 1) * m = k * m - m /\ k * m \in Int
    BY <2>9
  <2>11. a + b <= k * m
    BY <2>9, <2>10
  <2> QED  BY <2>2, <2>9, <2>11 DEF Good, k
<1> QED  BY <1>1, <1>2

\* A larger numerator is not rounded lower, and a multiple of the denominator
\* is not rounded at all.
LEMMA RoundIsMonotone ==
    ASSUME NEW a \in Nat, NEW b \in Nat, a <= b, NEW d \in Nat \ {0}
    PROVE  RoundHalfUp(a, d) <= RoundHalfUp(b, d)
<1> DEFINE x == 2 * a + d  y == 2 * b + d  e == 2 * d  q == x \div e
<1>1. x \in Int /\ y \in Int /\ e \in Nat \ {0} /\ x <= y
  OBVIOUS
<1> HIDE DEF x, y, e
<1>2. q \in Int /\ e * q <= x
  BY <1>1, DivisionFacts
<1> HIDE DEF q
<1>3. y >= e * q
  <2> DEFINE z == e * q
  <2>1. z \in Int
    BY <1>1, <1>2
  <2> HIDE DEF z
  <2>2. z <= x
    BY <1>2 DEF z
  <2>3. y >= z
    BY <1>1, <2>1, <2>2
  <2> QED  BY <2>3 DEF z
<1>4. y \div e >= q
  BY <1>1, <1>2, <1>3, QuotientBounds
<1>5. RoundHalfUp(a, d) = x \div e /\ RoundHalfUp(b, d) = y \div e
  BY DEF RoundHalfUp, x, y, e
<1> QED  BY <1>4, <1>5 DEF q

\* A multiple of the divisor is divided exactly.
LEMMA RoundOfMultiple ==
    ASSUME NEW a \in Nat, NEW m \in Nat, NEW d \in Nat \ {0}, a <= d * m
    PROVE  RoundHalfUp(a, d) <= m
<1> DEFINE x == 2 * a + d  e == 2 * d  z == d * m
<1>1. z \in Nat /\ a <= z /\ e * m + e = 2 * z + 2 * d
  OBVIOUS
<1>2. x < 2 * z + 2 * d
  <2> HIDE DEF z
  <2> QED  BY <1>1
<1>3. x \in Int /\ e \in Nat \ {0} /\ x < e * m + e
  <2> HIDE DEF z
  <2> QED  BY <1>1, <1>2
<1> HIDE DEF x, e
<1>4. x \div e <= m
  BY <1>3, QuotientBounds
<1>5. RoundHalfUp(a, d) = x \div e
  BY DEF RoundHalfUp, x, e
<1> QED  BY <1>4, <1>5

\* The window that starts at the i-th year.
Window(years, n, i) == {Sorted(years)[j] : j \in i..i + n - 1}

\* Windows is the set of the windows at each place.
LEMMA WindowsAre ==
    ASSUME NEW years, IsFiniteSet(years), \A y \in years : y \in Int, NEW n
    PROVE  Windows(years, n) = {Window(years, n, i) : i \in 1..Cardinality(years) - n + 1}
<1> DEFINE N == Cardinality(years)
<1>1. N \in Nat
  BY FS_CardinalityType
<1>2. Sorted(years) = [i \in 1..N |-> CHOOSE y \in years : Rank(years, y) = i - 1]
  BY DEF Sorted, Rank
<1> HIDE DEF N
<1>3. Len(Sorted(years)) = N
  BY <1>1, <1>2
<1> QED  BY <1>3 DEF Windows, Window, N

\* A window has n years of those on record.
LEMMA WindowFacts ==
    ASSUME NEW years, IsFiniteSet(years), \A y \in years : y \in Int,
           NEW n \in Nat \ {0}, NEW w \in Windows(years, n)
    PROVE  w \in SUBSET years /\ w # {} /\ IsFiniteSet(w) /\ Cardinality(w) \in Nat /\ Cardinality(w) <= n
<1> DEFINE N == Cardinality(years)
           list == Sorted(years)
<1>1. N \in Nat /\ \A i \in 1..N : list[i] \in years
  BY SortedByRank
<1>2. PICK i \in 1..N - n + 1 : w = Window(years, n, i)
  BY WindowsAre
<1> HIDE DEF N, list
<1> DEFINE I == i..i + n - 1
<1>3. w = {list[j] : j \in I} /\ i \in Int
  BY <1>1, <1>2 DEF Window, list
<1>4. i \in I /\ \A j \in I : j \in 1..N
  BY <1>1, <1>2
<1>5. IsFiniteSet(I) /\ Cardinality(I) = n
  <2>1. i + n - 1 \in Int /\ ~(i > i + n - 1) /\ (i + n - 1) - i + 1 = n
    BY <1>3
  <2> QED  BY <1>3, <2>1, FS_Interval
<1> HIDE DEF I
<1>6. w \in SUBSET years /\ w # {}
  BY <1>1, <1>3, <1>4
<1>7. IsFiniteSet(w) /\ Cardinality(w) <= n
  <2> DEFINE g == [j \in I |-> list[j]]
  <2>1. g \in Surjection(I, w)
    BY <1>3 DEF Surjection
  <2> HIDE DEF g
  <2> QED  BY <1>5, <2>1, FS_Surjection
<1> QED  BY <1>6, <1>7, FS_CardinalityType

\* Years that follow each other have ranks that do.
LEMMA RankOfStretch ==
    ASSUME NEW S, IsFiniteSet(S), \A x \in S : x \in Int, NEW y \in Int, NEW k \in Nat,
           y..y + k - 1 \subseteq S
    PROVE  Rank(S, y + k) = Rank(S, y) + k /\ Rank(S, y) \in Nat
<1> DEFINE a == {x \in S : x < y}
           b == y..y + k - 1
           z == {x \in S : x < y + k}
<1>1. z = a \cup b /\ a \cap b = {} /\ a \subseteq S
  <2>1. ASSUME NEW x \in S
        PROVE  x \in z <=> x \in a \/ x \in b
    OBVIOUS
  <2>2. b \subseteq S /\ a \subseteq S /\ z \subseteq S /\ \A x \in a : x \notin b
    OBVIOUS
  <2> HIDE DEF a, b, z
  <2> QED  BY <2>1, <2>2
<1>2. IsFiniteSet(b) /\ Cardinality(b) = k
  <2>1. y + k - 1 \in Int /\ (y > y + k - 1 => k = 0) /\ (y + k - 1) - y + 1 = k
    OBVIOUS
  <2> QED  BY <2>1, FS_Interval
<1> HIDE DEF a, b
<1>3. IsFiniteSet(a) /\ Cardinality(a) \in Nat
  BY <1>1, FS_Subset, FS_CardinalityType
<1>4. Cardinality({}) = 0
  BY FS_EmptySet
<1>5. Cardinality(a \cup b) = Cardinality(a) + Cardinality(b) - Cardinality(a \cap b)
  BY <1>2, <1>3, FS_Union
<1>6. Cardinality(a \cup b) = Cardinality(a) + k
  <2>1. a \cap b = {}
    BY <1>1
  <2> DEFINE u == Cardinality(a \cup b)  v == Cardinality(a)  x == Cardinality(b)  e == Cardinality(a \cap b)
  <2>2. e = 0 /\ u = v + x - e /\ x = k /\ v \in Nat
    BY <1>2, <1>3, <1>4, <1>5, <2>1
  <2> HIDE DEF u, v, x, e
  <2>3. u = v + k
    BY <2>2
  <2> QED  BY <2>3 DEF u, v
<1>7. Rank(S, y + k) = Cardinality(z) /\ Rank(S, y) = Cardinality(a)
  BY DEF Rank, a
<1> QED  BY <1>1, <1>3, <1>6, <1>7

\* Consecutive calendar years on record are a window.
LEMMA StretchIsWindow ==
    ASSUME NEW years, IsFiniteSet(years), \A x \in years : x \in Int, NEW n \in Nat \ {0},
           NEW y \in Int, y..y + n - 1 \subseteq years
    PROVE  Cardinality(years) >= n /\ y..y + n - 1 \in Windows(years, n)
<1> DEFINE N == Cardinality(years)
           list == Sorted(years)
           r == Rank(years, y)
           i == r + 1
           w == y..y + n - 1
<1>1. N \in Nat
  BY FS_CardinalityType
<1>2. ASSUME NEW k \in 0..n - 1
      PROVE  r + k + 1 \in 1..N /\ list[r + k + 1] = y + k /\ r \in Nat
  <2>1. k \in Nat /\ y..y + k - 1 \subseteq years /\ y + k \in years
    OBVIOUS
  <2>2. Rank(years, y + k) = r + k /\ r \in Nat
    BY <2>1, RankOfStretch
  <2> HIDE DEF r, N, list
  <2>3. Rank(years, y + k) + 1 \in 1..N /\ list[Rank(years, y + k) + 1] = y + k
    BY <2>1, PlaceInList DEF N, list
  <2> QED  BY <2>2, <2>3
<1> HIDE DEF N, list, r
<1>3. r \in Nat
  <2>1. 0 \in 0..n - 1
    OBVIOUS
  <2> QED  BY <1>2, <2>1
<1>4. r + n <= N
  <2>1. n - 1 \in 0..n - 1
    OBVIOUS
  <2>2. r + (n - 1) + 1 \in 1..N
    BY <1>2, <2>1
  <2> QED  BY <1>1, <1>3, <2>2
<1>5. i \in 1..N - n + 1
  BY <1>1, <1>3, <1>4
<1>6. {list[j] : j \in i..i + n - 1} = w
  <2>1. ASSUME NEW j \in i..i + n - 1
        PROVE  list[j] \in w
    <3> DEFINE k == j - i
    <3>1. k \in 0..n - 1 /\ r + k + 1 = j /\ y + k \in w
      BY <1>3
    <3> HIDE DEF k
    <3>2. list[r + k + 1] = y + k
      BY <1>2, <3>1
    <3> QED  BY <3>1, <3>2
  <2>2. ASSUME NEW x \in w
        PROVE  \E j \in i..i + n - 1 : list[j] = x
    <3> DEFINE k == x - y
    <3>1. k \in 0..n - 1 /\ y + k = x /\ r + k + 1 \in i..i + n - 1
      BY <1>3
    <3> HIDE DEF k
    <3>2. list[r + k + 1] = y + k
      BY <1>2, <3>1
    <3> QED  BY <3>1, <3>2
  <2> QED  BY <2>1, <2>2
<1>7. w = Window(years, n, i)
  BY <1>6 DEF Window, list
<1> HIDE DEF i, w
<1>8. w \in Windows(years, n)
  BY <1>5, <1>7, WindowsAre DEF N
<1> QED  BY <1>1, <1>3, <1>4, <1>8 DEF N, w

\* Earnings of some years add up to a whole amount.
LEMMA SumOverIsNatural ==
    ASSUME NEW e, EarningsTable(e), NEW w, IsFiniteSet(w), w \subseteq DOMAIN e
    PROVE  SumOver(e, w) \in Nat
<1>1. \A y \in w : e[y] \in Nat
  BY DEF EarningsTable
<1> QED  BY <1>1, SumOfNaturals DEF SumOver

\* The best window is one of the windows, and no window is better.
LEMMA BestWindowFacts ==
    ASSUME NEW e, EarningsTable(e), NEW years, years \subseteq DOMAIN e, NEW n \in Nat \ {0}
    PROVE  /\ BestWindow(e, years, n) \in Nat
           /\ Cardinality(years) < n => BestWindow(e, years, n) = 0
           /\ Cardinality(years) >= n =>
                 /\ \A w \in Windows(years, n) : RoundHalfUp(SumOver(e, w), n) <= BestWindow(e, years, n)
                 /\ \E w \in Windows(years, n) : BestWindow(e, years, n) = RoundHalfUp(SumOver(e, w), n)
<1> DEFINE N == Cardinality(years)
           W == Windows(years, n)
           f == [w \in W |-> SumOver(e, w)]
           T == {f[w] : w \in W}
           I == 1..N - n + 1
           g == [i \in I |-> Window(years, n, i)]
<1>1. IsFiniteSet(years) /\ (\A y \in years : y \in Int) /\ N \in Nat
  BY FS_Subset, FS_CardinalityType DEF EarningsTable
<1>2. BestWindow(e, years, n) = IF N < n THEN 0 ELSE RoundHalfUp(Max(T), n)
  <2>1. T = {SumOver(e, w) : w \in W}
    OBVIOUS
  <2> HIDE DEF T
  <2> QED  BY <2>1 DEF BestWindow
<1>3. CASE N < n
  BY <1>1, <1>2, <1>3
<1>4. CASE ~(N < n)
  <2>1. W = {g[i] : i \in I}
    BY <1>1, WindowsAre
  <2>2. IsFiniteSet(I) /\ 1 \in I
    <3>1. N - n + 1 \in Int /\ 1 \in I
      BY <1>1, <1>4
    <3> QED  BY <3>1, FS_Interval
  <2>3. IsFiniteSet(W) /\ W # {}
    <3> HIDE DEF W, g, I
    <3> QED  BY <2>1, <2>2, ImageIsFinite
  <2>4. \A w \in W : SumOver(e, w) \in Nat
    <3> TAKE w \in W
    <3>1. w \in SUBSET years /\ IsFiniteSet(w)
      BY <1>1, WindowFacts
    <3> HIDE DEF W
    <3> QED  BY <3>1, SumOverIsNatural
  <2> HIDE DEF W, g, I
  <2>5. (\A t \in T : t \in Nat) /\ \A t \in T : t \in Int
    BY <2>4
  <2>6. IsFiniteSet(T) /\ T # {}
    <3> HIDE DEF f
    <3> QED  BY <2>3, ImageIsFinite
  <2> DEFINE m == Max(T)
  <2>7. m \in T /\ \A t \in T : m >= t
    <3> HIDE DEF T
    <3> QED  BY <2>5, <2>6, MaxExists
  <2>8. m \in Nat /\ \E w \in W : m = SumOver(e, w)
    <3> HIDE DEF m
    <3> QED  BY <2>5, <2>7
  <2>9. \A w \in W : SumOver(e, w) <= m
    <3> HIDE DEF m
    <3> TAKE w \in W
    <3>1. SumOver(e, w) \in T
      OBVIOUS
    <3> QED  BY <2>4, <2>7, <2>8, <3>1
  <2>10. BestWindow(e, years, n) = RoundHalfUp(m, n)
    BY <1>2, <1>4
  <2> HIDE DEF m
  <2>11. RoundHalfUp(m, n) \in Nat /\ \A w \in W : RoundHalfUp(SumOver(e, w), n) <= RoundHalfUp(m, n)
    BY <2>4, <2>8, <2>9, RoundIsNatural, RoundIsMonotone
  <2> QED  BY <1>1, <1>4, <2>8, <2>10, <2>11 DEF W
<1> QED  BY <1>3, <1>4
-----------------------------------------------------------------------------
(* The final average *)

AverageOK(f) ==
    /\ EarningsTable(f.earnings) /\ f.years \subseteq DOMAIN f.earnings
    /\ f.annual \in Nat /\ f.n \in Nat \ {0}
    /\ f.method = "high" => f.annual = BestWindow(f.earnings, f.years, f.n) /\ f.annual > 0

\* The final average is that of the best window, where its method is that of high
\* years.
LEMMA AverageFacts ==
    ASSUME NEW r, NEW c, WholeRequest(r), WholeConfig(c), NEW tier
    PROVE  AverageOK(FinalAverage(r, tier, c))
<1> DEFINE e == SpikeCapped(Earnings(r.history, r.termination, c), c)
           n == IF tier = "I" THEN c.faeYearsI ELSE c.faeYearsII
           from == AcademicYear(r.termination - c.faeLastYears * YearDays, c)
           all == Active(e)
           years == {ay \in all : tier = "I" \/ c.faeLastYears = Never \/ ay >= from}
           best == BestWindow(e, years, n)
           total == SumOver(e, all)
           size == Cardinality(all)
           mean == IF all = {} THEN 0 ELSE RoundHalfUp(total, size)
           f == FinalAverage(r, tier, c)
<1>1. EarningsTable(e)
  <2>1. Salaries(r.history) /\ r.termination \in Int
    BY DEF WholeRequest
  <2> DEFINE raw == Earnings(r.history, r.termination, c)
  <2>2. EarningsTable(raw)
    BY <2>1, EarningsAreNatural
  <2> HIDE DEF raw
  <2>3. EarningsTable(SpikeCapped(raw, c))
    BY <2>2, SpikeKeepsTable
  <2> QED  BY <2>3 DEF raw
<1>2. n \in Nat \ {0}
  BY DEF WholeConfig
<1>3. f = IF best > 0 THEN [annual |-> best, method |-> "high", earnings |-> e, years |-> years, n |-> n]
          ELSE [annual |-> mean, method |-> "actual", earnings |-> e, years |-> all, n |-> n]
  BY Zenon DEF FinalAverage
<1>4. all \subseteq DOMAIN e /\ years \subseteq DOMAIN e
  BY DEF Active
<1> HIDE DEF e, n, all, years
<1>5. best \in Nat
  BY <1>1, <1>2, <1>4, BestWindowFacts
<1>6. mean \in Nat
  <2>1. IsFiniteSet(all)
    BY <1>1, <1>4, FS_Subset DEF EarningsTable
  <2>2. total \in Nat
    BY <1>1, <1>4, <2>1, SumOverIsNatural
  <2>3. all # {} => size \in Nat \ {0}
    BY <2>1, FS_CardinalityType, FS_EmptySet
  <2> HIDE DEF total, size
  <2> QED  BY <2>2, <2>3, RoundIsNatural
<1> HIDE DEF mean, best, f
<1>7. CASE best > 0
  <2>1. f.annual = best /\ f.earnings = e /\ f.years = years /\ f.n = n
    BY <1>3, <1>7
  <2>2. AverageOK(f)
    BY <1>1, <1>2, <1>4, <1>5, <1>7, <2>1 DEF AverageOK, best
  <2> QED  BY <2>2 DEF f
<1>8. CASE ~(best > 0)
  <2>1. f.annual = mean /\ f.earnings = e /\ f.years = all /\ f.n = n /\ f.method = "actual"
    BY <1>3, <1>8
  <2>2. AverageOK(f)
    BY <1>1, <1>2, <1>4, <1>6, <2>1 DEF AverageOK
  <2> QED  BY <2>2 DEF f
<1> QED  BY <1>7, <1>8

\* The best window is bounded by its best year.
LEMMA BestYearBounds ==
    ASSUME NEW e, EarningsTable(e), NEW years, years \subseteq DOMAIN e, NEW n \in Nat \ {0},
           BestWindow(e, years, n) > 0
    PROVE  \E y \in years : BestWindow(e, years, n) <= e[y]
<1>1. IsFiniteSet(years) /\ (\A y \in years : y \in Int) /\ Cardinality(years) \in Nat
      /\ \A y \in DOMAIN e : e[y] \in Nat
  BY FS_Subset, FS_CardinalityType DEF EarningsTable
<1>2. Cardinality(years) >= n
  BY <1>1, BestWindowFacts
<1>3. PICK w \in Windows(years, n) : BestWindow(e, years, n) = RoundHalfUp(SumOver(e, w), n)
  BY <1>2, BestWindowFacts
<1>4. w \in SUBSET years /\ w # {} /\ IsFiniteSet(w) /\ Cardinality(w) \in Nat /\ Cardinality(w) <= n
  BY <1>1, WindowFacts
<1> DEFINE T == {e[y] : y \in w}
           m == Max(T)
<1>5. m \in T /\ \A t \in T : m >= t
  <2>1. IsFiniteSet(T)
    BY <1>4, ImageIsFinite
  <2>2. T # {} /\ \A t \in T : t \in Int
    BY <1>1, <1>4
  <2> HIDE DEF T
  <2> QED  BY <2>1, <2>2, MaxExists
<1> HIDE DEF m
<1>6. PICK y \in w : m = e[y]
  BY <1>5
<1>7. m \in Nat /\ \A x \in w : e[x] \in Nat /\ e[x] <= m
  BY <1>1, <1>4, <1>5, <1>6
<1> DEFINE s == SumOver(e, w)  k == Cardinality(w)
<1>8. s <= k * m /\ s \in Nat
  BY <1>4, <1>7, SumIsBounded, SumOfNaturals DEF SumOver
<1>9. k \in Nat /\ k <= n
  BY <1>4
<1> HIDE DEF s, k
<1>10. k * m <= n * m
  BY <1>7, <1>9
<1>11. s <= n * m
  BY <1>7, <1>8, <1>9, <1>10
<1>12. RoundHalfUp(s, n) <= m
  BY <1>7, <1>8, <1>11, RoundOfMultiple
<1> QED  BY <1>3, <1>4, <1>6, <1>12 DEF s

\* compute_fae finds the best years whatever the salary history: no stretch of
\* years has a better average, and the best year bounds it.
THEOREM FinalAverageBestHolds == PaycheckSpec => []FinalAverageIsBest
<1>1. ASSUME NEW f, AverageOK(f), f.method = "high"
      PROVE  /\ \A y \in f.years : y..y + f.n - 1 \subseteq f.years
                  => RoundHalfUp(SumOver(f.earnings, y..y + f.n - 1), f.n) <= f.annual
             /\ \E y \in f.years : f.annual <= f.earnings[y]
  <2> DEFINE e == f.earnings  years == f.years  n == f.n
  <2>1. /\ EarningsTable(e) /\ years \subseteq DOMAIN e /\ n \in Nat \ {0}
        /\ f.annual = BestWindow(e, years, n) /\ f.annual > 0
    BY <1>1 DEF AverageOK
  <2>2. IsFiniteSet(years) /\ \A y \in years : y \in Int
    BY <2>1, FS_Subset DEF EarningsTable
  <2> HIDE DEF e, years, n
  <2>3. ASSUME NEW y \in years, y..y + n - 1 \subseteq years
        PROVE  RoundHalfUp(SumOver(e, y..y + n - 1), n) <= f.annual
    <3>1. y \in Int /\ Cardinality(years) >= n /\ y..y + n - 1 \in Windows(years, n)
      BY <2>1, <2>2, <2>3, StretchIsWindow
    <3> QED  BY <2>1, <3>1, BestWindowFacts
  <2>4. \E y \in years : f.annual <= e[y]
    BY <2>1, BestYearBounds
  <2> QED  BY <2>3, <2>4 DEF e, years, n
<1>2. BenefitInv => FinalAverageIsBest
  <2> SUFFICES ASSUME BenefitInv, IsBenefit
               PROVE  FinalAverageIsBest
    BY DEF FinalAverageIsBest
  <2> DEFINE r == answer.request  c == answer.config  f == answer.result.fae
  <2>1. WholeRequest(r) /\ WholeConfig(c) /\ answer.result = CalculateBenefit(r, c)
    BY DEF BenefitInv, Calculated
  <2>2. CalculateBenefit(r, c).fae = FinalAverage(r, Tier(r.cert, c.tierCutoff), c)
    <3> HIDE DEF r, c
    <3> QED  BY DEF CalculateBenefit
  <2>3. AverageOK(f)
    <3> HIDE DEF r, c
    <3> QED  BY <2>1, <2>2, AverageFacts
  <2> HIDE DEF f
  <2> QED  BY <1>1, <2>3 DEF FinalAverageIsBest, f
<1> QED  BY <1>2, BenefitInvHolds, PTL
-----------------------------------------------------------------------------
(* Age *)

\* A remainder is what its quotient leaves.
LEMMA RemainderIs ==
    ASSUME NEW a \in Int, NEW d \in Nat \ {0}
    PROVE  a % d = a - d * (a \div d)
OBVIOUS

\* A month later everyone is a month older.
LEMMA MonthOlder ==
    ASSUME NEW birth \in Int, NEW day \in Int
    PROVE  /\ AgeInMonths(birth, day) \in Int
           /\ AgeInMonths(birth, day + MonthDays) = AgeInMonths(birth, day) + 1
<1> DEFINE m == MonthDays  q == day \div m  p == (day + m) \div m  b == birth \div m
<1>1. m \in Nat \ {0}
  BY CalendarAssumption
<1> HIDE DEF m
<1>2. q \in Int /\ b \in Int /\ m * q <= day /\ day < m * q + m /\ day + m \in Int
  BY <1>1, DivisionFacts
<1>3. p = q + 1
  <2>1. m * (q + 1) = m * q + m /\ q + 1 \in Int
    BY <1>1, <1>2
  <2>2. p \in Int
    BY <1>1, <1>2, DivisionFacts
  <2> DEFINE z == m * q
  <2>3. z \in Int /\ z <= day /\ day < z + m /\ m * (q + 1) = z + m
    BY <1>1, <1>2, <2>1
  <2> HIDE DEF z, q, p
  <2>4. day + m >= m * (q + 1) /\ day + m < m * (q + 1) + m
    BY <1>1, <2>3
  <2>5. p >= q + 1 /\ p <= q + 1
    <3> DEFINE k == q + 1
    <3>1. k \in Int /\ day + m >= m * k /\ day + m < m * k + m
      BY <2>1, <2>4
    <3> HIDE DEF k
    <3>2. p >= k /\ p <= k
      BY <1>1, <1>2, <3>1, QuotientBounds DEF p
    <3> QED  BY <3>2 DEF k
  <2> QED  BY <2>1, <2>2, <2>5
<1>4. (day + m) % m = day % m
  <2>1. (day + m) % m = day + m - m * p /\ day % m = day - m * q
    BY <1>1, <1>2, RemainderIs
  <2>2. m * p = m * q + m
    BY <1>1, <1>2, <1>3
  <2> DEFINE z == m * q
  <2>3. z \in Int
    BY <1>1, <1>2
  <2> HIDE DEF z
  <2> QED  BY <1>1, <2>1, <2>2, <2>3 DEF z
<1> DEFINE d == IF day % m < birth % m THEN 1 ELSE 0
<1>5. AgeInMonths(birth, day) = q - b - d /\ AgeInMonths(birth, day + MonthDays) = p - b - d
  BY <1>4 DEF AgeInMonths, m
<1>6. d \in Int
  OBVIOUS
<1> HIDE DEF d, q, p, b
<1> QED  BY <1>2, <1>3, <1>5, <1>6

\* A month later the member is no younger.
LEMMA AgeGrows ==
    ASSUME NEW birth \in Int, NEW day \in Int
    PROVE  /\ Age(birth, day) \in Int /\ Age(birth, day + MonthDays) \in Int
           /\ Age(birth, day) <= Age(birth, day + MonthDays)
<1> DEFINE a == AgeInMonths(birth, day)  q == a \div 12  p == (a + 1) \div 12
<1>1. a \in Int /\ AgeInMonths(birth, day + MonthDays) = a + 1
  BY MonthOlder
<1> HIDE DEF a
<1>2. q \in Int /\ p \in Int /\ q <= p
  BY <1>1
<1> QED  BY <1>1, <1>2 DEF Age, a
-----------------------------------------------------------------------------
(* The maximum *)

\* Percentages that never fall from one age to the next.
Rising(t) ==
    /\ t.from \in Int /\ Len(t.caps) \in Nat \ {0}
    /\ \A i \in 1..Len(t.caps) : t.caps[i] \in Nat
    /\ \A i, j \in 1..Len(t.caps) : i <= j => t.caps[i] <= t.caps[j]

\* A table of caps never falls with age.
LEMMA CapsRise ==
    ASSUME NEW k \in 1..4
    PROVE  Rising(HistoricCaps[k])
<1> DEFINE t == HistoricCaps[k]
           caps == t.caps
<1>1. CASE k = 1
  <2>1. t.from = 60 /\ caps = <<6000, 6167, 6333, 6500, 6667, 6833, 7000>>
    BY <1>1 DEF HistoricCaps
  <2> HIDE DEF caps
  <2>2. Len(caps) = 7 /\ caps[1] = 6000 /\ caps[2] = 6167 /\ caps[3] = 6333 /\ caps[4] = 6500 /\ caps[5] = 6667 /\ caps[6] = 6833 /\ caps[7] = 7000
    BY <2>1
  <2>3. \A i \in 1..7 : i = 1 \/ i = 2 \/ i = 3 \/ i = 4 \/ i = 5 \/ i = 6 \/ i = 7
    OBVIOUS
  <2>4. \A i, j \in 1..7 : i <= j => caps[i] <= caps[j]
    BY <2>2, <2>3
  <2>5. \A i \in 1..7 : caps[i] \in Nat
    BY <2>2, <2>3
  <2> QED  BY <2>1, <2>2, <2>4, <2>5 DEF Rising, caps
<1>2. CASE k = 2
  <2>1. t.from = 60 /\ caps = <<7000, 7167, 7333, 7500, 7667, 7833, 8000>>
    BY <1>2 DEF HistoricCaps
  <2> HIDE DEF caps
  <2>2. Len(caps) = 7 /\ caps[1] = 7000 /\ caps[2] = 7167 /\ caps[3] = 7333 /\ caps[4] = 7500 /\ caps[5] = 7667 /\ caps[6] = 7833 /\ caps[7] = 8000
    BY <2>1
  <2>3. \A i \in 1..7 : i = 1 \/ i = 2 \/ i = 3 \/ i = 4 \/ i = 5 \/ i = 6 \/ i = 7
    OBVIOUS
  <2>4. \A i, j \in 1..7 : i <= j => caps[i] <= caps[j]
    BY <2>2, <2>3
  <2>5. \A i \in 1..7 : caps[i] \in Nat
    BY <2>2, <2>3
  <2> QED  BY <2>1, <2>2, <2>4, <2>5 DEF Rising, caps
<1>3. CASE k = 3
  <2>1. t.from = 60 /\ caps = <<7000, 7200, 7400, 7600, 7800, 8000>>
    BY <1>3 DEF HistoricCaps
  <2> HIDE DEF caps
  <2>2. Len(caps) = 6 /\ caps[1] = 7000 /\ caps[2] = 7200 /\ caps[3] = 7400 /\ caps[4] = 7600 /\ caps[5] = 7800 /\ caps[6] = 8000
    BY <2>1
  <2>3. \A i \in 1..6 : i = 1 \/ i = 2 \/ i = 3 \/ i = 4 \/ i = 5 \/ i = 6
    OBVIOUS
  <2>4. \A i, j \in 1..6 : i <= j => caps[i] <= caps[j]
    BY <2>2, <2>3
  <2>5. \A i \in 1..6 : caps[i] \in Nat
    BY <2>2, <2>3
  <2> QED  BY <2>1, <2>2, <2>4, <2>5 DEF Rising, caps
<1>4. CASE k = 4
  <2>1. t.from = 62 /\ caps = <<7500, 7600, 7800, 8000>>
    BY <1>4 DEF HistoricCaps
  <2> HIDE DEF caps
  <2>2. Len(caps) = 4 /\ caps[1] = 7500 /\ caps[2] = 7600 /\ caps[3] = 7800 /\ caps[4] = 8000
    BY <2>1
  <2>3. \A i \in 1..4 : i = 1 \/ i = 2 \/ i = 3 \/ i = 4
    OBVIOUS
  <2>4. \A i, j \in 1..4 : i <= j => caps[i] <= caps[j]
    BY <2>2, <2>3
  <2>5. \A i \in 1..4 : caps[i] \in Nat
    BY <2>2, <2>3
  <2> QED  BY <2>1, <2>2, <2>4, <2>5 DEF Rising, caps
<1> QED  BY <1>1, <1>2, <1>3, <1>4

\* An age before the first listed counts as the first, one after the last as the last.
Clamp(t, age) == AtLeast(1, AtMost(Len(t.caps), age - t.from + 1))

\* The place in a table of caps moves up with age.
LEMMA ClampGrows ==
    ASSUME NEW t, Rising(t), NEW a \in Int, NEW b \in Int, a <= b
    PROVE  t.caps[Clamp(t, a)] \in Nat /\ t.caps[Clamp(t, a)] <= t.caps[Clamp(t, b)]
<1> DEFINE n == Len(t.caps)  f == t.from  i == Clamp(t, a)  j == Clamp(t, b)
<1>1. n \in Nat \ {0} /\ f \in Int
  BY DEF Rising
<1>2. i \in 1..n /\ j \in 1..n /\ i <= j
  <2>1. i = AtLeast(1, AtMost(n, a - f + 1)) /\ j = AtLeast(1, AtMost(n, b - f + 1))
    BY DEF Clamp
  <2> HIDE DEF n, f, i, j
  <2> QED  BY <1>1, <2>1 DEF AtLeast, AtMost
<1> HIDE DEF i, j
<1>3. t.caps[i] \in Nat /\ t.caps[i] <= t.caps[j]
  BY <1>2 DEF Rising
<1> QED  BY <1>3 DEF i, j

\* The table in force at a date: the first that did not end before it.
TableInForce(k, day) ==
    /\ HistoricCaps[k].before # Never => day < HistoricCaps[k].before
    /\ \A j \in 1..k - 1 : day >= HistoricCaps[j].before

\* A table is in force on each day from the first on.
LEMMA SomeTableInForce ==
    ASSUME NEW day \in Int
    PROVE  \E k \in 1..4 : TableInForce(k, day)
<1> DEFINE b1 == HistoricCaps[1].before  b2 == HistoricCaps[2].before  b3 == HistoricCaps[3].before
           b4 == HistoricCaps[4].before
<1>1. b1 = Date(1969, 8, 15) /\ b2 = Date(1973, 8, 27) /\ b3 = Date(1977, 9, 14) /\ b4 = Never
  BY DEF HistoricCaps
<1> HIDE DEF b1, b2, b3, b4
<1>2. b1 \in Int /\ b2 \in Int /\ b3 \in Int
  <2>1. \A y, m, d \in Int : Date(y, m, d) \in Int
    BY DatesAreIntegers
  <2> QED  BY <1>1, <2>1
<1>3. CASE day < b1
  <2>1. TableInForce(1, day)
    BY <1>3 DEF TableInForce, b1
  <2> QED  BY <2>1
<1>4. CASE day >= b1 /\ day < b2
  <2>1. \A j \in 1..2 - 1 : j = 1
    OBVIOUS
  <2>2. TableInForce(2, day)
    BY <1>4, <2>1 DEF TableInForce, b1, b2
  <2> QED  BY <2>2
<1>5. CASE day >= b1 /\ day >= b2 /\ day < b3
  <2>1. \A j \in 1..3 - 1 : j = 1 \/ j = 2
    OBVIOUS
  <2>2. TableInForce(3, day)
    BY <1>5, <2>1 DEF TableInForce, b1, b2, b3
  <2> QED  BY <2>2
<1>6. CASE day >= b1 /\ day >= b2 /\ day >= b3
  <2>1. \A j \in 1..4 - 1 : j = 1 \/ j = 2 \/ j = 3
    OBVIOUS
  <2>2. TableInForce(4, day)
    BY <1>1, <1>6, <2>1 DEF TableInForce, b1, b2, b3, b4
  <2> QED  BY <2>2
<1> QED  BY <1>2, <1>3, <1>4, <1>5, <1>6

\* The historic cap never falls with age.
LEMMA HistoricCapGrows ==
    ASSUME NEW day \in Int, NEW a \in Int, NEW b \in Int, a <= b, NEW cert
    PROVE  HistoricCap(day, a, cert) \in Nat /\ HistoricCap(day, a, cert) <= HistoricCap(day, b, cert)
<1> DEFINE k == CHOOSE k \in DOMAIN HistoricCaps : TableInForce(k, day)
           t == HistoricCaps[k]
<1>1. \A age : HistoricCap(day, age, cert) =
                 IF cert >= Date(1977, 9, 15) THEN 7500 ELSE t.caps[Clamp(t, age)]
  BY DEF HistoricCap, TableInForce, Clamp
<1>2. DOMAIN HistoricCaps = 1..4
  BY DEF HistoricCaps
<1>3. k \in 1..4
  BY <1>2, SomeTableInForce
<1> HIDE DEF k
<1>4. Rising(t)
  BY <1>3, CapsRise
<1> HIDE DEF t
<1>5. t.caps[Clamp(t, a)] \in Nat /\ t.caps[Clamp(t, a)] <= t.caps[Clamp(t, b)]
  BY <1>4, ClampGrows
<1>6. HistoricCap(day, a, cert) = IF cert >= Date(1977, 9, 15) THEN 7500 ELSE t.caps[Clamp(t, a)]
  BY <1>1
<1>7. HistoricCap(day, b, cert) = IF cert >= Date(1977, 9, 15) THEN 7500 ELSE t.caps[Clamp(t, b)]
  BY <1>1
<1> QED  BY <1>5, <1>6, <1>7

\* The cap on the benefit never falls with age.
LEMMA CapGrows ==
    ASSUME NEW day \in Int, NEW a \in Int, NEW b \in Int, a <= b, NEW cert, NEW c, WholeConfig(c)
    PROVE  BenefitCap(day, a, cert, c) \in Nat /\ BenefitCap(day, a, cert, c) <= BenefitCap(day, b, cert, c)
<1>1. c.capPercent \in Nat
  BY DEF WholeConfig
<1>2. HistoricCap(day, a, cert) \in Nat /\ HistoricCap(day, a, cert) <= HistoricCap(day, b, cert)
  BY HistoricCapGrows
<1> QED  BY <1>1, <1>2 DEF BenefitCap
-----------------------------------------------------------------------------
(* The formulas *)

\* Bands give a whole percentage.
LEMMA ApplyBandsIsNatural ==
    ASSUME NEW q \in Nat, NEW bands \in Bands
    PROVE  ApplyBands(q, bands) \in Nat
<1> DEFINE f == Left(q, bands)
           n == Len(bands)
           v == Priced(f, bands)
           I == DOMAIN bands
<1>1. I = 1..n /\ n \in Nat /\ IsFiniteSet(I)
  BY BandColumns, FS_Interval
<1>2. Fill(f, q, bands)
  BY LeftIsNatural
<1>3. ApplyBands(q, bands) = SumFunctionOnSet(v, I)
  BY ApplyBandsIsSum DEF Priced, SumFunction
<1> HIDE DEF f
<1>4. \A i \in I : v[i] \in Nat
  <2> TAKE i \in I
  <2> DEFINE a == f[i - 1]  b == f[i]  r == bands[i].rate  y == bands[i].years
  <2>1. /\ a \in Nat /\ b \in Nat /\ r \in Nat /\ y \in Nat \cup {Never}
        /\ b = IF y = Never THEN 0 ELSE AtLeast(0, a - y * 4)
        /\ v[i] = (a - b) * r
    BY <1>1, <1>2, BandColumns DEF Fill, Priced, Quarters
  <2> HIDE DEF a, b, r, y, v
  <2>2. a - b \in Nat
    BY <2>1 DEF AtLeast
  <2> QED  BY <2>1, <2>2
<1> HIDE DEF v, I, n
<1> QED  BY <1>1, <1>3, <1>4, SumOfNaturals

\* A product of naturals is a natural.
LEMMA ProductIsNatural == ASSUME NEW a \in Nat, NEW b \in Nat PROVE a * b \in Nat
OBVIOUS

\* A product of naturals grows with its factors.
LEMMA ProductGrows ==
    ASSUME NEW a \in Nat, NEW b \in Nat, a <= b, NEW k \in Nat
    PROVE  k * a <= k * b /\ a * k <= b * k
OBVIOUS

\* A year of benefit is a whole amount.
LEMMA AnnualIsNatural ==
    ASSUME NEW service \in Nat, NEW fae \in Nat, NEW day, NEW c, WholeConfig(c)
    PROVE  GeneralAnnual(service, fae, day, c) \in Nat
<1> DEFINE f == GeneralFactor(service, day, c)
<1>1. c.bands \in Bands /\ c.preBands \in Bands /\ c.multiplier \in Nat
  BY DEF WholeConfig
<1>2. ApplyBands(service, c.bands) \in Nat /\ ApplyBands(service, c.preBands) \in Nat
      /\ service * c.multiplier \in Nat
  BY <1>1, ApplyBandsIsNatural, ProductIsNatural
<1>3. f \in Nat
  BY <1>2 DEF GeneralFactor
<1> HIDE DEF f
<1>4. f * fae \in Nat /\ Quarters * One \in Nat \ {0}
  BY <1>3, ProductIsNatural DEF Quarters, One
<1>5. RoundHalfUp(f * fae, Quarters * One) \in Nat
  BY <1>4, RoundIsNatural
<1> QED  BY <1>5 DEF GeneralAnnual, f

\* A month later there is a month less to reduce for.
LEMMA ShortShrinks ==
    ASSUME NEW tier, NEW birth \in Int, NEW day \in Int, NEW service, NEW c, WholeConfig(c)
    PROVE  /\ MonthsShort(tier, birth, day, service, c) \in Nat
           /\ MonthsShort(tier, birth, day + MonthDays, service, c) \in Nat
           /\ MonthsShort(tier, birth, day + MonthDays, service, c) <= MonthsShort(tier, birth, day, service, c)
<1> DEFINE a == AgeInMonths(birth, day)
           b == AgeInMonths(birth, day + MonthDays)
           n == IF tier = "I" THEN c.normalAgeI ELSE c.normalAgeII
<1>1. a \in Int /\ b = a + 1
  BY MonthOlder
<1>2. n \in Int
  BY DEF WholeConfig
<1>3. /\ MonthsShort(tier, birth, day, service, c) \in {0, AtLeast(0, 12 * n - a)}
      /\ MonthsShort(tier, birth, day + MonthDays, service, c) =
           IF tier = "I" /\ service >= c.noReductionYears * Quarters THEN 0 ELSE AtLeast(0, 12 * n - b)
      /\ MonthsShort(tier, birth, day, service, c) =
           IF tier = "I" /\ service >= c.noReductionYears * Quarters THEN 0 ELSE AtLeast(0, 12 * n - a)
  BY DEF MonthsShort
<1> HIDE DEF a, b, n
<1>4. /\ AtLeast(0, 12 * n - a) \in Nat /\ AtLeast(0, 12 * n - b) \in Nat
      /\ AtLeast(0, 12 * n - b) <= AtLeast(0, 12 * n - a)
  BY <1>1, <1>2 DEF AtLeast
<1> QED  BY <1>3, <1>4

\* The reduction for early retirement shrinks with the months short.
LEMMA FactorGrows ==
    ASSUME NEW tier, NEW s \in Nat, NEW t \in Nat, t <= s, NEW c, WholeConfig(c)
    PROVE  AgeFactor(tier, s, c) \in Nat /\ AgeFactor(tier, t, c) \in Nat
           /\ AgeFactor(tier, s, c) <= AgeFactor(tier, t, c)
<1> DEFINE r == IF tier = "I" THEN c.reductionI ELSE c.reductionII
           a == s * r
           b == t * r
<1>1. r \in Nat
  BY DEF WholeConfig
<1>2. AgeFactor(tier, s, c) = AtLeast(0, One - a) /\ AgeFactor(tier, t, c) = AtLeast(0, One - b)
  BY DEF AgeFactor
<1> HIDE DEF r
<1>3. a \in Nat /\ b \in Nat /\ b <= a
  BY <1>1, ProductIsNatural, ProductGrows
<1> HIDE DEF a, b
<1> QED  BY <1>2, <1>3 DEF AtLeast, One

\* A product and a quotient of it grow with a factor.
LEMMA RoundGrows ==
    ASSUME NEW k \in Nat, NEW a \in Nat, NEW b \in Nat, a <= b, NEW d \in Nat \ {0}
    PROVE  RoundHalfUp(k * a, d) \in Nat /\ RoundHalfUp(k * b, d) \in Nat
           /\ RoundHalfUp(k * a, d) <= RoundHalfUp(k * b, d)
<1> DEFINE x == k * a  y == k * b
<1>1. x \in Nat /\ y \in Nat /\ x <= y
  BY ProductIsNatural, ProductGrows
<1> HIDE DEF x, y
<1>2. RoundHalfUp(x, d) \in Nat /\ RoundHalfUp(y, d) \in Nat /\ RoundHalfUp(x, d) <= RoundHalfUp(y, d)
  BY <1>1, RoundIsNatural, RoundIsMonotone
<1> QED  BY <1>2 DEF x, y

\* The general formula.
General(tier, service, annual, day, short, c) ==
    RoundHalfUp(RoundHalfUp(GeneralAnnual(service, annual, day, c), 12) * AgeFactor(tier, short, c), One)

\* The general formula never falls when fewer months are short.
LEMMA GeneralGrows ==
    ASSUME NEW tier, NEW service \in Nat, NEW annual \in Nat, NEW day, NEW c, WholeConfig(c),
           NEW s \in Nat, NEW t \in Nat, t <= s
    PROVE  /\ General(tier, service, annual, day, s, c) \in Nat
           /\ General(tier, service, annual, day, t, c) \in Nat
           /\ General(tier, service, annual, day, s, c) <= General(tier, service, annual, day, t, c)
<1> DEFINE k == RoundHalfUp(GeneralAnnual(service, annual, day, c), 12)
           a == AgeFactor(tier, s, c)
           b == AgeFactor(tier, t, c)
<1>1. k \in Nat
  <2> DEFINE g == GeneralAnnual(service, annual, day, c)
  <2>1. g \in Nat
    BY AnnualIsNatural
  <2> HIDE DEF g
  <2>2. RoundHalfUp(g, 12) \in Nat
    BY <2>1, RoundIsNatural
  <2> QED  BY <2>2 DEF g
<1>2. a \in Nat /\ b \in Nat /\ a <= b
  BY FactorGrows
<1>3. One \in Nat \ {0}
  BY DEF One
<1> HIDE DEF k, a, b
<1>4. RoundHalfUp(k * a, One) \in Nat /\ RoundHalfUp(k * b, One) \in Nat
      /\ RoundHalfUp(k * a, One) <= RoundHalfUp(k * b, One)
  BY <1>1, <1>2, <1>3, RoundGrows
<1> QED  BY <1>4 DEF General, k, a, b

\* The money purchase formula gives a whole amount.
LEMMA MoneyPurchaseIsNatural ==
    ASSUME NEW mp, WholePurchase(mp), NEW factor \in Nat
    PROVE  MoneyPurchaseMonthly(mp, factor) \in Nat
<1> DEFINE a == mp.normal * 240  b == mp.ope * 200  d == mp.military * 100
<1>1. a \in Nat /\ b \in Nat /\ d \in Nat
  BY DEF WholePurchase
<1> HIDE DEF a, b, d
<1>2. CASE factor = 0
  BY <1>2 DEF MoneyPurchaseMonthly
<1>3. CASE factor # 0
  <2> DEFINE x == RoundHalfUp(a, factor)  y == RoundHalfUp(b, factor)  z == RoundHalfUp(d, factor)
  <2>1. x \in Nat /\ y \in Nat /\ z \in Nat
    BY <1>1, <1>3, RoundIsNatural
  <2>2. MoneyPurchaseMonthly(mp, factor) = x + y + z
    BY <1>3 DEF MoneyPurchaseMonthly, a, b, d
  <2> HIDE DEF x, y, z
  <2> QED  BY <2>1, <2>2
<1> QED  BY <1>2, <1>3

\* The formula of police and fire gives a whole amount.
LEMMA PoliceFireIsNatural ==
    ASSUME NEW service \in Nat, NEW fae \in Nat, NEW c, WholeConfig(c)
    PROVE  PoliceFireMonthly(service, fae, c) \in Nat
<1> DEFINE f == AtMost(c.pfMax * Quarters, ApplyBands(service, c.pfBands))
           a == RoundHalfUp(f * fae, Quarters * One)
<1>1. c.pfBands \in Bands /\ c.pfMax \in Nat
  BY DEF WholeConfig
<1>2. f \in Nat
  <2>1. ApplyBands(service, c.pfBands) \in Nat /\ c.pfMax * Quarters \in Nat
    BY <1>1, ApplyBandsIsNatural DEF Quarters
  <2> QED  BY <2>1 DEF AtMost
<1> HIDE DEF f
<1>3. f * fae \in Nat /\ Quarters * One \in Nat \ {0}
  BY <1>2, ProductIsNatural DEF Quarters, One
<1>4. a \in Nat
  BY <1>3, RoundIsNatural
<1> HIDE DEF a
<1>5. RoundHalfUp(a, 12) \in Nat
  BY <1>4, RoundIsNatural
<1> QED  BY <1>5 DEF PoliceFireMonthly, a, f
-----------------------------------------------------------------------------
(* The annuity before the option *)

\* The greatest of three grows with each of them.
LEMMA MaxOfThree ==
    ASSUME NEW a \in Nat, NEW b \in Nat, NEW d \in Nat
    PROVE  LET m == Max({a, b, d}) IN m \in Nat /\ m >= a /\ m >= b /\ m >= d /\ m \in {a, b, d}
<1> DEFINE S == {a, b, d}
<1>1. IsFiniteSet(S)
  <2>1. IsFiniteSet({}) /\ S = (({} \cup {a}) \cup {b}) \cup {d}
    BY FS_EmptySet
  <2> HIDE DEF S
  <2>2. IsFiniteSet({} \cup {a})
    BY <2>1, FS_AddElement
  <2>3. IsFiniteSet(({} \cup {a}) \cup {b})
    BY <2>2, FS_AddElement
  <2> QED  BY <2>1, <2>3, FS_AddElement
<1>2. S # {} /\ \A x \in S : x \in Int
  OBVIOUS
<1>3. Max(S) \in S /\ \A x \in S : Max(S) >= x
  <2> HIDE DEF S
  <2> QED  BY <1>1, <1>2, MaxExists
<1> QED  BY <1>3

\* The steps of CalculateBenefit, from a request to its base.
TierOf(r, c) == Tier(r.cert, c.tierCutoff)
ServiceOf(r, c) == TotalService(r, SickLeaveCredit(r.sickDays, r.retirement, r.termination, c))
AnnualOf(r, c) == FinalAverage(r, TierOf(r, c), c).annual
ShortOf(r, c) == MonthsShort(TierOf(r, c), r.birth, r.retirement, ServiceOf(r, c), c)
CapOn(r, c) == RoundHalfUp(AnnualOf(r, c) * BenefitCap(r.termination, Age(r.birth, r.retirement), r.cert, c), 12 * One)
GeneralOf(r, c) == General(TierOf(r, c), ServiceOf(r, c), AnnualOf(r, c), r.termination, ShortOf(r, c), c)
PoliceOf(r, c) == PoliceFire(r, TierOf(r, c), AnnualOf(r, c), c)
BaseOf(r, c) == AtMost(CapOn(r, c), Max({GeneralOf(r, c), MoneyPurchase(r, c), PoliceOf(r, c)}))

\* The parts CalculateBenefit is made of, by name.
LEMMA BaseIs ==
    ASSUME NEW r, NEW c
    PROVE  /\ CalculateBenefit(r, c).base = BaseOf(r, c)
           /\ CalculateBenefit(r, c).final =
                ApplyOption(r.option, BaseOf(r, c), Age(r.birth, r.retirement)).final
BY DEF CalculateBenefit, BaseOf, CapOn, GeneralOf, General, GeneralMonthly, PoliceOf, AnnualOf,
       ShortOf, ServiceOf, TierOf

\* What each step returns.
StepsAreNatural(r, c) ==
    /\ ServiceOf(r, c) \in Nat /\ AnnualOf(r, c) \in Nat /\ ShortOf(r, c) \in Nat
    /\ CapOn(r, c) \in Nat /\ GeneralOf(r, c) \in Nat
    /\ MoneyPurchase(r, c) \in Nat /\ PoliceOf(r, c) \in Nat /\ BaseOf(r, c) \in Nat

\* Every part of a calculation is a whole number.
LEMMA Steps ==
    ASSUME NEW r, NEW c, WholeRequest(r), WholeConfig(c)
    PROVE  StepsAreNatural(r, c)
<1>1. /\ r.birth \in Int /\ r.retirement \in Int /\ r.termination \in Int
      /\ r.factor \in Nat \cup {Never} /\ r.policeFireService \in Nat \cup {Never}
      /\ r.purchase # Never => WholePurchase(r.purchase)
  BY DEF WholeRequest
<1>2. ServiceOf(r, c) \in Nat
  <2>1. CalculateBenefit(r, c).service = ServiceOf(r, c)
    BY ServiceIsNatural DEF ServiceOf
  <2> QED  BY <2>1, ServiceIsNatural
<1>3. AnnualOf(r, c) \in Nat
  BY AverageFacts DEF AnnualOf, AverageOK
<1>4. ShortOf(r, c) \in Nat
  BY <1>1, ShortShrinks DEF ShortOf
<1>5. CapOn(r, c) \in Nat
  <2> DEFINE age == Age(r.birth, r.retirement)
             cap == BenefitCap(r.termination, age, r.cert, c)
             a == AnnualOf(r, c)
  <2>1. age \in Int
    BY <1>1, AgeGrows
  <2> HIDE DEF age
  <2>2. cap \in Nat
    BY <1>1, <2>1, CapGrows
  <2>3. 12 * One \in Nat \ {0}
    BY DEF One
  <2> HIDE DEF cap
  <2>4. a * cap \in Nat
    BY <1>3, <2>2, ProductIsNatural
  <2>5. RoundHalfUp(a * cap, 12 * One) \in Nat
    BY <2>3, <2>4, RoundIsNatural
  <2> QED  BY <2>5 DEF CapOn, cap, age
<1>6. GeneralOf(r, c) \in Nat
  BY <1>2, <1>3, <1>4, GeneralGrows DEF GeneralOf
<1>7. MoneyPurchase(r, c) \in Nat
  <2>1. CASE r.purchase # Never /\ r.factor # Never
    <3>1. MoneyPurchaseMonthly(r.purchase, r.factor) \in Nat
      BY <1>1, <2>1, MoneyPurchaseIsNatural
    <3> QED  BY <3>1 DEF MoneyPurchase
  <2>2. CASE ~(r.purchase # Never /\ r.factor # Never)
    BY <2>2 DEF MoneyPurchase
  <2> QED  BY <2>1, <2>2
<1>8. PoliceOf(r, c) \in Nat
  <2>1. CASE r.policeFireService # Never
    <3>1. PoliceFireMonthly(r.policeFireService, AnnualOf(r, c), c) \in Nat
      BY <1>1, <1>3, <2>1, PoliceFireIsNatural
    <3> QED  BY <3>1 DEF PoliceOf, PoliceFire
  <2>2. CASE ~(r.policeFireService # Never)
    BY <2>2 DEF PoliceOf, PoliceFire
  <2> QED  BY <2>1, <2>2
<1>9. BaseOf(r, c) \in Nat
  <2> DEFINE m == Max({GeneralOf(r, c), MoneyPurchase(r, c), PoliceOf(r, c)})
  <2>1. m \in Nat
    BY <1>6, <1>7, <1>8, MaxOfThree
  <2> HIDE DEF m
  <2>2. AtMost(CapOn(r, c), m) \in Nat
    BY <1>5, <2>1 DEF AtMost
  <2> QED  BY <2>2 DEF BaseOf, m
<1> QED  BY <1>2, <1>3, <1>4, <1>5, <1>6, <1>7, <1>8, <1>9 DEF StepsAreNatural
-----------------------------------------------------------------------------
(* Retiring a month later *)

\* The final average as a function of what it reads of the request.
AverageBy(history, termination, tier, c) ==
    LET capped == SpikeCapped(Earnings(history, termination, c), c)
        n      == IF tier = "I" THEN c.faeYearsI ELSE c.faeYearsII
        from   == AcademicYear(termination - c.faeLastYears * YearDays, c)
        years  == {ay \in Active(capped) : tier = "I" \/ c.faeLastYears = Never \/ ay >= from}
        best   == BestWindow(capped, years, n)
    IN  IF best > 0 THEN [annual |-> best, method |-> "high", earnings |-> capped, years |-> years, n |-> n]
        ELSE [annual |-> IF Active(capped) = {} THEN 0
                         ELSE RoundHalfUp(SumOver(capped, Active(capped)), Cardinality(Active(capped))),
              method |-> "actual", earnings |-> capped, years |-> Active(capped), n |-> n]

\* The final average reads the history, the termination and nothing of the
\* retirement date.
LEMMA AverageReads ==
    ASSUME NEW r, NEW tier, NEW c
    PROVE  FinalAverage(r, tier, c) = AverageBy(r.history, r.termination, tier, c)
BY DEF FinalAverage, AverageBy

\* The same request a month later.
Later(r) == [r EXCEPT !.retirement = @ + MonthDays]

\* They differ in the date of retirement only.
MonthApart(r, l) ==
    /\ l.retirement = r.retirement + MonthDays
    /\ l.plan = r.plan /\ l.cert = r.cert /\ l.birth = r.birth /\ l.termination = r.termination
    /\ l.system = r.system /\ l.ope = r.ope /\ l.military = r.military /\ l.reciprocal = r.reciprocal
    /\ l.sickDays = r.sickDays /\ l.history = r.history /\ l.purchase = r.purchase /\ l.factor = r.factor
    /\ l.policeFire = r.policeFire /\ l.policeFireService = r.policeFireService /\ l.option = r.option

\* The later request differs in its date alone.
LEMMA LaterIsMonthApart ==
    ASSUME NEW r, WholeRequest(r)
    PROVE  MonthApart(r, Later(r)) /\ WholeRequest(Later(r))
<1> DEFINE l == Later(r)
<1>1. DOMAIN r = {"plan", "cert", "birth", "retirement", "termination", "system", "ope", "military",
                  "reciprocal", "sickDays", "history", "purchase", "factor", "policeFire",
                  "policeFireService", "option"}
  BY DEF WholeRequest
<1>2. DOMAIN l = DOMAIN r /\ MonthApart(r, l)
  BY <1>1 DEF Later, MonthApart
<1> HIDE DEF l
<1>3. r.retirement \in Int /\ MonthDays \in Int
  BY CalendarAssumption DEF WholeRequest
<1>4. l.retirement \in Int
  BY <1>2, <1>3 DEF MonthApart
<1>5. WholeRequest(l)
  BY <1>2, <1>4 DEF MonthApart, WholeRequest
<1> QED  BY <1>2, <1>5 DEF l

\* Who is eligible for the formula of police and fire still is a month later.
LEMMA EligibleStays ==
    ASSUME NEW tier, NEW a \in Int, NEW b \in Int, a <= b, NEW service, NEW c, WholeConfig(c),
           PoliceFireEligible(tier, a, service, c)
    PROVE  PoliceFireEligible(tier, b, service, c)
<1>1. c.pfAgeII \in Int /\ \A rule \in c.pfRules : rule.age \in Int
  BY DEF WholeConfig
<1>2. \A n \in Int : a >= n => b >= n
  OBVIOUS
<1>3. CASE tier = "II"
  BY <1>1, <1>2, <1>3 DEF PoliceFireEligible
<1>4. CASE tier # "II"
  <2>1. PICK rule \in c.pfRules :
            /\ a >= rule.age
            /\ service >= rule.years * Quarters
            /\ rule.below # Never => service < rule.below * Quarters
    BY <1>4 DEF PoliceFireEligible
  <2>2. b >= rule.age
    BY <1>1, <1>2, <2>1
  <2> QED  BY <1>4, <2>1, <2>2 DEF PoliceFireEligible
<1> QED  BY <1>3, <1>4

\* The annuity before the option never falls when it starts a month later.
LEMMA BaseGrows ==
    ASSUME NEW r, NEW l, NEW c, WholeRequest(r), WholeRequest(l), WholeConfig(c), MonthApart(r, l),
           SickLeaveCredit(l.sickDays, l.retirement, l.termination, c)
             = SickLeaveCredit(r.sickDays, r.retirement, r.termination, c)
    PROVE  BaseOf(r, c) <= BaseOf(l, c)
<1>1. /\ r.birth \in Int /\ r.retirement \in Int /\ r.termination \in Int
      /\ l.retirement = r.retirement + MonthDays
      /\ l.cert = r.cert /\ l.birth = r.birth /\ l.termination = r.termination /\ l.history = r.history
  BY DEF WholeRequest, MonthApart
<1>2. TierOf(l, c) = TierOf(r, c) /\ ServiceOf(l, c) = ServiceOf(r, c)
  BY DEF TierOf, ServiceOf, TotalService, MonthApart
<1>3. AnnualOf(l, c) = AnnualOf(r, c)
  BY <1>1, <1>2, AverageReads DEF AnnualOf
<1>4. StepsAreNatural(r, c) /\ StepsAreNatural(l, c)
  BY Steps
<1> DEFINE a == Age(r.birth, r.retirement)
           b == Age(l.birth, l.retirement)
<1>5. a \in Int /\ b \in Int /\ a <= b
  BY <1>1, AgeGrows
<1> HIDE DEF a, b
<1>6. CapOn(r, c) <= CapOn(l, c)
  <2> DEFINE x == BenefitCap(r.termination, a, r.cert, c)
             y == BenefitCap(r.termination, b, r.cert, c)
             m == AnnualOf(r, c)
             d == 12 * One
  <2>1. x \in Nat /\ y \in Nat /\ x <= y
    BY <1>1, <1>5, CapGrows
  <2>2. m \in Nat /\ d \in Nat \ {0}
    BY <1>4 DEF StepsAreNatural, One
  <2>3. CapOn(r, c) = RoundHalfUp(m * x, d) /\ CapOn(l, c) = RoundHalfUp(m * y, d)
    BY <1>1, <1>3 DEF CapOn, a, b
  <2> HIDE DEF x, y, m, d
  <2>4. RoundHalfUp(m * x, d) <= RoundHalfUp(m * y, d)
    BY <2>1, <2>2, RoundGrows
  <2> QED  BY <2>3, <2>4
<1>7. GeneralOf(r, c) <= GeneralOf(l, c)
  <2>1. /\ ShortOf(l, c) \in Nat /\ ShortOf(r, c) \in Nat /\ ShortOf(l, c) <= ShortOf(r, c)
    BY <1>1, <1>2, ShortShrinks DEF ShortOf
  <2>2. ServiceOf(r, c) \in Nat /\ AnnualOf(r, c) \in Nat
    BY <1>4 DEF StepsAreNatural
  <2> QED  BY <1>1, <1>2, <1>3, <2>1, <2>2, GeneralGrows DEF GeneralOf
<1>8. MoneyPurchase(l, c) = MoneyPurchase(r, c)
  BY DEF MoneyPurchase, MonthApart
<1>9. PoliceOf(r, c) <= PoliceOf(l, c)
  <2>1. l.policeFire = r.policeFire /\ l.policeFireService = r.policeFireService
    BY DEF MonthApart
  <2>2. PoliceFireEligible(TierOf(r, c), a, r.policeFireService, c)
          => PoliceFireEligible(TierOf(l, c), b, l.policeFireService, c)
    BY <1>2, <1>5, <2>1, EligibleStays
  <2>3. PoliceOf(r, c) \in Nat /\ PoliceOf(l, c) \in Nat
    BY <1>4 DEF StepsAreNatural
  <2> QED  BY <1>2, <1>3, <2>1, <2>2, <2>3 DEF PoliceOf, PoliceFire, a, b
<1> DEFINE x1 == GeneralOf(r, c)  x2 == MoneyPurchase(r, c)  x3 == PoliceOf(r, c)  xc == CapOn(r, c)
           y1 == GeneralOf(l, c)  y2 == MoneyPurchase(l, c)  y3 == PoliceOf(l, c)  yc == CapOn(l, c)
           m == Max({x1, x2, x3})
           n == Max({y1, y2, y3})
<1>10. /\ x1 \in Nat /\ x2 \in Nat /\ x3 \in Nat /\ y1 \in Nat /\ y2 \in Nat /\ y3 \in Nat
       /\ xc \in Nat /\ yc \in Nat
  BY <1>4 DEF StepsAreNatural
<1>11. BaseOf(r, c) = AtMost(xc, m) /\ BaseOf(l, c) = AtMost(yc, n)
  BY DEF BaseOf
<1>12. x1 <= y1 /\ x2 = y2 /\ x3 <= y3 /\ xc <= yc
  BY <1>6, <1>7, <1>8, <1>9
<1> HIDE DEF x1, x2, x3, y1, y2, y3, xc, yc
<1>13. m \in Nat /\ m \in {x1, x2, x3} /\ n \in Nat /\ n >= y1 /\ n >= y2 /\ n >= y3
  BY <1>10, MaxOfThree
<1> HIDE DEF m, n
<1>14. m <= n
  BY <1>10, <1>12, <1>13
<1>15. AtMost(xc, m) <= AtMost(yc, n)
  BY <1>10, <1>12, <1>13, <1>14 DEF AtMost
<1> QED  BY <1>11, <1>15

\* Retiring a month later never lowers the annuity calculate_benefit finds before
\* the option, whatever the file, the rules and the tables.
THEOREM LaterIsNotLessHolds == PaycheckSpec => []LaterIsNotLess
<1>1. BenefitInv => LaterIsNotLess
  <2> SUFFICES ASSUME BenefitInv, IsBenefit
               PROVE  LaterIsNotLess
    BY DEF LaterIsNotLess
  <2> DEFINE r == answer.request  c == answer.config  l == Later(r)
             x == CalculateBenefit(r, c)  y == CalculateBenefit(l, c)
  <2>1. WholeRequest(r) /\ WholeConfig(c) /\ answer.result = x
    BY DEF BenefitInv, Calculated
  <2> HIDE DEF r, c
  <2>2. MonthApart(r, l) /\ WholeRequest(l)
    BY <2>1, LaterIsMonthApart
  <2> HIDE DEF l
  <2>3. /\ x.sick = SickLeaveCredit(r.sickDays, r.retirement, r.termination, c)
        /\ y.sick = SickLeaveCredit(l.sickDays, l.retirement, l.termination, c)
    BY <2>1, <2>2, ServiceIsNatural
  <2>4. x.base = BaseOf(r, c) /\ y.base = BaseOf(l, c)
    BY BaseIs
  <2>5. BaseOf(r, c) \in Nat /\ BaseOf(l, c) \in Nat
    BY <2>1, <2>2, Steps DEF StepsAreNatural
  <2>6. y.sick = x.sick => y.base >= x.base
    BY <2>1, <2>2, <2>3, <2>4, <2>5, BaseGrows
  <2> HIDE DEF x, y
  <2> QED  BY <2>1, <2>6 DEF LaterIsNotLess, r, c, l, x, y, Later
<1> QED  BY <1>1, BenefitInvHolds, PTL
-----------------------------------------------------------------------------
(* The option *)

\* An age is looked up within the tables of factors.
LEMMA AgeInTable ==
    ASSUME NEW age \in Int
    PROVE  TableAge(age) \in 1..MaxTableAge
<1>1. MaxTableAge \in Nat \ {0}
  BY FactorsAssumption
<1> QED  BY <1>1 DEF TableAge, AtLeast, AtMost

\* What the member keeps.
LEMMA OptionIsNatural ==
    ASSUME NEW o, NEW plan, ~Refused(o, plan), o.age \in Int \cup {Never}, o.desired \in Nat \cup {Never},
           NEW base \in Nat, NEW age \in Int
    PROVE  ApplyOption(o, base, age).final \in Nat
<1>1. CASE o.type = "reversionary"
  <2>1. o.age \in Int /\ o.desired \in Nat
    BY <1>1 DEF Refused
  <2> DEFINE factor == ReversionaryFactor[TableAge(o.age)][TableAge(age)]
             reduction == RoundHalfUp(o.desired * factor, 1000000)
  <2>2. factor \in Nat
    BY <2>1, AgeInTable, FactorsAssumption
  <2> HIDE DEF factor
  <2>3. o.desired * factor \in Nat
    BY <2>1, <2>2, ProductIsNatural
  <2>4. reduction \in Nat
    BY <2>3, RoundIsNatural
  <2>5. ApplyOption(o, base, age).final = AtLeast(0, base - reduction)
    BY <1>1 DEF ApplyOption, Reversionary, factor
  <2> HIDE DEF reduction
  <2> QED  BY <2>4, <2>5 DEF AtLeast
<1>2. CASE o.type # "reversionary" /\ o.type \in DOMAIN Survivors
  <2>1. o.age \in Int
    BY <1>2 DEF Refused
  <2> DEFINE factor == JsFactor[o.type][TableAge(o.age)][TableAge(age)]
  <2>2. factor \in Nat
    BY <1>2, <2>1, AgeInTable, FactorsAssumption
  <2>3. ApplyOption(o, base, age).final = RoundHalfUp(base * factor, One)
    BY <1>2 DEF ApplyOption, JointAndSurvivor
  <2> HIDE DEF factor
  <2>4. base * factor \in Nat /\ One \in Nat \ {0}
    BY <2>2, ProductIsNatural DEF One
  <2>5. RoundHalfUp(base * factor, One) \in Nat
    BY <2>4, RoundIsNatural
  <2> QED  BY <2>3, <2>5
<1>3. CASE o.type # "reversionary" /\ o.type \notin DOMAIN Survivors
  BY <1>3 DEF ApplyOption
<1> QED  BY <1>1, <1>2, <1>3

\* An annuity is a whole amount, 0 at the least.
LEMMA FinalIsNatural ==
    ASSUME NEW a, Calculated(a)
    PROVE  a.result.final \in Nat
<1> DEFINE r == a.request  c == a.config  base == BaseOf(r, c)  age == Age(r.birth, r.retirement)
<1>1. WholeRequest(r) /\ WholeConfig(c) /\ ~Refused(r.option, r.plan) /\ a.result = CalculateBenefit(r, c)
  BY DEF Calculated
<1> HIDE DEF r, c
<1>2. base \in Nat
  BY <1>1, Steps DEF StepsAreNatural
<1>3. age \in Int /\ r.option.age \in Int \cup {Never} /\ r.option.desired \in Nat \cup {Never}
  BY <1>1, AgeGrows DEF WholeRequest
<1>4. a.result.final = ApplyOption(r.option, base, age).final
  BY <1>1, BaseIs
<1> HIDE DEF base, age
<1> QED  BY <1>1, <1>2, <1>3, <1>4, OptionIsNatural
-----------------------------------------------------------------------------
(* Tax tables *)

\* The table of a status is one of those there are.
LEMMA TableIsOneOf ==
    ASSUME NEW tables, "single" \in DOMAIN tables, NEW s
    PROVE  \E t \in DOMAIN tables : TableOf(tables, s) = tables[t]
<1>1. CASE s \in DOMAIN tables
  BY <1>1 DEF TableOf
<1>2. CASE s \notin DOMAIN tables /\ Alias(s) \in DOMAIN tables
  BY <1>2 DEF TableOf
<1>3. CASE s \notin DOMAIN tables /\ Alias(s) \notin DOMAIN tables
  BY <1>3 DEF TableOf
<1> QED  BY <1>1, <1>2, <1>3

\* The columns of any table.
AnyColumns(t) ==
    /\ Len(t) \in Nat /\ DOMAIN t = 1..Len(t)
    /\ \A i \in 1..Len(t) : /\ t[i].min \in Nat /\ t[i].max \in Nat \cup {Unbounded}
                            /\ t[i].rate \in Nat /\ t[i].base \in Nat

\* The columns of a table with one bracket after the other.
TableColumns(t) ==
    /\ AnyColumns(t) /\ Len(t) # 0
    /\ t[1].min = 0 /\ t[Len(t)].max = Unbounded
    /\ \A i \in 1..Len(t) - 1 :
          t[i].max \in Nat /\ t[i].max >= t[i].min /\ t[i + 1].min = t[i].max

\* Any table has the columns, whatever is in its rows.
LEMMA RowColumns ==
    ASSUME NEW t, t \in Seq(TaxBands)
    PROVE  AnyColumns(t) /\ (Contiguous(t) => TableColumns(t))
<1>1. ASSUME NEW row \in TaxBands
      PROVE  /\ row.min \in Nat /\ row.max \in Nat \cup {Unbounded}
             /\ row.rate \in Nat /\ row.base \in Nat
  BY DEF TaxBands
<1>2. /\ Len(t) \in Nat /\ DOMAIN t = 1..Len(t) /\ \A i \in 1..Len(t) : t[i] \in TaxBands
      /\ (t # <<>> => Len(t) # 0)
  OBVIOUS
<1>3. AnyColumns(t)
  BY <1>1, <1>2 DEF AnyColumns
<1>4. Contiguous(t) => TableColumns(t)
  BY <1>2, <1>3 DEF Contiguous, TableColumns
<1> QED  BY <1>3, <1>4

\* Brackets come in the order of their amounts.
LEMMA MinsRise ==
    ASSUME NEW t, TableColumns(t), NEW i \in 1..Len(t), NEW j \in 1..Len(t), i <= j
    PROVE  t[i].min <= t[j].min
<1> DEFINE n == Len(t)
           S == {k \in Nat : i + k <= n => t[i].min <= t[i + k].min}
<1>1. n \in Nat /\ \A k \in 1..n : t[k].min \in Nat
  BY DEF TableColumns, AnyColumns
<1>2. \A k \in 1..n - 1 : t[k].min <= t[k + 1].min
  BY DEF TableColumns, AnyColumns
<1>3. 0 \in S
  BY <1>1
<1>4. ASSUME NEW k \in Nat, k \in S
      PROVE  k + 1 \in S
  <2>1. CASE i + (k + 1) <= n
    <3> DEFINE l == i + k
    <3>1. l \in 1..n - 1 /\ l \in 1..n /\ l + 1 \in 1..n /\ i + (k + 1) = l + 1
      BY <1>1, <2>1
    <3>2. t[i].min <= t[l].min
      BY <1>4, <2>1, <1>1
    <3> HIDE DEF l
    <3>3. t[i].min <= t[l + 1].min
      BY <1>1, <1>2, <3>1, <3>2
    <3> QED  BY <3>1, <3>3
  <2>2. CASE ~(i + (k + 1) <= n)
    BY <2>2
  <2> QED  BY <2>1, <2>2
<1> HIDE DEF S
<1>5. Nat \subseteq S
  BY <1>3, <1>4, NaturalInduction
<1>6. j - i \in S /\ i + (j - i) = j
  BY <1>5
<1> QED  BY <1>6 DEF S, n

\* What falls into a bracket, at its rate; MarginalTax adds these up.
Portion(x, t) ==
    [i \in DOMAIN t |->
        AtLeast(0, (IF t[i].max = Unbounded THEN x ELSE AtMost(x, t[i].max)) - t[i].min) * t[i].rate]

\* MarginalTax adds up the portions.
LEMMA MarginalTaxIsSum ==
    ASSUME NEW x, NEW t
    PROVE  MarginalTax(x, t) = SumFunctionOnSet(Portion(x, t), DOMAIN t)
BY DEF MarginalTax, Portion, SumFunction

\* A portion is a whole amount.
LEMMA PortionIsNatural ==
    ASSUME NEW x \in Nat, NEW t, TableColumns(t), NEW i \in 1..Len(t)
    PROVE  Portion(x, t)[i] \in Nat
<1> DEFINE a == t[i].min  b == t[i].max  r == t[i].rate
           m == AtLeast(0, (IF b = Unbounded THEN x ELSE AtMost(x, b)) - a)
<1>1. a \in Nat /\ b \in Nat \cup {Unbounded} /\ r \in Nat
  BY DEF TableColumns, AnyColumns
<1>2. Portion(x, t)[i] = m * r
  BY DEF Portion, TableColumns
<1> HIDE DEF a, b, r
<1>3. m \in Nat
  BY <1>1 DEF AtLeast, AtMost
<1> HIDE DEF m
<1> QED  BY <1>1, <1>2, <1>3

\* A bracket an amount is past, the one it is within, and those it stays below.
LEMMA PortionCases ==
    ASSUME NEW x \in Nat, NEW t, TableColumns(t), NEW i \in 1..Len(t)
    PROVE  /\ t[i].max \in Nat /\ x >= t[i].max /\ t[i].max >= t[i].min
                => Portion(x, t)[i] = (t[i].max - t[i].min) * t[i].rate
           /\ Within(x, t[i]) => Portion(x, t)[i] = (x - t[i].min) * t[i].rate
           /\ x <= t[i].min => Portion(x, t)[i] = 0
<1> DEFINE a == t[i].min  b == t[i].max  r == t[i].rate
           m == AtLeast(0, (IF b = Unbounded THEN x ELSE AtMost(x, b)) - a)
<1>1. a \in Nat /\ b \in Nat \cup {Unbounded} /\ r \in Nat
  BY DEF TableColumns, AnyColumns
<1>2. Portion(x, t)[i] = m * r
  BY DEF Portion, TableColumns
<1>3. Within(x, t[i]) <=> x > a /\ (b # Unbounded => x <= b)
  BY DEF Within
<1> HIDE DEF a, b, r
<1>4. b \in Nat /\ x >= b /\ b >= a => m = b - a
  BY <1>1, UnboundedAssumption DEF AtLeast, AtMost
<1>5. Within(x, t[i]) => m = x - a
  BY <1>1, <1>3 DEF AtLeast, AtMost
<1>6. x <= a => m = 0
  BY <1>1 DEF AtLeast, AtMost
<1> HIDE DEF m
<1>7. 0 * r = 0
  BY <1>1
<1> QED  BY <1>2, <1>4, <1>5, <1>6, <1>7 DEF a, b, r

\* One more index of a sum from 1.
LEMMA SumToNext ==
    ASSUME NEW w, NEW i \in Nat, \A j \in 1..i + 1 : w[j] \in Nat
    PROVE  /\ SumFunctionOnSet(w, 1..i + 1) = SumFunctionOnSet(w, 1..i) + w[i + 1]
           /\ SumFunctionOnSet(w, 1..i) \in Nat
<1> DEFINE I == 1..i
<1>1. 1..i + 1 = I \cup {i + 1} /\ i + 1 \notin I
  OBVIOUS
<1>2. IsFiniteSet(I)
  BY FS_Interval
<1>3. (\A y \in I \cup {i + 1} : w[y] \in Int) /\ \A y \in I : w[y] \in Nat
  BY <1>1
<1> HIDE DEF I
<1>4. SumFunctionOnSet(w, I \cup {i + 1}) = SumFunctionOnSet(w, I) + w[i + 1]
  BY <1>1, <1>2, <1>3, AddOne
<1>5. SumFunctionOnSet(w, I) \in Nat
  BY <1>2, <1>3, SumOfNaturals
<1> QED  BY <1>1, <1>4, <1>5 DEF I

\* Up to the bracket an amount falls into, it pays what the start of that bracket pays.
LEMMA SumsAgreeBelow ==
    ASSUME NEW x \in Nat, NEW t, TableColumns(t), NEW k \in 1..Len(t), x > t[k].min,
           NEW j \in 0..k - 1
    PROVE  SumFunctionOnSet(Portion(x, t), 1..j) = SumFunctionOnSet(Portion(t[k].min, t), 1..j)
<1> DEFINE y == t[k].min
           w == Portion(x, t)
           v == Portion(y, t)
           n == Len(t)
           S == {m \in Nat : m < k => SumFunctionOnSet(w, 1..m) = SumFunctionOnSet(v, 1..m)}
<1>0. y \in Nat
  BY DEF TableColumns, AnyColumns
<1>1. n \in Nat /\ \A i \in 1..n : w[i] \in Nat /\ v[i] \in Nat
  BY <1>0, PortionIsNatural DEF TableColumns, AnyColumns
<1>2. 0 \in S
  <2>1. 1..0 = {}
    OBVIOUS
  <2>2. SumFunctionOnSet(w, 1..0) = 0 /\ SumFunctionOnSet(v, 1..0) = 0
    BY <2>1, EmptySum
  <2> QED  BY <2>2
<1>3. ASSUME NEW m \in Nat, m \in S
      PROVE  m + 1 \in S
  <2>1. CASE m + 1 < k
    <3> DEFINE i == m + 1
    <3>1. i \in 1..n - 1 /\ i \in 1..n /\ i + 1 \in 1..n /\ i + 1 <= k
      BY <1>1, <2>1
    <3>2. SumFunctionOnSet(w, 1..m) = SumFunctionOnSet(v, 1..m)
      BY <1>3, <2>1
    <3>3. /\ SumFunctionOnSet(w, 1..i) = SumFunctionOnSet(w, 1..m) + w[i]
          /\ SumFunctionOnSet(v, 1..i) = SumFunctionOnSet(v, 1..m) + v[i]
      <4>1. \A l \in 1..m + 1 : w[l] \in Nat /\ v[l] \in Nat
        BY <1>1, <3>1
      <4> HIDE DEF w, v
      <4> QED  BY <4>1, SumToNext
    <3> HIDE DEF i, w, v
    <3>4. t[i].max \in Nat /\ t[i].max >= t[i].min /\ t[i + 1].min = t[i].max
      BY <3>1 DEF TableColumns
    <3>5. t[i + 1].min <= t[k].min
      BY <3>1, MinsRise
    <3>6. x >= t[i].max /\ y >= t[i].max
      BY <1>0, <3>4, <3>5
    <3>7. w[i] = (t[i].max - t[i].min) * t[i].rate
      BY <3>1, <3>4, <3>6, PortionCases DEF w
    <3>8. v[i] = (t[i].max - t[i].min) * t[i].rate
      BY <1>0, <3>1, <3>4, <3>6, PortionCases DEF v
    <3>9. SumFunctionOnSet(w, 1..i) = SumFunctionOnSet(v, 1..i)
      BY <3>2, <3>3, <3>7, <3>8
    <3> QED  BY <3>9 DEF i
  <2>2. CASE ~(m + 1 < k)
    BY <2>2
  <2> QED  BY <2>1, <2>2
<1> HIDE DEF S
<1>4. Nat \subseteq S
  BY <1>2, <1>3, NaturalInduction
<1>5. j \in S /\ j < k
  BY <1>4
<1> QED  BY <1>5 DEF S

\* Brackets that start at or above an amount add nothing.
LEMMA NothingAbove ==
    ASSUME NEW x \in Nat, NEW t, TableColumns(t), NEW k \in 0..Len(t),
           \A i \in 1..Len(t) : i > k => x <= t[i].min,
           NEW j \in k..Len(t)
    PROVE  SumFunctionOnSet(Portion(x, t), 1..j) = SumFunctionOnSet(Portion(x, t), 1..k)
<1> DEFINE w == Portion(x, t)
           n == Len(t)
           S == {m \in Nat : k + m <= n => SumFunctionOnSet(w, 1..k + m) = SumFunctionOnSet(w, 1..k)}
<1>1. n \in Nat /\ \A i \in 1..n : w[i] \in Nat
  BY PortionIsNatural DEF TableColumns, AnyColumns
<1>2. 0 \in S
  <2>1. 1..k + 0 = 1..k
    OBVIOUS
  <2> QED  BY <2>1
<1>3. ASSUME NEW m \in Nat, m \in S
      PROVE  m + 1 \in S
  <2>1. CASE k + (m + 1) <= n
    <3> DEFINE i == k + m
    <3>1. i \in Nat /\ i + 1 \in 1..n /\ i + 1 > k /\ k + (m + 1) = i + 1 /\ k + m <= n
      BY <1>1, <2>1
    <3>2. SumFunctionOnSet(w, 1..i) = SumFunctionOnSet(w, 1..k)
      BY <1>3, <3>1
    <3> HIDE DEF i
    <3>3. w[i + 1] = 0
      BY <3>1, PortionCases
    <3>4. SumFunctionOnSet(w, 1..i + 1) = SumFunctionOnSet(w, 1..i) + w[i + 1]
          /\ SumFunctionOnSet(w, 1..i) \in Nat
      <4>1. \A l \in 1..i + 1 : w[l] \in Nat
        BY <1>1, <3>1
      <4> HIDE DEF w
      <4> QED  BY <3>1, <4>1, SumToNext
    <3> HIDE DEF w
    <3>5. SumFunctionOnSet(w, 1..i + 1) = SumFunctionOnSet(w, 1..k)
      BY <3>2, <3>3, <3>4
    <3> QED  BY <3>1, <3>5
  <2>2. CASE ~(k + (m + 1) <= n)
    BY <2>2
  <2> QED  BY <2>1, <2>2
<1> HIDE DEF S
<1>4. Nat \subseteq S
  BY <1>2, <1>3, NaturalInduction
<1>5. j - k \in S /\ k + (j - k) = j /\ j <= n
  BY <1>1, <1>4
<1> QED  BY <1>5 DEF S

\* In a table with one bracket after the other, the loop stops at the bracket that a
\* positive amount is within.
LEMMA StopsWithin ==
    ASSUME NEW x \in Nat \ {0}, NEW t, TableColumns(t)
    PROVE  LET stops == {i \in DOMAIN t : Stops(x, t[i])}
           IN  stops # {} /\ Min(stops) \in 1..Len(t) /\ Within(x, t[Min(stops)])
<1> DEFINE n == Len(t)
           T == {i \in DOMAIN t : Stops(x, t[i])}
           k == Min(T)
<1>1. n \in Nat \ {0} /\ DOMAIN t = 1..n
  BY DEF TableColumns, AnyColumns
<1>2. n \in T
  BY <1>1 DEF Stops, TableColumns
<1>3. T \in SUBSET Nat
  BY <1>1
<1>4. k \in T /\ \A j \in T : k <= j
  <2> HIDE DEF T
  <2>1. \E m \in T : \A j \in T : m <= j
    BY <1>2, <1>3, LeastNatural
  <2> QED  BY <2>1 DEF Min
<1> HIDE DEF k
<1>5. k \in 1..n /\ Stops(x, t[k])
  BY <1>1, <1>4
<1>6. x > t[k].min
  <2>1. CASE k = 1
    BY <2>1 DEF TableColumns
  <2>2. CASE k # 1
    <3> DEFINE j == k - 1
    <3>1. j \in 1..n /\ j \in 1..n - 1 /\ j < k /\ j + 1 = k
      BY <1>1, <1>5, <2>2
    <3>2. j \notin T
      BY <1>1, <1>4, <3>1
    <3>3. ~Stops(x, t[j])
      BY <1>1, <3>1, <3>2
    <3> HIDE DEF j, T
    <3>4. t[j].max \in Nat /\ t[j + 1].min = t[j].max
      BY <3>1 DEF TableColumns
    <3>5. t[k].min = t[j].max
      BY <3>1, <3>4
    <3> QED  BY <3>3, <3>4, <3>5 DEF Stops
  <2> QED  BY <2>1, <2>2
<1>7. t[k].min \in Nat /\ t[k].max \in Nat \cup {Unbounded}
  BY <1>5 DEF TableColumns, AnyColumns
<1>8. Within(x, t[k])
  BY <1>5, <1>6, <1>7 DEF Within, Stops
<1> QED  BY <1>4, <1>5, <1>8 DEF k

\* What an amount pays: its portion of the bracket it is within, and what the start of
\* that bracket pays.
LEMMA MarginalFromStart ==
    ASSUME NEW x \in Nat, NEW t, TableColumns(t), NEW k \in 1..Len(t), Within(x, t[k])
    PROVE  /\ MarginalTax(t[k].min, t) \in Nat
           /\ MarginalTax(x, t) = MarginalTax(t[k].min, t) + (x - t[k].min) * t[k].rate
<1> DEFINE y == t[k].min
           w == Portion(x, t)
           v == Portion(y, t)
           n == Len(t)
           j == k - 1
<1>1. n \in Nat \ {0} /\ DOMAIN t = 1..n /\ \A i \in 1..n : t[i].min \in Nat
  BY DEF TableColumns, AnyColumns
<1>2. y \in Nat /\ x > y /\ (t[k].max # Unbounded => x <= t[k].max)
  BY <1>1 DEF Within
<1>3. \A i \in 1..n : w[i] \in Nat /\ v[i] \in Nat
  BY <1>2, PortionIsNatural
<1>4. j \in Nat /\ j \in 0..k - 1 /\ j + 1 = k /\ j \in 0..n
  BY <1>1
<1>5. MarginalTax(x, t) = SumFunctionOnSet(w, 1..n) /\ MarginalTax(y, t) = SumFunctionOnSet(v, 1..n)
  BY <1>1, MarginalTaxIsSum
<1>6. \A i \in 1..n : i > k => x <= t[i].min
  <2> TAKE i \in 1..n
  <2> HAVE i > k
  <2>1. k \in 1..n - 1 /\ k + 1 \in 1..n /\ k + 1 <= i
    BY <1>1
  <2>2. t[k].max \in Nat /\ t[k + 1].min = t[k].max
    BY <2>1 DEF TableColumns
  <2>3. x <= t[k].max
    BY <1>2, <2>2, UnboundedAssumption
  <2>4. t[k + 1].min <= t[i].min
    BY <2>1, MinsRise
  <2> QED  BY <1>1, <2>2, <2>3, <2>4
<1>7. \A i \in 1..n : i > j => y <= t[i].min
  <2> TAKE i \in 1..n
  <2> HAVE i > j
  <2>1. k <= i
    BY <1>1
  <2> QED  BY <2>1, MinsRise
<1>8. SumFunctionOnSet(w, 1..n) = SumFunctionOnSet(w, 1..k)
  <2>1. k \in 0..n /\ n \in k..n
    BY <1>1
  <2> QED  BY <1>6, <2>1, NothingAbove
<1>9. SumFunctionOnSet(v, 1..n) = SumFunctionOnSet(v, 1..j)
  <2> HIDE DEF j, y, w
  <2>1. Len(t) \in j..Len(t)
    BY <1>1, <1>4
  <2>2. \A i \in 1..Len(t) : i > j => y <= t[i].min
    BY <1>7
  <2>3. SumFunctionOnSet(Portion(y, t), 1..Len(t)) = SumFunctionOnSet(Portion(y, t), 1..j)
    BY <1>2, <1>4, <2>1, <2>2, NothingAbove
  <2> QED  BY <2>3
<1>10. SumFunctionOnSet(w, 1..j) = SumFunctionOnSet(v, 1..j)
  BY <1>2, <1>4, SumsAgreeBelow
<1>11. w[k] = (x - y) * t[k].rate
  BY PortionCases
<1>12. /\ SumFunctionOnSet(w, 1..k) = SumFunctionOnSet(w, 1..j) + w[k]
       /\ SumFunctionOnSet(w, 1..j) \in Nat
  <2>1. \A l \in 1..j + 1 : w[l] \in Nat
    BY <1>1, <1>3, <1>4
  <2> HIDE DEF w, j
  <2> QED  BY <1>4, <2>1, SumToNext
<1> HIDE DEF w, v, y, n, j
<1>13. MarginalTax(y, t) \in Nat /\ MarginalTax(x, t) = MarginalTax(y, t) + w[k]
  BY <1>5, <1>8, <1>9, <1>10, <1>12
<1> QED  BY <1>11, <1>13 DEF y

\* A positive amount pays the marginal tax and the error in the base of its bracket.
LEMMA BracketIsMarginal ==
    ASSUME NEW x \in Nat \ {0}, NEW t, TableColumns(t)
    PROVE  \E i \in DOMAIN t :
              /\ Within(x, t[i])
              /\ ApplyBrackets(x, t) = RoundHalfUp(MarginalTax(x, t) + BaseError(t, i), 100)
<1> DEFINE stops == {i \in DOMAIN t : Stops(x, t[i])}
           k == Min(stops)
<1>1. stops # {} /\ k \in 1..Len(t) /\ Within(x, t[k])
  BY StopsWithin
<1>2. ApplyBrackets(x, t) =
        IF stops = {} \/ x <= t[k].min THEN 0
        ELSE RoundHalfUp(t[k].base * 100 + (x - t[k].min) * t[k].rate, 100)
  BY DEF ApplyBrackets
<1> HIDE DEF stops, k
<1>3. /\ t[k].min \in Nat /\ t[k].rate \in Nat /\ t[k].base \in Nat
      /\ DOMAIN t = 1..Len(t) /\ x > t[k].min
  BY <1>1 DEF TableColumns, AnyColumns, Within
<1>4. ApplyBrackets(x, t) = RoundHalfUp(t[k].base * 100 + (x - t[k].min) * t[k].rate, 100)
  BY <1>1, <1>2, <1>3
<1> DEFINE m == MarginalTax(t[k].min, t)
           p == (x - t[k].min) * t[k].rate
<1>5. m \in Nat /\ MarginalTax(x, t) = m + p
  BY <1>1, MarginalFromStart
<1>6. BaseError(t, k) = t[k].base * 100 - m
  BY DEF BaseError
<1>7. p \in Int
  BY <1>3
<1> HIDE DEF m, p
<1>8. MarginalTax(x, t) + BaseError(t, k) = t[k].base * 100 + p
  BY <1>3, <1>5, <1>6, <1>7
<1>9. ApplyBrackets(x, t) = RoundHalfUp(MarginalTax(x, t) + BaseError(t, k), 100)
  BY <1>4, <1>8 DEF p
<1> QED  BY <1>1, <1>3, <1>9

\* Any table makes a whole amount of tax.
LEMMA BracketTaxIsNatural ==
    ASSUME NEW x \in Nat, NEW t, AnyColumns(t)
    PROVE  ApplyBrackets(x, t) \in Nat
<1> DEFINE stops == {i \in DOMAIN t : Stops(x, t[i])}
           k == Min(stops)
<1>1. ApplyBrackets(x, t) =
        IF stops = {} \/ x <= t[k].min THEN 0
        ELSE RoundHalfUp(t[k].base * 100 + (x - t[k].min) * t[k].rate, 100)
  BY DEF ApplyBrackets
<1>2. CASE stops = {} \/ x <= t[k].min
  BY <1>1, <1>2
<1>3. CASE ~(stops = {} \/ x <= t[k].min)
  <2>1. stops \in SUBSET Nat /\ stops # {}
    BY <1>3 DEF AnyColumns
  <2>2. k \in stops
    <3> HIDE DEF stops
    <3>1. \E m \in stops : \A j \in stops : m <= j
      BY <2>1, LeastNatural
    <3> QED  BY <3>1 DEF Min
  <2>3. k \in DOMAIN t
    BY <2>2
  <2> HIDE DEF stops, k
  <2>4. t[k].min \in Nat /\ t[k].rate \in Nat /\ t[k].base \in Nat /\ x > t[k].min
    BY <1>3, <2>3 DEF AnyColumns
  <2> DEFINE d == x - t[k].min  p == d * t[k].rate  q == t[k].base * 100 + p
  <2>5. d \in Nat
    BY <2>4
  <2>6. p \in Nat
    <3> HIDE DEF d
    <3> QED  BY <2>4, <2>5, ProductIsNatural
  <2>7. q \in Nat
    <3> HIDE DEF p
    <3> QED  BY <2>4, <2>6
  <2>8. ApplyBrackets(x, t) = RoundHalfUp(q, 100)
    BY <1>1, <1>3
  <2> HIDE DEF q
  <2> QED  BY <2>7, <2>8, RoundIsNatural
<1> QED  BY <1>2, <1>3
-----------------------------------------------------------------------------
(* Orders, elections and slips *)

\* The columns of an election that a withholding is calculated from.
WholeElection(e) ==
    /\ DOMAIN e = {"jurisdiction", "status", "extra", "exempt", "type", "step2", "credit",
                   "income", "deductions", "from", "until"}
    /\ e.extra \in Int /\ e.credit \in Int /\ e.income \in Int /\ e.deductions \in Int

\* A slip is what net pay makes of the rows on file.
SlipIsOfFile ==
    answer.kind = "slip" =>
        LET day == answer.day
        IN  /\ day \in PayDays
            /\ Calculable(ElectionsOn(day), Federal[day], State[day])
            /\ answer.result = NetPay(OrdersOn(day), ElectionsOn(day), annuity, "monthly",
                                      Federal[day], State[day])

OneCurrent(S) ==
    \A e, f \in S : e.jurisdiction = f.jurisdiction /\ e.until = Never /\ f.until = Never => e = f

PayInv ==
    /\ annuity \in Nat
    /\ IsFiniteSet(orders) /\ \A o \in orders : WholeOrder(o)
    /\ IsFiniteSet(taxElections) /\ \A e \in taxElections : WholeElection(e)
    /\ OneCurrent(taxElections)
    /\ SlipIsOfFile

\* An order that ends keeps its amount.
LEMMA EndedOrderIsWhole ==
    ASSUME NEW o, WholeOrder(o), NEW day
    PROVE  WholeOrder([o EXCEPT !.until = day])
BY DEF WholeOrder

\* An election that is superseded keeps all but its end.
LEMMA EndedElection ==
    ASSUME NEW e, WholeElection(e), NEW day
    PROVE  /\ WholeElection([e EXCEPT !.until = day])
           /\ [e EXCEPT !.until = day].jurisdiction = e.jurisdiction
           /\ [e EXCEPT !.until = day].until = day
BY DEF WholeElection

\* An election that is stored is current and has its defaults.
LEMMA StoredIsWhole ==
    ASSUME NEW f, f.extra \in Int
    PROVE  /\ WholeElection(Stored(f))
           /\ Stored(f).jurisdiction = f.jurisdiction /\ Stored(f).until = Never
BY DEF WholeElection, Stored

\* At first only imported orders are on file.
LEMMA PayInvInit == PaycheckInit => PayInv
<1> SUFFICES ASSUME PaycheckInit PROVE PayInv
  OBVIOUS
<1>1. IsFiniteSet(taxElections)
  BY FS_EmptySet DEF PaycheckInit
<1>2. answer.kind # "slip"
  BY DEF PaycheckInit, Nothing
<1> QED  BY <1>1, <1>2, FormsAssumption DEF PaycheckInit, PayInv, OneCurrent, SlipIsOfFile

\* Of the elections of a jurisdiction only the last is current.
LEMMA ElectionsStayWhole ==
    ASSUME PayInv, NEW f \in ElectionForms, SetTaxWithholding(f)
    PROVE  /\ IsFiniteSet(taxElections') /\ \A e \in taxElections' : WholeElection(e)
           /\ OneCurrent(taxElections')
<1> DEFINE keep == {e \in taxElections : e.jurisdiction # f.jurisdiction \/ e.until # Never}
           old == {x \in taxElections : x.jurisdiction = f.jurisdiction /\ x.until = Never}
           g == [e \in old |-> [e EXCEPT !.until = f.from]]
           gone == {g[e] : e \in old}
           new == Stored(f)
<1>1. IsFiniteSet(taxElections) /\ (\A e \in taxElections : WholeElection(e)) /\ OneCurrent(taxElections)
  BY DEF PayInv
<1>2. f.extra \in Int /\ f.from \in Int /\ f.from # Never
  BY FormsAssumption, CalendarAssumption
<1>3. taxElections' = keep \cup gone \cup {new}
  BY DEF SetTaxWithholding, Superseded
<1>4. \A x \in gone : WholeElection(x) /\ x.until = f.from
  <2> TAKE x \in gone
  <2>1. PICK e \in old : x = g[e]
    OBVIOUS
  <2>2. x = [e EXCEPT !.until = f.from] /\ WholeElection(e)
    BY <1>1, <2>1
  <2> QED  BY <2>2, EndedElection
<1>5. WholeElection(new) /\ new.jurisdiction = f.jurisdiction /\ new.until = Never
  BY <1>2, StoredIsWhole
<1>6. IsFiniteSet(gone)
  <2>1. IsFiniteSet(old)
    BY <1>1, FS_Subset
  <2> HIDE DEF old, g
  <2> QED  BY <2>1, ImageIsFinite
<1>7. IsFiniteSet(keep \cup gone \cup {new})
  <2>1. IsFiniteSet(keep)
    BY <1>1, FS_Subset
  <2> HIDE DEF keep, gone, new
  <2> QED  BY <1>6, <2>1, FS_Union, FS_AddElement
<1> HIDE DEF gone, new
<1>8. \A x \in keep \cup gone \cup {new} : WholeElection(x)
  BY <1>1, <1>4, <1>5
<1>9. OneCurrent(keep \cup gone \cup {new})
  <2> SUFFICES ASSUME NEW a \in keep \cup gone \cup {new}, NEW b \in keep \cup gone \cup {new},
                      a.jurisdiction = b.jurisdiction, a.until = Never, b.until = Never
               PROVE  a = b
    BY DEF OneCurrent
  <2>1. a \notin gone /\ b \notin gone
    BY <1>2, <1>4
  <2>2. \A x \in keep : x.until = Never => x \in taxElections /\ x.jurisdiction # new.jurisdiction
    BY <1>5
  <2>3. CASE a = new \/ b = new
    BY <2>1, <2>2, <2>3
  <2>4. CASE a # new /\ b # new
    BY <1>1, <2>1, <2>2, <2>4 DEF OneCurrent
  <2> QED  BY <2>3, <2>4
<1> QED  BY <1>3, <1>7, <1>8, <1>9

\* Every request keeps orders, elections and slips whole.
LEMMA PayInvNext == BenefitInv /\ PayInv /\ [PaycheckNext]_paycheckVars => PayInv'
<1> SUFFICES ASSUME BenefitInv, PayInv, [PaycheckNext]_paycheckVars
             PROVE  PayInv'
  OBVIOUS
<1>1. ASSUME UNCHANGED <<annuity, orders, taxElections>>, answer'.kind # "slip"
      PROVE  PayInv'
  BY <1>1 DEF PayInv, OneCurrent, SlipIsOfFile
<1>2. ASSUME NEW retirement \in Retirements, NEW s \in SickDays, NEW o \in OptionForms,
             Estimate(retirement, s, o)
      PROVE  PayInv'
  BY <1>1, <1>2 DEF Estimate, Answer
<1>3. ASSUME NEW r \in Requests, Calculate(r)
      PROVE  PayInv'
  BY <1>1, <1>3 DEF Calculate, Answer
<1>4. ASSUME Award
      PROVE  PayInv'
  <2>1. answer.result.final \in Nat
    <3>1. Calculated(answer)
      BY <1>4 DEF Award, BenefitInv, IsBenefit
    <3> QED  BY <3>1, FinalIsNatural
  <2>2. annuity' \in Nat /\ answer'.kind # "slip" /\ UNCHANGED <<orders, taxElections>>
    BY <1>4, <2>1 DEF Award, Nothing
  <2> QED  BY <2>2 DEF PayInv, OneCurrent, SlipIsOfFile
<1>5. ASSUME NEW o \in OrderForms, CreateDeductionOrder(o)
      PROVE  PayInv'
  <2>1. orders' = orders \cup {o} /\ answer'.kind # "slip" /\ UNCHANGED <<annuity, taxElections>>
    BY <1>5 DEF CreateDeductionOrder, Nothing
  <2>2. IsFiniteSet(orders') /\ \A x \in orders' : WholeOrder(x)
    BY <2>1, FormsAssumption, FS_AddElement DEF PayInv
  <2> QED  BY <2>1, <2>2 DEF PayInv, OneCurrent, SlipIsOfFile
<1>6. ASSUME NEW o \in orders, NEW day \in PayDays, EndDeductionOrder(o, day)
      PROVE  PayInv'
  <2> DEFINE x == [o EXCEPT !.until = day]
  <2>1. orders' = (orders \ {o}) \cup {x} /\ answer'.kind # "slip" /\ UNCHANGED <<annuity, taxElections>>
    BY <1>6 DEF EndDeductionOrder, Nothing
  <2>2. WholeOrder(x)
    BY EndedOrderIsWhole DEF PayInv
  <2> HIDE DEF x
  <2>3. IsFiniteSet(orders \ {o})
    BY FS_Subset DEF PayInv
  <2>4. IsFiniteSet(orders') /\ \A y \in orders' : WholeOrder(y)
    BY <2>1, <2>2, <2>3, FS_AddElement DEF PayInv
  <2> QED  BY <2>1, <2>4 DEF PayInv, OneCurrent, SlipIsOfFile
<1>7. ASSUME NEW f \in ElectionForms, SetTaxWithholding(f)
      PROVE  PayInv'
  <2>1. answer'.kind # "slip" /\ UNCHANGED <<annuity, orders>>
    BY <1>7 DEF SetTaxWithholding, Nothing
  <2>2. /\ IsFiniteSet(taxElections') /\ \A e \in taxElections' : WholeElection(e)
        /\ OneCurrent(taxElections')
    BY <1>7, ElectionsStayWhole
  <2> QED  BY <2>1, <2>2 DEF PayInv, SlipIsOfFile
<1>8. ASSUME NEW day \in PayDays, Preview(day)
      PROVE  PayInv'
  <2> DEFINE slip == NetPay(OrdersOn(day), ElectionsOn(day), annuity, "monthly", Federal[day], State[day])
  <2>1. /\ Calculable(ElectionsOn(day), Federal[day], State[day])
        /\ answer' = [kind |-> "slip", day |-> day, result |-> slip]
        /\ UNCHANGED <<annuity, orders, taxElections>>
    BY <1>8 DEF Preview
  <2>2. OrdersOn(day)' = OrdersOn(day) /\ ElectionsOn(day)' = ElectionsOn(day)
    BY <2>1 DEF OrdersOn, ElectionsOn
  <2>3. answer'.result = slip /\ answer'.day = day
    <3> HIDE DEF slip
    <3> QED  BY <2>1
  <2>4. UNCHANGED <<annuity, orders, taxElections>>
    BY <2>1
  <2> HIDE DEF slip
  <2>5. SlipIsOfFile'
    BY <2>1, <2>2, <2>3, <2>4 DEF SlipIsOfFile, slip
  <2> QED  BY <2>4, <2>5 DEF PayInv, OneCurrent
<1>9. CASE UNCHANGED paycheckVars
  BY <1>9 DEF paycheckVars, PayInv, OneCurrent, SlipIsOfFile, OrdersOn, ElectionsOn
<1> QED  BY <1>2, <1>3, <1>4, <1>5, <1>6, <1>7, <1>8, <1>9 DEF PaycheckNext

\* Orders, elections and slips are always whole.
LEMMA PayInvHolds == PaycheckSpec => []PayInv
BY BenefitInvHolds, PayInvInit, PayInvNext, PTL DEF PaycheckSpec
-----------------------------------------------------------------------------
(* Withholding *)

\* What worksheet 1B reads from the tables of a year.
LEMMA WorksheetIsWhole ==
    ASSUME NEW cfg, WholeFederal(cfg), NEW e
    PROVE  Line1g(e, cfg) \in Nat /\ Brackets(e, cfg) \in Seq(TaxBands)
<1>1. /\ WholeTables(cfg.brackets) /\ WholeAmounts(cfg.deduction) /\ WholeAmounts(cfg.higher)
      /\ cfg.step2Brackets # Unbounded => WholeTables(cfg.step2Brackets)
  BY DEF WholeFederal
<1>2. ASSUME NEW tables, WholeAmounts(tables)
      PROVE  TableOf(tables, e.status) \in Nat
  <2>1. "single" \in DOMAIN tables /\ \A s \in DOMAIN tables : tables[s] \in Nat
    BY <1>2 DEF WholeAmounts
  <2> QED  BY <2>1, TableIsOneOf
<1>3. ASSUME NEW tables, WholeTables(tables)
      PROVE  TableOf(tables, e.status) \in Seq(TaxBands)
  <2>1. "single" \in DOMAIN tables /\ \A s \in DOMAIN tables : tables[s] \in Seq(TaxBands)
    BY <1>3 DEF WholeTables
  <2>2. PICK s \in DOMAIN tables : TableOf(tables, e.status) = tables[s]
    BY <2>1, TableIsOneOf
  <2> QED  BY <2>1, <2>2
<1>4. Line1g(e, cfg) \in Nat
  BY <1>1, <1>2 DEF Line1g
<1>5. CASE e.step2 /\ cfg.step2Brackets # Unbounded
  <2>1. Brackets(e, cfg) = TableOf(cfg.step2Brackets, e.status)
    BY <1>5 DEF Brackets
  <2> QED  BY <1>1, <1>3, <1>4, <1>5, <2>1
<1>6. CASE ~(e.step2 /\ cfg.step2Brackets # Unbounded)
  <2>1. Brackets(e, cfg) = TableOf(cfg.brackets, e.status)
    BY <1>6 DEF Brackets
  <2> QED  BY <1>1, <1>3, <1>4, <2>1
<1> QED  BY <1>5, <1>6

\* Withholding on the gross of a payment counts each bracket at its rate and is off by
\* the error in one base, for every election on file and every table whose brackets
\* follow on one another, whatever its bases.
THEOREM TaxMarginalHolds == PaycheckSpec => []TaxIsMarginal
<1>1. PayInv => TaxIsMarginal
  <2> SUFFICES ASSUME PayInv, annuity > 0,
                      NEW day \in {d \in PayDays : Federal[d] # Unbounded}, NEW e \in taxElections
               PROVE  LET adjusted == AtLeast(0, annuity * 12 + e.income - (e.deductions + Line1g(e, Federal[day])))
                          table == Brackets(e, Federal[day])
                      IN  adjusted > 0 /\ Contiguous(table) =>
                            \E i \in DOMAIN table :
                              /\ Within(adjusted, table[i])
                              /\ ApplyBrackets(adjusted, table)
                                    = RoundHalfUp(MarginalTax(adjusted, table) + BaseError(table, i), 100)
    BY DEF TaxIsMarginal
  <2> DEFINE g == Line1g(e, Federal[day])
             n == annuity * 12 + e.income - (e.deductions + g)
             x == AtLeast(0, n)
             t == Brackets(e, Federal[day])
  <2>1. g \in Nat /\ t \in Seq(TaxBands)
    BY TablesAssumption, WorksheetIsWhole
  <2>2. annuity \in Nat /\ e.income \in Int /\ e.deductions \in Int
    BY DEF PayInv, WholeElection
  <2> HIDE DEF g, t
  <2>3. n \in Int
    BY <2>1, <2>2
  <2> HIDE DEF n
  <2>4. x \in Nat
    BY <2>3 DEF AtLeast
  <2> HIDE DEF x
  <2>5. ASSUME x > 0, Contiguous(t)
        PROVE  \E i \in DOMAIN t :
                  /\ Within(x, t[i])
                  /\ ApplyBrackets(x, t) = RoundHalfUp(MarginalTax(x, t) + BaseError(t, i), 100)
    <3>1. TableColumns(t)
      BY <2>1, <2>5, RowColumns
    <3>2. x \in Nat \ {0}
      BY <2>4, <2>5
    <3> QED  BY <3>1, <3>2, BracketIsMarginal
  <2> QED  BY <2>5 DEF x, n, g, t
<1> QED  BY <1>1, PayInvHolds, PTL

\* A quotient rounded half up is an integer, whatever its sign.
LEMMA RoundIsInteger ==
    ASSUME NEW num \in Int, NEW den \in Nat \ {0}
    PROVE  RoundHalfUp(num, den) \in Int
<1>1. CASE num >= 0
  BY <1>1, RoundIsNatural
<1>2. CASE ~(num >= 0)
  <2> DEFINE a == den - 2 * num  d == 2 * den
  <2>1. a \in Int /\ d \in Nat \ {0}
    OBVIOUS
  <2>2. RoundHalfUp(num, den) = -(a \div d)
    BY <1>2 DEF RoundHalfUp
  <2> HIDE DEF a, d
  <2>3. a \div d \in Int
    BY <2>1, DivisionFacts
  <2> QED  BY <2>2, <2>3
<1> QED  BY <1>1, <1>2

\* Worksheet 1B ends in a whole amount.
LEMMA FederalIsInteger ==
    ASSUME NEW taxable \in Int, NEW e, WholeElection(e), NEW cfg, WholeFederal(cfg)
    PROVE  FederalWithholding(taxable, e, PayPeriods["monthly"], cfg) \in Int
<1> DEFINE g == Line1g(e, cfg)
           n == taxable * PayPeriods["monthly"] + e.income - (e.deductions + g)
           x == AtLeast(0, n)
           tax == ApplyBrackets(x, Brackets(e, cfg))
           y == AtLeast(0, tax - e.credit)
           z == RoundHalfUp(y, PayPeriods["monthly"])
<1>1. g \in Nat /\ AnyColumns(Brackets(e, cfg))
  <2>1. g \in Nat /\ Brackets(e, cfg) \in Seq(TaxBands)
    BY WorksheetIsWhole
  <2> HIDE DEF g
  <2> QED  BY <2>1, RowColumns
<1>2. e.extra \in Int /\ e.credit \in Int /\ e.income \in Int /\ e.deductions \in Int
  BY DEF WholeElection
<1>3. PayPeriods["monthly"] = 12
  BY DEF PayPeriods
<1> HIDE DEF g
<1>4. n \in Int
  BY <1>1, <1>2, <1>3
<1> HIDE DEF n
<1>5. x \in Nat
  BY <1>4 DEF AtLeast
<1> HIDE DEF x
<1>6. tax \in Nat
  BY <1>1, <1>5, BracketTaxIsNatural
<1> HIDE DEF tax
<1>7. y \in Nat
  BY <1>2, <1>6 DEF AtLeast
<1> HIDE DEF y
<1>8. z \in Nat
  BY <1>3, <1>7, RoundIsNatural
<1> HIDE DEF z
<1>9. FederalFormula(taxable, e, PayPeriods["monthly"], cfg) = AtLeast(0, z + e.extra)
  BY DEF FederalFormula, z, y, tax, x, n, g
<1>10. AtLeast(0, z + e.extra) \in Int /\ AtLeast(0, e.extra) \in Int
  BY <1>2, <1>8 DEF AtLeast
<1> QED  BY <1>9, <1>10 DEF FederalWithholding

\* Withholding at a flat rate ends in a whole amount.
LEMMA StateIsInteger ==
    ASSUME NEW taxable \in Int, NEW e, WholeElection(e), NEW rate \in Nat
    PROVE  StateWithholding(taxable, e, rate) \in Int
<1> DEFINE p == taxable * rate
           z == RoundHalfUp(p, 10000)
<1>1. p \in Int
  OBVIOUS
<1> HIDE DEF p
<1>2. z \in Int
  BY <1>1, RoundIsInteger
<1> HIDE DEF z
<1>3. e.extra \in Int
  BY DEF WholeElection
<1>4. AtLeast(0, z + e.extra) \in Int /\ AtLeast(0, e.extra) \in Int
  BY <1>2, <1>3 DEF AtLeast
<1> QED  BY <1>4 DEF StateWithholding, z, p
-----------------------------------------------------------------------------
(* Net pay *)

\* The sum over two sets that share nothing.
LEMMA SumOfParts ==
    ASSUME NEW w, NEW A, NEW B, IsFiniteSet(A), IsFiniteSet(B), A \cap B = {},
           \A x \in A \cup B : w[x] \in Int
    PROVE  SumFunctionOnSet(w, A \cup B) = SumFunctionOnSet(w, A) + SumFunctionOnSet(w, B)
<1> DEFINE Bad == {s \in SUBSET B :
                      SumFunctionOnSet(w, A \cup s) # SumFunctionOnSet(w, A) + SumFunctionOnSet(w, s)}
<1>1. CASE Bad = {}
  BY <1>1
<1>2. CASE Bad # {}
  <2>0. Bad \in SUBSET SUBSET B
    OBVIOUS
  <2> HIDE DEF Bad
  <2>1. PICK m \in Bad : \A u \in Bad : u \subseteq m => u = m
    BY <1>2, <2>0, SmallestSet
  <2> USE DEF Bad
  <2>2. /\ m \in SUBSET B
        /\ SumFunctionOnSet(w, A \cup m) # SumFunctionOnSet(w, A) + SumFunctionOnSet(w, m)
    OBVIOUS
  <2>3. SumFunctionOnSet(w, A) \in Int
    BY SumOfIntegers
  <2>4. m # {}
    <3> SUFFICES ASSUME m = {} PROVE FALSE
      OBVIOUS
    <3>1. A \cup {} = A /\ SumFunctionOnSet(w, {}) = 0
      BY EmptySum
    <3>2. SumFunctionOnSet(w, A \cup {}) # SumFunctionOnSet(w, A) + SumFunctionOnSet(w, {})
      BY <2>2
    <3>3. SumFunctionOnSet(w, A) # SumFunctionOnSet(w, A) + 0
      BY <3>1, <3>2
    <3> QED  BY <2>3, <3>3
  <2> DEFINE x == Pick(m)  r == Rest(m)
  <2>5. x \in m /\ r \in SUBSET m /\ r # m /\ m = r \cup {x} /\ x \notin r /\ x \notin A \cup r
    BY <2>2, <2>4, RestIsSmaller DEF Rest
  <2>6. SumFunctionOnSet(w, A \cup r) = SumFunctionOnSet(w, A) + SumFunctionOnSet(w, r)
    BY <2>1, <2>2, <2>5
  <2>7. IsFiniteSet(r) /\ IsFiniteSet(A \cup r)
    BY <2>2, <2>5, FS_Subset, FS_Union
  <2> HIDE DEF x, r, Bad
  <2>8. SumFunctionOnSet(w, r \cup {x}) = SumFunctionOnSet(w, r) + w[x] /\ SumFunctionOnSet(w, r) \in Int
    <3>1. \A y \in r \cup {x} : w[y] \in Int
      BY <2>2, <2>5
    <3> QED  BY <2>5, <2>7, <3>1, AddOne
  <2>9. SumFunctionOnSet(w, (A \cup r) \cup {x}) = SumFunctionOnSet(w, A \cup r) + w[x]
    <3>1. \A y \in (A \cup r) \cup {x} : w[y] \in Int
      BY <2>2, <2>5
    <3> QED  BY <2>5, <2>7, <3>1, AddOne
  <2>10. A \cup m = (A \cup r) \cup {x} /\ w[x] \in Int
    BY <2>2, <2>5
  <2>11. /\ SumFunctionOnSet(w, A \cup m) = SumFunctionOnSet(w, A \cup r) + w[x]
         /\ SumFunctionOnSet(w, m) = SumFunctionOnSet(w, r) + w[x]
    BY <2>5, <2>8, <2>9, <2>10
  <2> QED  BY <2>2, <2>3, <2>6, <2>8, <2>10, <2>11
<1> QED  BY <1>1, <1>2

\* A line has a whole amount, 0 at the least.
LEMMA LineIsNatural ==
    ASSUME NEW o, WholeOrder(o), NEW gross \in Nat
    PROVE  LineAmount(o, gross) \in Nat
<1> DEFINE p == gross * o.amount
<1>1. o.amount \in Nat /\ p \in Nat
  <2>1. o.amount \in Nat
    BY DEF WholeOrder
  <2> QED  BY <2>1, ProductIsNatural
<1> HIDE DEF p
<1>2. RoundHalfUp(p, 1000) \in Nat
  BY <1>1, RoundIsNatural
<1> QED  BY <1>1, <1>2 DEF LineAmount, p

\* The amount of some of the lines is a sum of the amounts of all.
LEMMA AmountIsSum ==
    ASSUME NEW S, IsFiniteSet(S), \A o \in S : WholeOrder(o), NEW gross \in Nat, NEW T, T \subseteq S
    PROVE  /\ IsFiniteSet(T)
           /\ AmountOf(T, gross) = SumFunctionOnSet([o \in S |-> LineAmount(o, gross)], T)
           /\ AmountOf(T, gross) \in Int
<1> DEFINE w == [o \in S |-> LineAmount(o, gross)]
           v == [o \in T |-> LineAmount(o, gross)]
<1>1. IsFiniteSet(T)
  BY FS_Subset
<1>2. (\A o \in T : v[o] = w[o]) /\ \A o \in T : w[o] \in Int
  BY LineIsNatural
<1>3. AmountOf(T, gross) = SumFunctionOnSet(v, T)
  BY DEF AmountOf, SumFunction
<1> HIDE DEF v, w
<1>4. SumFunctionOnSet(v, T) = SumFunctionOnSet(w, T) /\ SumFunctionOnSet(w, T) \in Int
  BY <1>1, <1>2, SumIsLocal, SumOfIntegers
<1> QED  BY <1>1, <1>3, <1>4 DEF w

\* Every line is taken before tax, after it, or for a third party, and only once.
LEMMA LinesAreTakenOnce ==
    ASSUME NEW S, IsFiniteSet(S), \A o \in S : WholeOrder(o), NEW gross \in Nat
    PROVE  /\ AmountOf(S, gross) = AmountOf(PreTax(S), gross)
                                   + AmountOf({o \in S : ~o.thirdParty /\ ~o.pretax}, gross)
                                   + AmountOf({o \in S : o.thirdParty}, gross)
           /\ AmountOf(PreTax(S), gross) \in Int
           /\ AmountOf({o \in S : ~o.thirdParty /\ ~o.pretax}, gross) \in Int
           /\ AmountOf({o \in S : o.thirdParty}, gross) \in Int
<1> DEFINE A == PreTax(S)
           B == {o \in S : ~o.thirdParty /\ ~o.pretax}
           C == {o \in S : o.thirdParty}
           w == [o \in S |-> LineAmount(o, gross)]
<1>1. /\ A \subseteq S /\ B \subseteq S /\ C \subseteq S
      /\ A \cap B = {} /\ (A \cup B) \cap C = {} /\ S = (A \cup B) \cup C
  BY DEF PreTax
<1>2. \A o \in S : w[o] \in Int
  BY LineIsNatural
<1> HIDE DEF A, B, C
<1>3. /\ IsFiniteSet(A) /\ IsFiniteSet(B) /\ IsFiniteSet(C)
      /\ AmountOf(A, gross) = SumFunctionOnSet(w, A) /\ AmountOf(A, gross) \in Int
      /\ AmountOf(B, gross) = SumFunctionOnSet(w, B) /\ AmountOf(B, gross) \in Int
      /\ AmountOf(C, gross) = SumFunctionOnSet(w, C) /\ AmountOf(C, gross) \in Int
      /\ AmountOf(S, gross) = SumFunctionOnSet(w, S)
  BY <1>1, AmountIsSum
<1> HIDE DEF w
<1>4. SumFunctionOnSet(w, A \cup B) = SumFunctionOnSet(w, A) + SumFunctionOnSet(w, B)
  <2>1. \A o \in A \cup B : w[o] \in Int
    BY <1>1, <1>2
  <2> QED  BY <1>1, <1>3, <2>1, SumOfParts
<1>5. SumFunctionOnSet(w, (A \cup B) \cup C) = SumFunctionOnSet(w, A \cup B) + SumFunctionOnSet(w, C)
  <2>1. IsFiniteSet(A \cup B) /\ \A o \in (A \cup B) \cup C : w[o] \in Int
    BY <1>1, <1>2, <1>3, FS_Union
  <2> QED  BY <1>1, <1>3, <2>1, SumOfParts
<1>6. AmountOf(S, gross) = AmountOf(A, gross) + AmountOf(B, gross) + AmountOf(C, gross)
  BY <1>1, <1>3, <1>4, <1>5
<1> QED  BY <1>3, <1>6 DEF A, B, C

\* Every line of tax has an amount, and no jurisdiction has two.
LEMMA TaxesAreWhole ==
    ASSUME PayInv, NEW day \in PayDays, NEW taxable \in Int,
           Calculable(ElectionsOn(day), Federal[day], State[day]),
           NEW taxes,
           taxes = TaxLines(ElectionsOn(day), taxable, PayPeriods["monthly"], Federal[day], State[day])
    PROVE  /\ SumFunction([t \in taxes |-> t.amount]) \in Int
           /\ \A t, u \in taxes : t.election.jurisdiction = u.election.jurisdiction => t = u
<1> DEFINE S == {x \in ElectionsOn(day) : x.jurisdiction \in {"federal", "state"}}
           tax(e) == IF e.jurisdiction = "federal"
                     THEN FederalWithholding(taxable, e, PayPeriods["monthly"], Federal[day])
                     ELSE StateWithholding(taxable, e, State[day])
           line == [e \in S |-> [election |-> e, amount |-> tax(e)]]
           w == [t \in taxes |-> t.amount]
<1>1. S \subseteq taxElections /\ \A e \in S : e.until = Never /\ e.jurisdiction \in {"federal", "state"}
  BY DEF ElectionsOn
<1>2. ASSUME NEW e \in S
      PROVE  tax(e) \in Int
  <2>1. WholeElection(e)
    BY <1>1 DEF PayInv
  <2>2. CASE e.jurisdiction = "federal"
    <3>1. WholeFederal(Federal[day])
      BY <2>2, TablesAssumption DEF Calculable
    <3> QED  BY <2>1, <2>2, <3>1, FederalIsInteger
  <2>3. CASE e.jurisdiction = "state"
    <3>1. State[day] \in Nat
      BY <2>3, TablesAssumption DEF Calculable
    <3> QED  BY <2>1, <2>3, <3>1, StateIsInteger
  <2> QED  BY <1>1, <2>2, <2>3
<1>3. taxes = {line[e] : e \in S}
  BY DEF TaxLines
<1> HIDE DEF tax
<1>4. \A e \in S : line[e].election = e /\ line[e].amount \in Int
  BY <1>2
<1>5. IsFiniteSet(S)
  BY <1>1, FS_Subset DEF PayInv
<1> HIDE DEF S, line
<1>6. IsFiniteSet(taxes) /\ \A t \in taxes : w[t] \in Int
  BY <1>3, <1>4, <1>5, ImageIsFinite
<1>7. SumFunction(w) = SumFunctionOnSet(w, taxes)
  BY DEF SumFunction
<1> HIDE DEF w
<1>8. SumFunction(w) \in Int
  BY <1>6, <1>7, SumOfIntegers
<1>9. ASSUME NEW t \in taxes, NEW u \in taxes, t.election.jurisdiction = u.election.jurisdiction
      PROVE  t = u
  <2>1. PICK e \in S : t = line[e]
    BY <1>3
  <2>2. PICK f \in S : u = line[f]
    BY <1>3
  <2>3. e.jurisdiction = f.jurisdiction
    BY <1>4, <1>9, <2>1, <2>2
  <2>4. e = f
    BY <1>1, <2>3 DEF PayInv, OneCurrent
  <2> QED  BY <2>1, <2>2, <2>4
<1> QED  BY <1>8, <1>9 DEF w

\* A check stub of _calculate_net_pay accounts for its gross whatever orders,
\* elections and tables there are.
THEOREM PaycheckIsWholeHolds == PaycheckSpec => []PaycheckIsWhole
<1>1. PayInv => PaycheckIsWhole
  <2> SUFFICES ASSUME PayInv, answer.kind = "slip"
               PROVE  PaycheckIsWhole
    BY DEF PaycheckIsWhole
  <2> DEFINE day == answer.day
             slip == answer.result
             S == OrdersOn(day)
             pre == AmountOf(PreTax(S), annuity)
             after == AmountOf({o \in S : ~o.thirdParty /\ ~o.pretax}, annuity)
             third == AmountOf({o \in S : o.thirdParty}, annuity)
             taxable == annuity - pre
             taxes == TaxLines(ElectionsOn(day), taxable, PayPeriods["monthly"], Federal[day], State[day])
             tax == SumFunction([t \in taxes |-> t.amount])
             total == pre + tax + after + third
  <2>1. /\ day \in PayDays /\ Calculable(ElectionsOn(day), Federal[day], State[day])
        /\ slip = NetPay(S, ElectionsOn(day), annuity, "monthly", Federal[day], State[day])
        /\ annuity \in Nat
    BY DEF PayInv, SlipIsOfFile
  <2>2. slip = [gross |-> annuity, taxable |-> taxable, taxes |-> taxes, lines |-> S,
                total |-> total, net |-> annuity - total]
    BY <2>1 DEF NetPay, Taxable
  <2>3. IsFiniteSet(S) /\ \A o \in S : WholeOrder(o)
    <3>1. S \subseteq orders
      BY DEF OrdersOn
    <3> QED  BY <3>1, FS_Subset DEF PayInv
  <2> HIDE DEF day, S
  <2>4. /\ AmountOf(S, annuity) = pre + after + third
        /\ pre \in Int /\ after \in Int /\ third \in Int
    BY <2>1, <2>3, LinesAreTakenOnce
  <2> HIDE DEF pre, after, third
  <2>5. taxable \in Int
    BY <2>1, <2>4
  <2> HIDE DEF taxable
  <2>6. /\ tax \in Int
        /\ \A t, u \in taxes : t.election.jurisdiction = u.election.jurisdiction => t = u
    <3> DEFINE lines == taxes
    <3>1. lines = TaxLines(ElectionsOn(day), taxable, PayPeriods["monthly"], Federal[day], State[day])
      OBVIOUS
    <3> HIDE DEF lines
    <3>2. /\ SumFunction([t \in lines |-> t.amount]) \in Int
          /\ \A t, u \in lines : t.election.jurisdiction = u.election.jurisdiction => t = u
      BY <2>1, <2>5, <3>1, TaxesAreWhole
    <3> QED  BY <3>2 DEF lines
  <2> HIDE DEF taxes, slip
  <2>7. slip.lines = S /\ slip.gross = annuity /\ slip.taxes = taxes /\ slip.net = annuity - total
    BY <2>2
  <2>8. SumFunction([t \in slip.taxes |-> t.amount]) = tax
    BY <2>7
  <2>9. AmountOf(slip.lines, slip.gross) = pre + after + third
    BY <2>4, <2>7
  <2> HIDE DEF tax
  <2>10. slip.gross = slip.net + AmountOf(slip.lines, slip.gross) + SumFunction([t \in slip.taxes |-> t.amount])
    BY <2>1, <2>4, <2>6, <2>7, <2>8, <2>9
  <2>11. slip.lines = OrdersOn(answer.day)
    BY <2>7 DEF S, day
  <2> QED  BY <2>6, <2>7, <2>10, <2>11 DEF PaycheckIsWhole, slip
<1> QED  BY <1>1, PayInvHolds, PTL
=============================================================================
