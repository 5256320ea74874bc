---------------------------- MODULE RetirementCases ----------------------------
(***************************************************************************)
(* A member's way from employment to annuity to survivor benefit: the      *)
(* handlers of retirement_service and survivor_service on top of those of  *)
(* contract_service (MemberContract), whose begin_annuity an approval      *)
(* calls.  The payments created here are those PaymentDisbursement then    *)
(* takes to the bank.                                                      *)
(*                                                                         *)
(* A calculation is abstracted to the monthly amount it ends in, an option *)
(* to whether it provides for a survivor.                                  *)
(***************************************************************************)
EXTENDS MemberContract, Sequences, FiniteSets

CONSTANTS
    Cases,        \* primary keys of RetirementCase
    Annuities,    \* monthly amounts an estimate can end in
    MaxPayments   \* bound on the survivor requests that are looked at

Options == {"single_life", "survivor"}

ASSUME CasesAssumption ==
    /\ Annuities \subseteq Nat
    /\ MaxPayments \in Nat

VARIABLES
    case,          \* RetirementCase rows
    elections,     \* MemberBenefitElection rows
    annuities,     \* gross amounts of the annuity payments a case has created
    survivorPaid,  \* types of the payments initiate_survivor_payments created
    wasAnnuitant   \* status annuitant was written, or imported, at some time

caseVars == <<case, elections, annuities, survivorPaid>>
memberVars == <<contractVars, caseVars, wasAnnuitant>>

\* NULL in a column of amounts; an annuity can be 0.
NotSet == -1

NoCase == [status |-> "absent", date |-> 0, option |-> "single_life",
           snapshot |-> NotSet, final |-> NotSet]

Case == [status   : {"absent", "draft", "approved", "active", "cancelled"},
         date     : Dates \cup {0},
         option   : Options,
         snapshot : Annuities \cup {NotSet},
         final    : Annuities \cup {NotSet}]

Init ==
    /\ ContractInit
    /\ case = [c \in Cases |-> NoCase]
    /\ elections = {}
    /\ annuities = [c \in Cases |-> <<>>]
    /\ survivorPaid = <<>>
    /\ wasAnnuitant = (status = "annuitant")
-----------------------------------------------------------------------------
\* Mutant: only an active case is in the way of another.
NoActiveCase == \A c \in Cases : case[c].status # "active"

\* _open_case finds nothing.
NoOpenCase == \A c \in Cases : case[c].status \in {"absent", "cancelled"}

SetCase(c, s) == case' = [case EXCEPT ![c].status = s]

RecordElection(option, d) ==
    elections' = elections \cup {[option |-> option, date |-> d]}
-----------------------------------------------------------------------------
(* retirement_service *)

CreateCase(c, d, option, monthly) ==
    /\ status \notin {"annuitant", "deceased"}
    /\ NoOpenCase
    /\ case[c].status = "absent"
    /\ case' = [case EXCEPT ![c] = [status |-> "draft", date |-> d, option |-> option,
                                    snapshot |-> monthly, final |-> NotSet]]
    /\ UNCHANGED <<contractVars, elections, annuities, survivorPaid, wasAnnuitant>>

\* Mutant: any open case can be recalculated.
RecalculateOpen(c, monthly) ==
    /\ case[c].status \in {"draft", "approved"}
    /\ case' = [case EXCEPT ![c].snapshot = monthly]
    /\ UNCHANGED <<contractVars, elections, annuities, survivorPaid, wasAnnuitant>>

Recalculate(c, monthly) ==
    /\ case[c].status = "draft"
    /\ case' = [case EXCEPT ![c].snapshot = monthly]
    /\ UNCHANGED <<contractVars, elections, annuities, survivorPaid, wasAnnuitant>>

\* Mutant: the single life option, which pays no survivor, records nothing.
ApproveCaseUnelected(c) ==
    /\ case[c].status = "draft"
    /\ IF case[c].option = "single_life"
       THEN UNCHANGED elections
       ELSE RecordElection(case[c].option, case[c].date)
    /\ BeginAnnuity(case[c].date)
    /\ case' = [case EXCEPT ![c].status = "approved", ![c].final = case[c].snapshot]
    /\ wasAnnuitant' = TRUE
    /\ UNCHANGED <<annuities, survivorPaid>>

\* The election is inserted first; begin_annuity refuses some statuses, and
\* then nothing of the request stays.
ApproveCase(c) ==
    /\ case[c].status = "draft"
    /\ RecordElection(case[c].option, case[c].date)
    /\ BeginAnnuity(case[c].date)
    /\ case' = [case EXCEPT ![c].status = "approved", ![c].final = case[c].snapshot]
    /\ wasAnnuitant' = TRUE
    /\ UNCHANGED <<annuities, survivorPaid>>

\* Mutant: an active case can be activated again.
ActivateAgain(c) ==
    /\ case[c].status \in {"approved", "active"}
    /\ annuities' = [annuities EXCEPT ![c] = Append(@, case[c].final)]
    /\ SetCase(c, "active")
    /\ UNCHANGED <<contractVars, elections, survivorPaid, wasAnnuitant>>

\* The status of the member is not looked at.
ActivateCase(c) ==
    /\ case[c].status = "approved"
    /\ annuities' = [annuities EXCEPT ![c] = Append(@, case[c].final)]
    /\ SetCase(c, "active")
    /\ UNCHANGED <<contractVars, elections, survivorPaid, wasAnnuitant>>

\* The member stays an annuitant when an approved case is cancelled.
CancelCase(c) ==
    /\ case[c].status \in {"draft", "approved"}
    /\ SetCase(c, "cancelled")
    /\ UNCHANGED <<contractVars, elections, annuities, survivorPaid, wasAnnuitant>>
-----------------------------------------------------------------------------
(* survivor_service *)

\* The endpoint for elections of their own, at any status.
CreateElection(option, d) ==
    /\ RecordElection(option, d)
    /\ UNCHANGED <<contractVars, case, annuities, survivorPaid, wasAnnuitant>>

\* get_current_election: elections with one effective date are in no order.
CurrentElections(d) ==
    {x \in elections : /\ x.date <= d
                       /\ \A y \in elections : y.date <= d => y.date <= x.date}

\* What initiate_survivor_payments creates on an event date.
SurvivorPayments(d) ==
    IF status # "annuitant" THEN {"death_benefit"}
    ELSE {"survivor_annuity" : x \in {y \in CurrentElections(d) : y.option = "survivor"}}

InitiateSurvivorPayments(d) ==
    /\ Len(survivorPaid) < MaxPayments
    /\ \E kind \in SurvivorPayments(d) : survivorPaid' = Append(survivorPaid, kind)
    /\ UNCHANGED <<contractVars, case, elections, annuities, wasAnnuitant>>
-----------------------------------------------------------------------------
\* A contract request of its own; begin-annuity is an endpoint too.
ContractStep ==
    /\ ContractRequest
    /\ wasAnnuitant' = (wasAnnuitant \/ status' = "annuitant")
    /\ UNCHANGED caseVars

CaseRequest ==
    \E c \in Cases :
        \/ \E d \in Dates, o \in Options, m \in Annuities : CreateCase(c, d, o, m)
        \/ \E m \in Annuities : Recalculate(c, m)
        \/ ApproveCase(c)
        \/ ActivateCase(c)
        \/ CancelCase(c)

SurvivorRequest ==
    \E d \in Dates : \/ \E o \in Options : CreateElection(o, d)
                     \/ InitiateSurvivorPayments(d)

Next == ContractStep \/ CaseRequest \/ SurvivorRequest

Spec == Init /\ [][Next]_memberVars
-----------------------------------------------------------------------------
(* Properties *)

\* The columns of a case and of what it has created.
TypeOK ==
    /\ ContractTypeOK
    /\ case \in [Cases -> Case]
    /\ elections \subseteq [option : Options, date : Dates]
    /\ annuities \in [Cases -> Seq(Annuities)]
    /\ survivorPaid \in Seq({"death_benefit", "survivor_annuity"})
    /\ wasAnnuitant \in BOOLEAN

\* A member has one non-cancelled case at most.
OneOpenCase ==
    \A c, d \in Cases : case[c].status \notin {"absent", "cancelled"}
                        /\ case[d].status \notin {"absent", "cancelled"} => c = d

\* An approved or active case stands on an election for its option and date and
\* on a member who has become an annuitant: the three writes of an approval are
\* found together or not at all.
ApprovalIsWhole ==
    \A c \in Cases : case[c].status \in {"approved", "active"} =>
        /\ [option |-> case[c].option, date |-> case[c].date] \in elections
        /\ wasAnnuitant /\ status \in {"annuitant", "deceased"}
        /\ case[c].final = case[c].snapshot

\* The first annuity payment is created once, by the activation, with the
\* amount that was approved.
FirstPaymentOnce ==
    \A c \in Cases :
        annuities[c] = IF case[c].status = "active" THEN <<case[c].final>> ELSE <<>>

\* Neither the snapshot nor the final annuity of a case changes once it has been
\* approved, whatever becomes of the case.
ApprovedAmountsAreLocked ==
    [][\A c \in Cases : case[c].final # NotSet =>
          /\ case'[c].final = case[c].final
          /\ case'[c].snapshot = case[c].snapshot]_memberVars
=============================================================================
