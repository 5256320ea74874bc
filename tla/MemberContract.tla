---------------------------- MODULE MemberContract ----------------------------
(***************************************************************************)
(* One member's contract: the employment records and their leave periods,  *)
(* the status the member row shows and the row of member_status_history    *)
(* that get_current_status returns.  Every handler of contract_service is  *)
(* one transaction and one action.                                         *)
(*                                                                         *)
(* Of an employment only whether it is open and whether it has an open     *)
(* leave matter here; types, salaries and percent time are left out.       *)
(***************************************************************************)
EXTENDS Integers

CONSTANTS
    Employments,       \* primary keys of EmploymentRecord
    Dates,             \* effective dates staff enter, in any order
    InitialStatuses    \* member_status a member is created or imported with

MemberStatus ==
    {"active", "on_leave", "terminated", "inactive", "annuitant", "deceased"}

ASSUME ContractAssumption ==
    /\ Dates \subseteq Nat \ {0}
    /\ InitialStatuses \subseteq MemberStatus

VARIABLES
    status,       \* Member.member_status
    currentRow,   \* the latest history row by effective_date, then created_at
    employment,   \* EmploymentRecord: absent, open, or with a termination_date
    onLeave       \* LeavePeriod of the employment without actual_return_date

contractVars == <<status, currentRow, employment, onLeave>>

\* A member is created or imported without history rows.
NoRow == [status |-> "none", date |-> 0]

ContractInit ==
    /\ status \in InitialStatuses
    /\ currentRow = NoRow
    /\ employment = [e \in Employments |-> "absent"]
    /\ onLeave = [e \in Employments |-> FALSE]
-----------------------------------------------------------------------------
\* Mutant: a retired member can be hired again.
AllowedFromRehire ==
    [new_hire      |-> {"active", "terminated", "inactive", "annuitant"},
     terminate     |-> {"active", "on_leave"},
     begin_leave   |-> {"active"},
     end_leave     |-> {"on_leave"},
     begin_annuity |-> {"terminated", "inactive", "active"},
     refund        |-> {"terminated"},
     death         |-> {"active", "on_leave", "terminated", "inactive", "annuitant"}]

\* _ALLOWED_FROM and the check that nothing follows deceased.
AllowedFrom ==
    [new_hire      |-> {"active", "terminated", "inactive"},
     terminate     |-> {"active", "on_leave"},
     begin_leave   |-> {"active"},
     end_leave     |-> {"on_leave"},
     begin_annuity |-> {"terminated", "inactive", "active"},
     refund        |-> {"terminated"},
     death         |-> {"active", "on_leave", "terminated", "inactive", "annuitant"}]

Allowed(event) == status \in AllowedFrom[event]

\* A history row and the copy on the member.  Of two rows with one effective
\* date the later one is current.
WriteStatus(s, d) ==
    /\ status' = s
    /\ currentRow' = IF d >= currentRow.date THEN [status |-> s, date |-> d] ELSE currentRow

OtherOpen(e) == \E f \in Employments \ {e} : employment[f] = "open"
-----------------------------------------------------------------------------
NewHire(e, d) ==
    /\ Allowed("new_hire")
    /\ employment[e] = "absent"
    /\ employment' = [employment EXCEPT ![e] = "open"]
    /\ WriteStatus("active", d)
    /\ UNCHANGED onLeave

\* Mutant: terminated is written whatever else the member works at.
TerminateAlways(e, d) ==
    /\ Allowed("terminate")
    /\ employment[e] = "open"
    /\ employment' = [employment EXCEPT ![e] = "ended"]
    /\ WriteStatus("terminated", d)
    /\ UNCHANGED onLeave

\* An open leave of the employment stays open.
Terminate(e, d) ==
    /\ Allowed("terminate")
    /\ employment[e] = "open"
    /\ employment' = [employment EXCEPT ![e] = "ended"]
    /\ IF OtherOpen(e) THEN UNCHANGED <<status, currentRow>>
                       ELSE WriteStatus("terminated", d)
    /\ UNCHANGED onLeave

BeginLeave(e, d) ==
    /\ Allowed("begin_leave")
    /\ employment[e] = "open"
    /\ ~onLeave[e]
    /\ onLeave' = [onLeave EXCEPT ![e] = TRUE]
    /\ WriteStatus("on_leave", d)
    /\ UNCHANGED employment

\* Mutant: the return date is recorded and the status stays.
EndLeaveQuietly(e, d) ==
    /\ Allowed("end_leave")
    /\ onLeave[e]
    /\ onLeave' = [onLeave EXCEPT ![e] = FALSE]
    /\ UNCHANGED <<status, currentRow, employment>>

\* The employment may have ended, and leaves of other employments are not
\* looked at.
EndLeave(e, d) ==
    /\ Allowed("end_leave")
    /\ onLeave[e]
    /\ onLeave' = [onLeave EXCEPT ![e] = FALSE]
    /\ WriteStatus("active", d)
    /\ UNCHANGED employment

RecordDeath(d) ==
    /\ Allowed("death")
    /\ WriteStatus("deceased", d)
    /\ employment' = [e \in Employments |->
           IF employment[e] = "open" THEN "ended" ELSE employment[e]]
    /\ UNCHANGED onLeave

BeginAnnuity(d) ==
    /\ Allowed("begin_annuity")
    /\ WriteStatus("annuitant", d)
    /\ UNCHANGED <<employment, onLeave>>

ProcessRefund(d) ==
    /\ Allowed("refund")
    /\ WriteStatus("inactive", d)
    /\ UNCHANGED <<employment, onLeave>>
-----------------------------------------------------------------------------
ContractRequest ==
    \E d \in Dates :
        \/ \E e \in Employments :
              NewHire(e, d) \/ Terminate(e, d) \/ BeginLeave(e, d) \/ EndLeave(e, d)
        \/ RecordDeath(d)
        \/ BeginAnnuity(d)
        \/ ProcessRefund(d)
-----------------------------------------------------------------------------
(* Properties *)

\* The columns of the member, its employments and its leaves.
ContractTypeOK ==
    /\ status \in MemberStatus
    /\ currentRow \in [status : MemberStatus, date : Dates] \cup {NoRow}
    /\ employment \in [Employments -> {"absent", "open", "ended"}]
    /\ onLeave \in [Employments -> BOOLEAN]

\* A member who has separated works nowhere: terminated, inactive and deceased
\* members have no open employment, however many they had at once.
SeparatedWorksNowhere ==
    status \in {"terminated", "inactive", "deceased"} =>
        \A e \in Employments : employment[e] # "open"

\* A member whom the contract handlers put on leave has a leave to return from:
\* end_leave, the only way back to active, finds an open leave period.
LeaveCanEnd ==
    status = "on_leave" /\ currentRow # NoRow => \E e \in Employments : onLeave[e]

\* An annuitant becomes nothing but deceased and a deceased member nothing at
\* all, and no employment or leave is opened, ended or returned from after
\* death ("deceased blocks all further contract writes").
EndsAreFinal ==
    [][/\ status = "annuitant" => status' \in {"annuitant", "deceased"}
       /\ status = "deceased" => UNCHANGED contractVars]_contractVars
=============================================================================
