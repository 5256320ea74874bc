---------------------------- MODULE MemberRecords ----------------------------
(***************************************************************************)
(* The records staff keep of a member, one desk for each table: bank       *)
(* accounts with one primary, addresses and contacts that end one another, *)
(* the plan choice and its lock, form submissions, beneficiaries, and the  *)
(* system configuration.  The tables share no row, so a behaviour follows  *)
(* the requests of one desk.                                               *)
(*                                                                         *)
(* A request loads rows, checks them and flushes what it changed when it   *)
(* commits; nothing is locked in between.  `alone` says of a request that  *)
(* no other committed while it was under way.                              *)
(***************************************************************************)
EXTENDS SystemConfiguration, RequestSession, FiniteSets

CONSTANTS
    Workers,        \* connections that serve requests
    MaxRows,        \* bound on the rows of a table
    Tiers, Types,   \* of plans
    None

ASSUME RowsAssumption == MaxRows \in Nat

Ids == 1..MaxRows

Desks == {"accounts", "addresses", "contacts", "plan", "forms", "beneficiaries", "configuration"}

VARIABLES
    desk,           \* the desk whose requests this behaviour follows
    rows,           \* its table, by id
    tx,             \* the request each worker is inside of
    last            \* the request that committed last

recordVars == <<rows, tx, last>>
vars == <<desk, recordVars, configVars>>

Idle == [kind |-> "idle"]
NoRequest == [kind |-> "idle", id |-> None, arg |-> None, alone |-> FALSE]

\* The member's own row holds the plan choice; a member may be created with any.
PlanChoice == [tier : Tiers \cup {None}, type : Types \cup {None}, locked : BOOLEAN]

Init == /\ desk \in Desks
        /\ rows \in IF desk = "plan" THEN {<<choice>> : choice \in PlanChoice} ELSE {<<>>}
        /\ tx = [w \in Workers |-> Idle]
        /\ last = NoRequest
        /\ ConfigInit
-----------------------------------------------------------------------------
(* One request: load, check, commit *)

\* What a request checks on the row it loads; accounts are not checked.
AcceptsAnyForm(kind, row) ==
    CASE kind \in {"choose", "lock"} -> ~row.locked /\ (kind = "lock" => None \notin {row.tier, row.type})
      [] kind = "return"             -> row.status = "sent"
      [] kind = "expire"             -> row.status # "expired"
      [] kind = "cancel"             -> row.status # "cancelled"
      [] kind = "end"                -> row.end = Never
      [] OTHER                       -> TRUE

Accepts(kind, row) ==
    CASE kind \in {"choose", "lock"} -> ~row.locked /\ (kind = "lock" => None \notin {row.tier, row.type})
      [] kind \in {"return", "expire"} -> row.status = "sent"
      [] kind = "cancel"             -> row.status # "cancelled"
      [] kind = "end"                -> row.end = Never
      [] OTHER                       -> TRUE

\* The id the database will give a new row.
NextId == LET taken == DOMAIN rows \cup {tx[w].id : w \in {v \in Workers : tx[v] # Idle}}
          IN  CHOOSE i \in 1..(MaxRows + 1) : i \notin taken /\ 1..(i - 1) \subseteq taken

\* A request to change row `id`, or to add it.
Load(w, kind, id, arg) ==
    /\ tx[w] = Idle
    /\ IF kind = "add" THEN id = NextId
       ELSE id \in DOMAIN rows /\ Accepts(kind, rows[id])
    /\ tx' = [tx EXCEPT ![w] = [kind |-> kind, id |-> id, arg |-> arg, alone |-> TRUE,
                                selected |-> kind # "setPrimary", loaded |-> rows]]
    /\ UNCHANGED <<desk, rows, last, configVars>>

\* _clear_primary selects the other rows after the account itself was loaded.
Select(w) ==
    /\ tx[w] # Idle /\ ~tx[w].selected
    /\ tx' = [tx EXCEPT ![w].selected = TRUE,
                        ![w].loaded = [rows EXCEPT ![tx[w].id] = tx[w].loaded[tx[w].id]]]
    /\ UNCHANGED <<desk, rows, last, configVars>>

Doing(w, kind) == tx[w] # Idle /\ tx[w].kind = kind /\ tx[w].selected

\* A table of one row, to be inserted.
Row(id, row) == [i \in {id} |-> row]

\* The rows that were loaded take the columns that changed; `added` is inserted.
Commit(w, changed, added) ==
    LET t == tx[w]
    IN  /\ DOMAIN added \cap DOMAIN rows = {}
        /\ rows' = [i \in DOMAIN added \cup DOMAIN rows |->
                       IF i \in DOMAIN added THEN added[i]
                       ELSE IF i \in DOMAIN t.loaded THEN Flush(rows[i], t.loaded[i], changed[i])
                       ELSE rows[i]]
        /\ tx' = [v \in Workers |-> IF v = w \/ tx[v] = Idle THEN Idle
                                    ELSE [tx[v] EXCEPT !.alone = FALSE]]
        /\ last' = [kind |-> t.kind, id |-> t.id, arg |-> t.arg, alone |-> t.alone]
        /\ UNCHANGED <<desk, configVars>>

Abort(w) == /\ tx[w] # Idle
            /\ tx' = [tx EXCEPT ![w] = Idle]
            /\ UNCHANGED <<desk, rows, last, configVars>>
-----------------------------------------------------------------------------
(* Bank accounts of a member or a beneficiary *)

ClearOnePrimary(table) ==
    LET first == CHOOSE i \in DOMAIN table : table[i].primary
    IN  IF \E i \in DOMAIN table : table[i].primary
        THEN [table EXCEPT ![first].primary = FALSE] ELSE table

ClearPrimary(table) == [i \in DOMAIN table |-> [table[i] EXCEPT !.primary = FALSE]]

AddAccount(w) ==
    LET t == tx[w]
    IN  /\ desk = "accounts" /\ Doing(w, "add")
        /\ Commit(w, IF t.arg THEN ClearPrimary(t.loaded) ELSE t.loaded,
                  Row(t.id, [open |-> TRUE, primary |-> t.arg]))

SetPrimary(w) ==
    LET t == tx[w]
    IN  /\ Doing(w, "setPrimary")
        /\ Commit(w, [ClearPrimary(t.loaded) EXCEPT ![t.id].primary = TRUE], <<>>)

CloseAccount(w) ==
    LET t == tx[w]
    IN  /\ Doing(w, "close")
        /\ Commit(w, [t.loaded EXCEPT ![t.id] = [open |-> FALSE, primary |-> FALSE]], <<>>)
-----------------------------------------------------------------------------
(* Addresses and contacts of one type *)

Contact == [effective : Dates, supersede : BOOLEAN, primary : BOOLEAN]

\* An address always supersedes and has no flag; a contact may have both.
Addressed == desk \in {"addresses", "contacts"}
New == IF desk = "addresses" THEN {c \in Contact : c.supersede /\ ~c.primary} ELSE Contact

Active(table) == {i \in DOMAIN table : table[i].end = Never}

\* The rows that were active when one is added: ended the day before it starts,
\* or no longer primary.
GivenWayToNewer(table, new) ==
    [i \in DOMAIN table |->
        IF i \notin Active(table) THEN table[i]
        ELSE IF new.supersede /\ table[i].effective < new.effective
             THEN [table[i] EXCEPT !.end = new.effective - 1]
        ELSE IF new.primary THEN [table[i] EXCEPT !.primary = FALSE]
        ELSE table[i]]

GivenWay(table, new) ==
    [i \in DOMAIN table |->
        IF i \notin Active(table) THEN table[i]
        ELSE IF new.supersede THEN [table[i] EXCEPT !.end = new.effective - 1]
        ELSE IF new.primary THEN [table[i] EXCEPT !.primary = FALSE]
        ELSE table[i]]

AddContact(w) ==
    LET t == tx[w]
    IN  /\ Addressed /\ Doing(w, "add")
        /\ Commit(w, GivenWay(t.loaded, t.arg),
                  Row(t.id, [effective |-> t.arg.effective, end |-> Never,
                             primary |-> t.arg.primary]))
-----------------------------------------------------------------------------
(* Plan choice *)

SetPlanChoice(w) ==
    LET t == tx[w]
    IN  /\ Doing(w, "choose")
        /\ Commit(w, [t.loaded EXCEPT ![t.id].tier = t.arg[1], ![t.id].type = t.arg[2]], <<>>)

LockPlanChoice(w) ==
    LET t == tx[w]
    IN  /\ Doing(w, "lock")
        /\ Commit(w, [t.loaded EXCEPT ![t.id].locked = TRUE], <<>>)
-----------------------------------------------------------------------------
(* Form submissions *)

CreateSubmission(w) ==
    /\ desk = "forms" /\ Doing(w, "add")
    /\ Commit(w, tx[w].loaded, Row(tx[w].id, [status |-> "sent", data |-> FALSE]))

MarkReturned(w) ==
    LET t == tx[w]
    IN  /\ Doing(w, "return")
        /\ Commit(w, [t.loaded EXCEPT ![t.id] = [status |-> "returned", data |-> TRUE]], <<>>)

CancelSubmission(w) ==
    LET t == tx[w]
    IN  /\ Doing(w, "cancel")
        /\ Commit(w, [t.loaded EXCEPT ![t.id].status = "cancelled"], <<>>)

ExpireSubmission(w) ==
    LET t == tx[w]
    IN  /\ Doing(w, "expire")
        /\ Commit(w, [t.loaded EXCEPT ![t.id].status = "expired"], <<>>)
-----------------------------------------------------------------------------
(* Beneficiary designations *)

AddBeneficiary(w) ==
    /\ desk = "beneficiaries" /\ Doing(w, "add")
    /\ Commit(w, tx[w].loaded, Row(tx[w].id, [end |-> Never]))

CloseBeneficiary(w) ==
    LET t == tx[w]
    IN  /\ Doing(w, "end")
        /\ Commit(w, [t.loaded EXCEPT ![t.id].end = t.arg], <<>>)
-----------------------------------------------------------------------------
(* The requests each desk serves *)

ReceiveAccountRequest(w) ==
    /\ desk = "accounts"
    /\ \E id \in Ids : \/ \E primary \in BOOLEAN : Load(w, "add", id, primary)
                       \/ \E kind \in {"setPrimary", "close"} : Load(w, kind, id, None)

ReceiveContact(w) ==
    /\ Addressed
    /\ \E id \in Ids, new \in New : Load(w, "add", id, new)

ReceivePlanRequest(w) ==
    /\ desk = "plan"
    /\ \/ \E t \in Tiers, y \in Types : Load(w, "choose", 1, <<t, y>>)
       \/ Load(w, "lock", 1, None)

ReceiveFormRequest(w) ==
    /\ desk = "forms"
    /\ \E id \in Ids, kind \in {"add", "return", "cancel", "expire"} : Load(w, kind, id, None)

ReceiveBeneficiaryRequest(w) ==
    /\ desk = "beneficiaries"
    /\ \E id \in Ids : \/ Load(w, "add", id, None)
                       \/ \E d \in Dates : Load(w, "end", id, d)

Receive(w) == \/ ReceiveAccountRequest(w) \/ ReceiveContact(w) \/ ReceivePlanRequest(w)
              \/ ReceiveFormRequest(w) \/ ReceiveBeneficiaryRequest(w)

Perform(w) == \/ AddAccount(w) \/ SetPrimary(w) \/ CloseAccount(w) \/ AddContact(w)
              \/ SetPlanChoice(w) \/ LockPlanChoice(w)
              \/ CreateSubmission(w) \/ MarkReturned(w) \/ CancelSubmission(w) \/ ExpireSubmission(w)
              \/ AddBeneficiary(w) \/ CloseBeneficiary(w)

Next == \/ \E w \in Workers : Receive(w) \/ Select(w) \/ Perform(w) \/ Abort(w)
        \/ desk = "configuration" /\ ConfigRequest /\ UNCHANGED <<desk, recordVars>>

Spec == Init /\ [][Next]_vars
-----------------------------------------------------------------------------
(* Properties *)

Primaries == {i \in DOMAIN rows : rows[i].primary /\ (Addressed => i \in Active(rows))}

AsksForPrimary == \/ last.kind = "setPrimary"
                  \/ last.kind = "add" /\ IF desk = "accounts" THEN last.arg
                                          ELSE Addressed /\ last.arg.primary

\* A request for a primary account or contact that no other overtook leaves its
\* row the only primary one, whatever overlapping requests did before it.
OnePrimary == last.alone /\ AsksForPrimary => Primaries = {last.id}

\* Adding an address, or a contact that supersedes, which no other request
\* overtook leaves it the only active one, in any order of the dates.
OneActive == last.alone /\ Addressed /\ last.kind = "add" /\ last.arg.supersede
             => Active(rows) = {last.id}

\* A row whose story has ended: a locked choice, a cancelled or expired form, a
\* beneficiary whose designation has an end.
Final(row) == CASE desk = "plan"          -> row.locked
                [] desk = "forms"         -> row.status \in {"cancelled", "expired"}
                [] desk = "beneficiaries" -> row.end # Never
                [] OTHER                  -> FALSE

\* Only a request that was overtaken by the one that ended the story changes it
\* afterwards; an expired form can still be cancelled.
FinalStays ==
    [][\A i \in DOMAIN rows :
          Final(rows[i]) /\ rows'[i] # rows[i]
          => ~last'.alone \/ (last'.kind = "cancel" /\ rows[i].status = "expired")]_vars
=============================================================================
