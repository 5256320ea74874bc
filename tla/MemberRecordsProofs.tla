------------------------- MODULE MemberRecordsProofs -------------------------
(***************************************************************************)
(* What the records of a member guarantee for any number of workers, rows  *)
(* and dates.                                                              *)
(*                                                                         *)
(* Configuration: each day is governed by the row that started last.  A    *)
(* row is superseded by one that starts later and is stored, so on a day   *)
(* it no longer covers the other has started; and among the rows started   *)
(* by a day one is the newest.                                             *)
(*                                                                         *)
(* The desks: a request that no other overtook has loaded the table as it  *)
(* is, so what it checked still holds and its flush writes every column it *)
(* meant to.                                                               *)
(***************************************************************************)
EXTENDS MemberRecords, TLAPS

-----------------------------------------------------------------------------
(* Configuration *)

StartedBy(day) == {x \in stored : x.effective <= day}

WriterRow == [pc : {"idle", "create"}, prev : SUBSET Dates, new : Dates \cup {Never}]

\* Rows and requests have their columns.
ConfigTypeOK == /\ stored \subseteq ConfigRow
                /\ writer \in [Writers -> WriterRow]
                /\ \A w \in Writers : writer[w].pc = "create" => writer[w].new \in Dates

SupersededLater == \A x \in stored : x.superseded # Never =>
                      x.effective < x.superseded /\ x.superseded \in Starts

\* What a request is about to supersede starts before its own row.
WritersGoForward == \A w \in Writers : writer[w].pc = "create" =>
                        \A e \in writer[w].prev : e < writer[w].new

HasNewest == \A day \in Dates : StartedBy(day) # {} => Newest(StartedBy(day)) # {}

ConfigInv == ConfigTypeOK /\ SupersededLater /\ WritersGoForward /\ HasNewest

\* The invariant is about the rows and the requests.
LEMMA ConfigUnchanged == ConfigInv /\ UNCHANGED configVars => ConfigInv'
  BY DEF ConfigInv, ConfigTypeOK, SupersededLater, WritersGoForward, HasNewest, StartedBy,
         Newest, Starts, configVars

\* A request that only reads, or gives up.
LEMMA ConfigReads ==
  ASSUME ConfigInv, NEW w \in Writers, UNCHANGED stored, NEW r \in WriterRow,
         writer' = [writer EXCEPT ![w] = r],
         r.pc = "create" => r.new \in Dates /\ \A e \in r.prev : e < r.new
  PROVE  ConfigInv'
  BY DEF ConfigInv, ConfigTypeOK, SupersededLater, WritersGoForward, HasNewest, StartedBy, Newest, Starts

\* A row is superseded and the next is stored: the invariant survives, although
\* the row that was read may have been superseded since.
LEMMA ConfigCommits ==
  ASSUME ConfigInv, NEW w \in Writers, CommitCreate(w)
  PROVE  ConfigInv'
<1> DEFINE d == writer[w].new
           prev == writer[w].prev
           new == [effective |-> d, superseded |-> Never]
           After(x) == IF x.effective \in prev THEN [x EXCEPT !.superseded = d] ELSE x
<1> USE DatesAssumption
<1>0. /\ writer' \in [Writers -> WriterRow]
      /\ \A v \in Writers : writer'[v].pc = "create" => writer'[v] = writer[v]
  BY DEF ConfigInv, ConfigTypeOK, CommitCreate, NoWriter, WriterRow
<1>1. /\ d \in Dates /\ d \in Int /\ d # Never
      /\ \A e \in prev : e < d
  BY DEF ConfigInv, ConfigTypeOK, WritersGoForward, CommitCreate
<1>2. stored' = {After(x) : x \in stored} \cup {new}
  BY DEF CommitCreate, Superseded
<1>3. \A x \in stored : /\ x \in ConfigRow /\ x.effective \in Int
                        /\ After(x) \in ConfigRow /\ After(x).effective = x.effective
                        /\ After(x).superseded = (IF x.effective \in prev THEN d ELSE x.superseded)
  BY <1>1 DEF ConfigInv, ConfigTypeOK, ConfigRow
<1>4. new \in ConfigRow /\ new.effective = d /\ new.superseded = Never
  BY <1>1 DEF ConfigRow
<1> HIDE DEF After, new, d
<1>5. Starts' = Starts \cup {d}
  BY <1>2, <1>3, <1>4 DEF Starts
<1>6. ConfigTypeOK'
  <2>1. stored' \subseteq ConfigRow
    BY <1>2, <1>3, <1>4
  <2>2. \A v \in Writers : writer'[v].pc = "create" => writer'[v].new \in Dates
    BY <1>0 DEF ConfigInv, ConfigTypeOK
  <2> QED BY <1>0, <2>1, <2>2 DEF ConfigTypeOK
<1>7. SupersededLater'
  <2> SUFFICES ASSUME NEW y \in stored', y.superseded # Never
               PROVE  y.effective < y.superseded /\ y.superseded \in Starts'
    BY DEF SupersededLater
  <2>1. PICK x \in stored : y = After(x)
    BY <1>2, <1>4
  <2>2. CASE x.effective \in prev
    BY <2>1, <2>2, <1>1, <1>3, <1>5
  <2>3. CASE x.effective \notin prev
    BY <2>1, <2>3, <1>3, <1>5 DEF ConfigInv, SupersededLater
  <2> QED BY <2>2, <2>3
<1>8. WritersGoForward'
  BY <1>0 DEF ConfigInv, WritersGoForward
<1>9. HasNewest'
  <2> SUFFICES ASSUME NEW day \in Dates, StartedBy(day)' # {}
               PROVE  \E m \in StartedBy(day)' : \A y \in StartedBy(day)' : y.effective <= m.effective
    BY DEF HasNewest, Newest
  <2> day \in Int
    OBVIOUS
  <2>1. \A y \in StartedBy(day)' :
            \/ y = new
            \/ \E x \in StartedBy(day) : y = After(x) /\ y.effective = x.effective
    BY <1>2, <1>3 DEF StartedBy
  <2>2. \A x \in StartedBy(day) : /\ After(x) \in StartedBy(day)'
                                  /\ After(x).effective = x.effective /\ x.effective \in Int
    BY <1>2, <1>3 DEF StartedBy
  <2>3. CASE StartedBy(day) = {}
    <3>1. \A y \in StartedBy(day)' : y = new /\ y.effective <= new.effective
      BY <2>1, <2>3, <1>1, <1>4
    <3> QED BY <3>1
  <2>4. CASE StartedBy(day) # {}
    <3>1. PICK m \in StartedBy(day) : \A x \in StartedBy(day) : x.effective <= m.effective
      BY <2>4 DEF ConfigInv, HasNewest, Newest
    <3> DEFINE old == After(m)
    <3>2. old \in StartedBy(day)' /\ old.effective = m.effective /\ m.effective \in Int
      BY <2>2
    <3>3. \A y \in StartedBy(day)' : y = new \/ y.effective <= m.effective
      BY <2>1, <3>1
    <3> HIDE DEF old
    <3>4. CASE d <= m.effective
      <4>1. \A y \in StartedBy(day)' : y.effective <= old.effective
        BY <3>4, <3>2, <3>3, <1>4
      <4> QED BY <4>1, <3>2
    <3>5. CASE ~(d <= m.effective) /\ d <= day
      <4>1. new \in StartedBy(day)'
        BY <3>5, <1>2, <1>4 DEF StartedBy
      <4>2. \A x \in StartedBy(day) : x.effective \in Int
        BY <2>2
      <4>3. \A y \in StartedBy(day)' : y.effective <= new.effective
        BY <4>2, <2>1, <3>1, <3>5, <1>1, <1>4
      <4> QED BY <4>1, <4>3
    <3>6. CASE ~(d <= day)
      <4>1. new \notin StartedBy(day)'
        BY <3>6, <1>4 DEF StartedBy
      <4>2. \A y \in StartedBy(day)' : y.effective <= old.effective
        BY <4>1, <3>2, <3>3
      <4> QED BY <4>2, <3>2
    <3> QED BY <3>4, <3>5, <3>6
  <2> QED BY <2>3, <2>4
<1> QED BY <1>6, <1>7, <1>8, <1>9 DEF ConfigInv

\* The invariant holds of every state of a key's rows and their writers.
THEOREM ConfigInvariant == ConfigSpec => []ConfigInv
<1>1. ConfigInit => ConfigInv
  BY DEF ConfigInit, NoWriter, WriterRow, ConfigInv, ConfigTypeOK, SupersededLater,
         WritersGoForward, HasNewest, StartedBy
<1>2. ConfigInv /\ [ConfigRequest]_configVars => ConfigInv'
  <2> SUFFICES ASSUME ConfigInv, [ConfigRequest]_configVars PROVE ConfigInv'
    OBVIOUS
  <2>1. CASE UNCHANGED configVars
    BY <2>1, ConfigUnchanged
  <2>2. ASSUME NEW w \in Writers, NEW d \in Dates, BeginCreate(w, d) PROVE ConfigInv'
    <3> DEFINE prev == {x.effective : x \in Newest(Current)}
               r == [pc |-> "create", prev |-> prev, new |-> d]
    <3>1. prev \subseteq Dates
      BY DEF ConfigInv, ConfigTypeOK, ConfigRow, Newest, Current
    <3>2. /\ r \in WriterRow /\ r.new \in Dates
          /\ \A e \in r.prev : e < r.new
      BY <2>2, <3>1 DEF BeginCreate, WriterRow
    <3>3. UNCHANGED stored /\ writer' = [writer EXCEPT ![w] = r]
      BY <2>2 DEF BeginCreate
    <3> HIDE DEF r
    <3> QED BY <3>2, <3>3, ConfigReads
  <2>3. ASSUME NEW w \in Writers, CommitCreate(w) PROVE ConfigInv'
    BY <2>3, ConfigCommits
  <2>4. ASSUME NEW w \in Writers, AbortCreate(w) PROVE ConfigInv'
    <3>1. NoWriter \in WriterRow /\ NoWriter.pc # "create"
      BY DEF NoWriter, WriterRow
    <3> QED BY <2>4, <3>1, ConfigReads DEF AbortCreate
  <2> QED BY <2>1, <2>2, <2>3, <2>4 DEF ConfigRequest
<1> QED BY <1>1, <1>2, PTL DEF ConfigSpec

\* get_config returns the row that started last, on every day, whatever requests
\* overlapped: the invariant leaves no day to a row that was superseded by then.
THEOREM ConfigLatestInForce == ConfigSpec => []LatestInForce
<1>1. ConfigInv => LatestInForce
  <2> SUFFICES ASSUME ConfigInv, NEW day \in Dates
               PROVE  InForce(day) = Newest(StartedBy(day))
    BY DEF LatestInForce, StartedBy
  <2> USE DatesAssumption
  <2> DEFINE Covering == {x \in stored : /\ x.effective <= day
                                         /\ (x.superseded = Never \/ x.superseded > day)}
  <2>1. \A x \in stored : x.effective \in Int /\ (x.superseded # Never => x.superseded \in Int)
    BY DEF ConfigInv, ConfigTypeOK, ConfigRow
  <2>2. Newest(StartedBy(day)) \subseteq Covering
    <3> SUFFICES ASSUME NEW x \in Newest(StartedBy(day)), x.superseded # Never, ~(x.superseded > day)
                 PROVE  FALSE
      BY DEF Newest, StartedBy
    <3>1. x \in stored /\ x.effective < x.superseded /\ x.superseded \in Starts
      BY DEF Newest, StartedBy, ConfigInv, SupersededLater
    <3>2. PICK y \in stored : y.effective = x.superseded
      BY <3>1 DEF Starts
    <3>3. y \in StartedBy(day)
      BY <3>1, <3>2, <2>1 DEF StartedBy
    <3> QED BY <3>1, <3>2, <3>3, <2>1 DEF Newest
  <2>3. Newest(StartedBy(day)) \subseteq Newest(Covering)
    BY <2>2 DEF Newest, StartedBy
  <2>4. ASSUME NEW x \in Newest(Covering) PROVE x \in Newest(StartedBy(day))
    <3>1. x \in StartedBy(day)
      BY <2>4 DEF Newest, StartedBy
    <3>2. PICK m \in Newest(StartedBy(day)) : TRUE
      BY <3>1 DEF ConfigInv, HasNewest
    <3>3. m.effective <= x.effective
      BY <3>2, <2>2, <2>4 DEF Newest
    <3> QED BY <3>1, <3>2, <3>3, <2>1 DEF Newest, StartedBy
  <2> QED BY <2>3, <2>4 DEF InForce
<1> QED BY <1>1, ConfigInvariant, PTL

\* Every request at a desk leaves the configuration alone, and configuration
\* requests are served as SystemConfiguration says.
THEOREM RecordsServeConfiguration == Spec => ConfigSpec
<1>1. Init => ConfigInit
  BY DEF Init
<1>2. [Next]_vars => [ConfigRequest]_configVars
  <2> SUFFICES ASSUME [Next]_vars PROVE [ConfigRequest]_configVars
    OBVIOUS
  <2>1. CASE UNCHANGED vars
    BY <2>1 DEF vars
  <2>2. ASSUME NEW w \in Workers, Receive(w) PROVE UNCHANGED configVars
    BY <2>2 DEF Receive, ReceiveAccountRequest, ReceiveContact, ReceivePlanRequest,
                ReceiveFormRequest, ReceiveBeneficiaryRequest, Load
  <2>3. ASSUME NEW w \in Workers, Perform(w) PROVE UNCHANGED configVars
    BY <2>3 DEF Perform, AddAccount, SetPrimary, CloseAccount, AddContact, SetPlanChoice,
                LockPlanChoice, CreateSubmission, MarkReturned, CancelSubmission,
                ExpireSubmission, AddBeneficiary, CloseBeneficiary, Commit
  <2>4. ASSUME NEW w \in Workers, Select(w) \/ Abort(w) PROVE UNCHANGED configVars
    BY <2>4 DEF Select, Abort
  <2> QED  BY <2>1, <2>2, <2>3, <2>4 DEF Next
<1> QED  BY <1>1, <1>2, PTL DEF Spec, ConfigSpec

\* get_config returns the row that started last in every behaviour of the records.
THEOREM RecordsLatestInForce == Spec => []LatestInForce
  BY RecordsServeConfiguration, ConfigLatestInForce, PTL
-----------------------------------------------------------------------------
(* Tables and requests *)

\* Which desks keep addresses or contacts is plain to every proof below.
USE DEF Addressed

\* The columns of each table.
Columns == CASE desk = "accounts"      -> {"open", "primary"}
             [] Addressed            -> {"effective", "end", "primary"}
             [] desk = "plan"          -> {"tier", "type", "locked"}
             [] desk = "forms"         -> {"status", "data"}
             [] OTHER                  -> {"end"}

IsTable(f) == f = [x \in DOMAIN f |-> f[x]]
IsRow(row) == DOMAIN row = Columns /\ IsTable(row)

Kinds == CASE desk = "accounts"      -> {"add", "setPrimary", "close"}
           [] Addressed            -> {"add"}
           [] desk = "plan"          -> {"choose", "lock"}
           [] desk = "forms"         -> {"add", "return", "cancel", "expire"}
           [] desk = "beneficiaries" -> {"add", "end"}
           [] OTHER                  -> {}

\* A request is one the desk serves.  While no other commits, what it loaded is the
\* table and what it checked is true.
IsRequest(t) ==
    /\ t = [kind |-> t.kind, id |-> t.id, arg |-> t.arg, alone |-> t.alone,
            selected |-> t.selected, loaded |-> t.loaded]
    /\ t.kind \in Kinds /\ t.alone \in BOOLEAN
    /\ Addressed => t.arg \in Contact
    /\ t.kind # "add" => t.id \in DOMAIN rows
    /\ t.alone => t.loaded = rows
    /\ t.alone /\ t.kind # "add" => Accepts(t.kind, rows[t.id])

RecordsType == /\ IsTable(rows) /\ \A i \in DOMAIN rows : IsRow(rows[i])
               /\ DOMAIN tx = Workers
               /\ \A w \in Workers : tx[w] = Idle \/ IsRequest(tx[w])

RecordsInv == RecordsType /\ OnePrimary /\ OneActive

\* Columns that were not changed keep what is stored.
LEMMA Flushed ==
    ASSUME NEW stored0, NEW loaded, NEW changed, IsTable(stored0)
    PROVE  LET after == Flush(stored0, loaded, changed)
           IN  /\ DOMAIN after = DOMAIN stored0 /\ IsTable(after)
               /\ loaded = changed => after = stored0
               /\ loaded = stored0 => \A col \in DOMAIN stored0 : after[col] = changed[col]
  BY DEF Flush, IsTable

\* What a commit does to the table, and what one does that no other overtook.
CommitDoes(t, changed, added) ==
    /\ IsTable(rows') /\ DOMAIN rows' = DOMAIN added \cup DOMAIN rows
    /\ DOMAIN added \cap DOMAIN rows = {}
    /\ \A i \in DOMAIN added : rows'[i] = added[i]
    /\ \A i \in DOMAIN rows : DOMAIN rows'[i] = DOMAIN rows[i] /\ IsTable(rows'[i])
    /\ t.alone => \A i \in DOMAIN rows :
         /\ changed[i] = rows[i] => rows'[i] = rows[i]
         /\ \A col \in DOMAIN rows[i] : rows'[i][col] = changed[i][col]
    /\ last' = [kind |-> t.kind, id |-> t.id, arg |-> t.arg, alone |-> t.alone]
    /\ desk' = desk

\* Every commit does.
LEMMA Committed ==
    ASSUME RecordsType, NEW w \in Workers, tx[w] # Idle, NEW changed, NEW added,
           Commit(w, changed, added)
    PROVE  CommitDoes(tx[w], changed, added)
<1> DEFINE t == tx[w]
           Kept(i) == IF i \in DOMAIN t.loaded THEN Flush(rows[i], t.loaded[i], changed[i]) ELSE rows[i]
<1>1. /\ rows' = [x \in DOMAIN added \cup DOMAIN rows |-> IF x \in DOMAIN added THEN added[x] ELSE Kept(x)]
      /\ DOMAIN added \cap DOMAIN rows = {}
  BY DEF Commit
<1>2. \A i \in DOMAIN rows : IsTable(rows[i])
  BY DEF RecordsType, IsRow
<1>3. \A i \in DOMAIN rows : DOMAIN Kept(i) = DOMAIN rows[i] /\ IsTable(Kept(i))
  BY <1>2, Flushed
<1>4. ASSUME t.alone, NEW i \in DOMAIN rows
      PROVE  /\ changed[i] = rows[i] => Kept(i) = rows[i]
             /\ \A col \in DOMAIN rows[i] : Kept(i)[col] = changed[i][col]
  <2>1. t.loaded = rows
    BY <1>4 DEF RecordsType, IsRequest
  <2>2. Kept(i) = Flush(rows[i], rows[i], changed[i])
    BY <2>1
  <2> QED  BY <1>2, <2>2, Flushed
<1>5. last' = [kind |-> t.kind, id |-> t.id, arg |-> t.arg, alone |-> t.alone] /\ desk' = desk
  BY DEF Commit
<1> HIDE DEF Kept
<1>6. IsTable(rows')
  BY <1>1 DEF IsTable
<1>7. /\ DOMAIN rows' = DOMAIN added \cup DOMAIN rows
      /\ \A i \in DOMAIN added : rows'[i] = added[i]
      /\ \A i \in DOMAIN rows : rows'[i] = Kept(i)
  BY <1>1
<1> QED  BY <1>1, <1>3, <1>4, <1>5, <1>6, <1>7 DEF CommitDoes

\* A commit keeps the columns of every table, and overtakes the other requests.
LEMMA CommitKeepsTypes ==
    ASSUME RecordsType, NEW w \in Workers, tx[w] # Idle, NEW changed, NEW added,
           Commit(w, changed, added), \A i \in DOMAIN added : IsRow(added[i])
    PROVE  RecordsType'
<1>1. /\ IsTable(rows') /\ DOMAIN rows' = DOMAIN added \cup DOMAIN rows
      /\ \A i \in DOMAIN added : rows'[i] = added[i]
      /\ \A i \in DOMAIN rows : DOMAIN rows'[i] = DOMAIN rows[i] /\ IsTable(rows'[i])
      /\ desk' = desk
  BY Committed DEF CommitDoes
<1>2. \A i \in DOMAIN rows' : IsRow(rows'[i])
  BY <1>1 DEF RecordsType, IsRow
<1>3. /\ DOMAIN tx' = Workers
      /\ \A v \in Workers : tx'[v] = IF v = w \/ tx[v] = Idle THEN Idle
                                     ELSE [tx[v] EXCEPT !.alone = FALSE]
  BY DEF Commit
<1>4. ASSUME NEW v \in Workers PROVE (tx[v] = Idle \/ IsRequest(tx[v]))'
  <2>1. CASE v = w \/ tx[v] = Idle
    BY <1>3, <2>1
  <2>2. CASE v # w /\ tx[v] # Idle
    <3> DEFINE p == tx[v]
               q == tx'[v]
    <3>1. IsRequest(p)
      BY <2>2 DEF RecordsType
    <3>2. q = [p EXCEPT !.alone = FALSE]
      BY <1>3, <2>2
    <3> HIDE DEF p, q
    <3>3. PICK k, i, a, b, s, l :
              p = [kind |-> k, id |-> i, arg |-> a, alone |-> b, selected |-> s, loaded |-> l]
      BY <3>1 DEF IsRequest
    <3>4. q = [kind |-> k, id |-> i, arg |-> a, alone |-> FALSE, selected |-> s, loaded |-> l]
      BY <3>2, <3>3
    <3>5. k \in Kinds /\ (Addressed => a \in Contact) /\ (k # "add" => i \in DOMAIN rows)
      BY <3>1, <3>3 DEF IsRequest
    <3>6. Kinds' = Kinds
      BY <1>1 DEF Kinds
    <3> QED  BY <1>1, <3>4, <3>5, <3>6 DEF IsRequest, q
  <2> QED  BY <2>1, <2>2
<1>5. Columns' = Columns
  BY <1>1 DEF Columns
<1>6. IsTable(rows)' /\ \A i \in DOMAIN rows' : IsRow(rows[i])'
  BY <1>1, <1>2, <1>5 DEF IsRow, IsTable
<1> QED  BY <1>3, <1>4, <1>6 DEF RecordsType

\* One worker's request changes, and nothing else.
LEMMA OneWorker ==
    ASSUME RecordsType, UNCHANGED <<desk, rows>>, NEW w \in Workers, NEW q,
           tx' = [tx EXCEPT ![w] = q], q = Idle \/ IsRequest(q)
    PROVE  RecordsType'
<1>1. DOMAIN tx' = Workers /\ \A v \in Workers : tx'[v] = IF v = w THEN q ELSE tx[v]
  BY DEF RecordsType
<1>2. \A v \in Workers : tx'[v] = Idle \/ IsRequest(tx'[v])
  BY <1>1 DEF RecordsType
<1>3. \A v \in Workers : (tx[v] = Idle \/ IsRequest(tx[v]))'
  BY <1>2 DEF IsRequest, Kinds
<1>5. IsTable(rows)' /\ \A i \in DOMAIN rows' : IsRow(rows[i])'
  BY DEF RecordsType, IsTable, IsRow, Columns
<1> QED  BY <1>1, <1>3, <1>5 DEF RecordsType

\* A request that is received was checked on the table as it is.
LEMMA ReceiveKeeps ==
    ASSUME RecordsType, NEW w \in Workers, Receive(w)
    PROVE  RecordsType' /\ UNCHANGED <<desk, rows, last>>
<1>1. \E kind \in Kinds : \E id, arg :
          Load(w, kind, id, arg) /\ (Addressed => arg \in Contact)
  BY DEF Receive, ReceiveAccountRequest, ReceiveContact, New, ReceivePlanRequest,
         ReceiveFormRequest, ReceiveBeneficiaryRequest, Kinds
<1>4. PICK kind \in Kinds : \E id, arg :
          Load(w, kind, id, arg) /\ (Addressed => arg \in Contact)
  BY <1>1
<1>2. PICK id, arg : Load(w, kind, id, arg) /\ (Addressed => arg \in Contact)
  BY <1>4
<1> DEFINE q == [kind |-> kind, id |-> id, arg |-> arg, alone |-> TRUE,
                 selected |-> kind # "setPrimary", loaded |-> rows]
<1>3. IsRequest(q)
  BY <1>2 DEF IsRequest, Load
<1>5. tx' = [tx EXCEPT ![w] = q] /\ UNCHANGED <<desk, rows, last>>
  BY <1>2 DEF Load
<1> HIDE DEF q
<1> QED  BY <1>3, <1>5, OneWorker

\* Selecting the other rows again finds what was loaded, unless another committed.
LEMMA SelectKeeps ==
    ASSUME RecordsType, NEW w \in Workers, Select(w)
    PROVE  RecordsType' /\ UNCHANGED <<desk, rows, last>>
<1> DEFINE p == tx[w]
           table == [rows EXCEPT ![p.id] = p.loaded[p.id]]
           q == [p EXCEPT !.selected = TRUE, !.loaded = table]
<1>1. p # Idle /\ tx' = [tx EXCEPT ![w] = q] /\ UNCHANGED <<desk, rows, last>>
  BY DEF Select
<1>2. IsRequest(p)
  BY <1>1 DEF RecordsType
<1>3. p.alone => table = rows
  BY <1>2 DEF IsRequest, RecordsType, IsTable
<1> HIDE DEF p, table
<1>4. q = [p EXCEPT !.selected = TRUE, !.loaded = table]
  OBVIOUS
<1> HIDE DEF q
<1>5. PICK k, i, a, b, s, l :
          p = [kind |-> k, id |-> i, arg |-> a, alone |-> b, selected |-> s, loaded |-> l]
  BY <1>2 DEF IsRequest
<1>6. q = [kind |-> k, id |-> i, arg |-> a, alone |-> b, selected |-> TRUE, loaded |-> table]
  BY <1>4, <1>5
<1>7. IsRequest(q)
  BY <1>2, <1>3, <1>5, <1>6 DEF IsRequest
<1> QED  BY <1>1, <1>7, OneWorker

\* What the handlers mean to change, when what they loaded is the table: a new row,
\* or the row they were asked to change and on the way those it supersedes.
Intends(t, changed, added) ==
    /\ \A i \in DOMAIN added : IsRow(added[i])
    /\ DOMAIN added = IF t.kind = "add" THEN {t.id} ELSE {}
    /\ t.alone =>
        /\ desk # "accounts" /\ ~Addressed =>
              \A i \in DOMAIN rows : (t.kind = "add" \/ i # t.id) => changed[i] = rows[i]
        /\ desk = "accounts" /\ (t.kind = "setPrimary" \/ (t.kind = "add" /\ t.arg)) =>
            /\ \A i \in DOMAIN rows \ {t.id} : changed[i].primary = FALSE
            /\ t.kind = "add" => added[t.id].primary = TRUE
            /\ t.kind = "setPrimary" => changed[t.id].primary = TRUE
        /\ Addressed =>
            /\ added[t.id].end = Never /\ (t.arg.primary => added[t.id].primary = TRUE)
            /\ \A i \in DOMAIN rows :
                /\ t.arg.supersede => changed[i].end # Never
                /\ changed[i].end = Never /\ t.arg.primary => changed[i].primary = FALSE

\* A handler inserts a row under its own id.
LEMMA RowInserted == ASSUME NEW id, NEW row
                     PROVE  DOMAIN Row(id, row) = {id} /\ Row(id, row)[id] = row
  BY DEF Row

\* Bank accounts: the primary one is cleared before another is set.
LEMMA AccountsIntend ==
    ASSUME RecordsType, NEW w \in Workers, AddAccount(w) \/ SetPrimary(w) \/ CloseAccount(w)
    PROVE  /\ tx[w] # Idle
           /\ \E changed, added : Commit(w, changed, added) /\ Intends(tx[w], changed, added)
<1> DEFINE t == tx[w]
<1>1. /\ t # Idle /\ IsRequest(t) /\ desk = "accounts"
      /\ \A i \in DOMAIN rows : DOMAIN rows[i] = {"open", "primary"}
  BY DEF AddAccount, SetPrimary, CloseAccount, Doing, RecordsType, IsRequest, Kinds, IsRow, Columns
<1>2. t.alone => t.loaded = rows
  BY <1>1 DEF IsRequest
<1>3. \A i \in DOMAIN rows : [rows[i] EXCEPT !.primary = FALSE].primary = FALSE
  BY <1>1
<1>4. DOMAIN ClearPrimary(rows) = DOMAIN rows /\ \A i \in DOMAIN rows : ClearPrimary(rows)[i].primary = FALSE
  BY <1>3 DEF ClearPrimary
<1>5. CASE AddAccount(w)
  <2> DEFINE changed == IF t.arg THEN ClearPrimary(t.loaded) ELSE t.loaded
             row == [open |-> TRUE, primary |-> t.arg]
             added == Row(t.id, row)
  <2>1. Commit(w, changed, added) /\ t.kind = "add"
    BY <1>5 DEF AddAccount, Doing
  <2>2. IsRow(row) /\ row.primary = t.arg
    BY <1>1 DEF IsRow, IsTable, Columns
  <2>3. t.alone /\ t.arg => \A i \in DOMAIN rows : changed[i].primary = FALSE
    BY <1>2, <1>4
  <2> HIDE DEF changed, row
  <2>4. DOMAIN added = {t.id} /\ added[t.id] = row
    BY RowInserted
  <2> HIDE DEF added
  <2>5. Intends(t, changed, added)
    BY <1>1, <2>1, <2>2, <2>3, <2>4 DEF Intends
  <2> QED  BY <1>1, <2>1, <2>5
<1>6. CASE SetPrimary(w)
  <2> DEFINE changed == [ClearPrimary(t.loaded) EXCEPT ![t.id].primary = TRUE]
             added == <<>>
  <2>1. Commit(w, changed, added) /\ t.kind = "setPrimary" /\ DOMAIN added = {}
    BY <1>6 DEF SetPrimary, Doing
  <2>2. t.id \in DOMAIN rows
    BY <1>1, <2>1 DEF IsRequest
  <2>3. ASSUME t.alone
        PROVE  /\ changed[t.id].primary = TRUE
               /\ \A i \in DOMAIN rows \ {t.id} : changed[i].primary = FALSE
    <3> DEFINE f == ClearPrimary(rows)
    <3>1. changed = [f EXCEPT ![t.id].primary = TRUE]
      BY <1>2, <2>3
    <3>2. DOMAIN f[t.id] = {"open", "primary"}
      BY <1>1, <2>2 DEF ClearPrimary
    <3> HIDE DEF f, changed
    <3>3. DOMAIN f = DOMAIN rows /\ \A i \in DOMAIN rows : f[i].primary = FALSE
      BY <1>4 DEF f
    <3>4. changed[t.id] = [f[t.id] EXCEPT !.primary = TRUE]
          /\ \A i \in DOMAIN rows \ {t.id} : changed[i] = f[i]
      BY <2>2, <3>1, <3>3
    <3> QED  BY <3>2, <3>3, <3>4
  <2> HIDE DEF changed, added
  <2>4. Intends(t, changed, added)
    BY <1>1, <2>1, <2>3 DEF Intends
  <2> QED  BY <1>1, <2>1, <2>4
<1>7. CASE CloseAccount(w)
  <2> DEFINE changed == [t.loaded EXCEPT ![t.id] = [open |-> FALSE, primary |-> FALSE]]
             added == <<>>
  <2>1. Commit(w, changed, added) /\ t.kind = "close" /\ DOMAIN added = {}
    BY <1>7 DEF CloseAccount, Doing
  <2> HIDE DEF changed, added
  <2>2. Intends(t, changed, added)
    BY <1>1, <2>1 DEF Intends
  <2> QED  BY <1>1, <2>1, <2>2
<1> QED  BY <1>5, <1>6, <1>7

\* Addresses and contacts: the active ones give way to the one that is added.
LEMMA ContactsIntend ==
    ASSUME RecordsType, NEW w \in Workers, AddContact(w)
    PROVE  /\ tx[w] # Idle
           /\ \E changed, added : Commit(w, changed, added) /\ Intends(tx[w], changed, added)
<1> DEFINE t == tx[w]
           changed == GivenWay(t.loaded, t.arg)
           row == [effective |-> t.arg.effective, end |-> Never, primary |-> t.arg.primary]
           added == Row(t.id, row)
<1>1. /\ t # Idle /\ IsRequest(t) /\ Addressed /\ t.kind = "add"
      /\ Commit(w, changed, added)
      /\ \A i \in DOMAIN rows : DOMAIN rows[i] = {"effective", "end", "primary"}
  BY DEF AddContact, Doing, RecordsType, IsRow, Columns
<1>2. (t.alone => t.loaded = rows) /\ t.arg \in Contact
  BY <1>1 DEF IsRequest
<1>3. t.arg.effective - 1 # Never
  <2> DEFINE d == t.arg.effective
  <2>1. d \in Int /\ Never \notin Int
    BY <1>2, DatesAssumption DEF Contact
  <2> HIDE DEF d
  <2>2. d - 1 \in Int
    BY <2>1
  <2> QED  BY <2>1, <2>2 DEF d
<1>4. IsRow(row) /\ row.end = Never /\ row.primary = t.arg.primary
  BY <1>1 DEF IsRow, IsTable, Columns
<1>5. ASSUME t.alone, NEW i \in DOMAIN rows
      PROVE  /\ t.arg.supersede => changed[i].end # Never
             /\ changed[i].end = Never /\ t.arg.primary => changed[i].primary = FALSE
  <2>1. changed[i] = IF i \notin Active(rows) THEN rows[i]
                     ELSE IF t.arg.supersede THEN [rows[i] EXCEPT !.end = t.arg.effective - 1]
                     ELSE IF t.arg.primary THEN [rows[i] EXCEPT !.primary = FALSE]
                     ELSE rows[i]
    BY <1>2, <1>5 DEF GivenWay
  <2> DEFINE c == changed[i]
             p == rows[i]
             e == t.arg.effective - 1
  <2>2. i \notin Active(rows) => p.end # Never
    BY DEF Active
  <2>3. DOMAIN p = {"effective", "end", "primary"}
    BY <1>1
  <2>4. \/ i \notin Active(rows) /\ c = p
        \/ i \in Active(rows) /\ t.arg.supersede /\ c = [p EXCEPT !.end = e]
        \/ ~t.arg.supersede /\ t.arg.primary /\ c = [p EXCEPT !.primary = FALSE]
        \/ ~t.arg.supersede /\ ~t.arg.primary /\ c = p
    BY <2>1
  <2>5. e # Never
    BY <1>3
  <2> HIDE DEF c, p, e
  <2>6. /\ t.arg.supersede => c.end # Never
        /\ c.end = Never /\ t.arg.primary => c.primary = FALSE
    BY <2>2, <2>3, <2>4, <2>5
  <2> QED  BY <2>6 DEF c
<1> HIDE DEF changed, row
<1>6. DOMAIN added = {t.id} /\ added[t.id] = row
  BY RowInserted
<1> HIDE DEF added
<1>7. Intends(t, changed, added)
  BY <1>1, <1>4, <1>5, <1>6 DEF Intends
<1> QED  BY <1>1, <1>7

\* Plan choice, forms and beneficiaries: one row changes, or one is added.
LEMMA OthersIntend ==
    ASSUME RecordsType, NEW w \in Workers,
           \/ SetPlanChoice(w) \/ LockPlanChoice(w)
           \/ CreateSubmission(w) \/ MarkReturned(w) \/ CancelSubmission(w) \/ ExpireSubmission(w)
           \/ AddBeneficiary(w) \/ CloseBeneficiary(w)
    PROVE  /\ tx[w] # Idle
           /\ \E changed, added : Commit(w, changed, added) /\ Intends(tx[w], changed, added)
<1> DEFINE t == tx[w]
<1>1. /\ t # Idle /\ IsRequest(t) /\ desk # "accounts" /\ ~Addressed
      /\ t.kind \in {"choose", "lock", "return", "cancel", "expire", "end", "add"}
  BY DEF SetPlanChoice, LockPlanChoice, CreateSubmission, MarkReturned, CancelSubmission,
         ExpireSubmission, AddBeneficiary, CloseBeneficiary, Doing, RecordsType, IsRequest, Kinds
<1>2. t.alone => t.loaded = rows
  BY <1>1 DEF IsRequest
<1>3. ASSUME NEW changed, Commit(w, changed, <<>>), t.kind # "add",
             t.alone => \A i \in DOMAIN rows \ {t.id} : changed[i] = rows[i]
      PROVE  \E c, added : Commit(w, c, added) /\ Intends(t, c, added)
  <2> DEFINE none == <<>>
  <2>1. Commit(w, changed, none) /\ DOMAIN none = {}
    BY <1>3
  <2> HIDE DEF none
  <2>2. Intends(t, changed, none)
    BY <1>1, <1>3, <2>1 DEF Intends
  <2> QED  BY <2>1, <2>2
<1>4. ASSUME NEW row, IsRow(row), Commit(w, t.loaded, Row(t.id, row)), t.kind = "add"
      PROVE  \E c, added : Commit(w, c, added) /\ Intends(t, c, added)
  <2> DEFINE added == Row(t.id, row)
             changed == t.loaded
  <2>1. Commit(w, changed, added) /\ DOMAIN added = {t.id} /\ added[t.id] = row
    BY <1>4, RowInserted
  <2> HIDE DEF changed, added
  <2>2. Intends(t, changed, added)
    BY <1>1, <1>2, <1>4, <2>1 DEF Intends, changed
  <2> QED  BY <2>1, <2>2
<1>5. CASE SetPlanChoice(w)
  <2> DEFINE changed == [t.loaded EXCEPT ![t.id].tier = t.arg[1], ![t.id].type = t.arg[2]]
  <2>1. t.alone => \A i \in DOMAIN rows \ {t.id} : changed[i] = rows[i]
    BY <1>2
  <2>2. Commit(w, changed, <<>>) /\ t.kind # "add"
    BY <1>5 DEF SetPlanChoice, Doing
  <2> HIDE DEF changed
  <2> QED  BY <1>1, <1>3, <2>1, <2>2
<1>6. CASE LockPlanChoice(w)
  <2> DEFINE changed == [t.loaded EXCEPT ![t.id].locked = TRUE]
  <2>1. t.alone => \A i \in DOMAIN rows \ {t.id} : changed[i] = rows[i]
    BY <1>2
  <2>2. Commit(w, changed, <<>>) /\ t.kind # "add"
    BY <1>6 DEF LockPlanChoice, Doing
  <2> HIDE DEF changed
  <2> QED  BY <1>1, <1>3, <2>1, <2>2
<1>7. CASE MarkReturned(w)
  <2> DEFINE changed == [t.loaded EXCEPT ![t.id] = [status |-> "returned", data |-> TRUE]]
  <2>1. t.alone => \A i \in DOMAIN rows \ {t.id} : changed[i] = rows[i]
    BY <1>2
  <2>2. Commit(w, changed, <<>>) /\ t.kind # "add"
    BY <1>7 DEF MarkReturned, Doing
  <2> HIDE DEF changed
  <2> QED  BY <1>1, <1>3, <2>1, <2>2
<1>8. CASE CancelSubmission(w)
  <2> DEFINE changed == [t.loaded EXCEPT ![t.id].status = "cancelled"]
  <2>1. t.alone => \A i \in DOMAIN rows \ {t.id} : changed[i] = rows[i]
    BY <1>2
  <2>2. Commit(w, changed, <<>>) /\ t.kind # "add"
    BY <1>8 DEF CancelSubmission, Doing
  <2> HIDE DEF changed
  <2> QED  BY <1>1, <1>3, <2>1, <2>2
<1>9. CASE ExpireSubmission(w)
  <2> DEFINE changed == [t.loaded EXCEPT ![t.id].status = "expired"]
  <2>1. t.alone => \A i \in DOMAIN rows \ {t.id} : changed[i] = rows[i]
    BY <1>2
  <2>2. Commit(w, changed, <<>>) /\ t.kind # "add"
    BY <1>9 DEF ExpireSubmission, Doing
  <2> HIDE DEF changed
  <2> QED  BY <1>1, <1>3, <2>1, <2>2
<1>10. CASE CloseBeneficiary(w)
  <2> DEFINE changed == [t.loaded EXCEPT ![t.id].end = t.arg]
  <2>1. t.alone => \A i \in DOMAIN rows \ {t.id} : changed[i] = rows[i]
    BY <1>2
  <2>2. Commit(w, changed, <<>>) /\ t.kind # "add"
    BY <1>10 DEF CloseBeneficiary, Doing
  <2> HIDE DEF changed
  <2> QED  BY <1>1, <1>3, <2>1, <2>2
<1>11. CASE CreateSubmission(w)
  <2> DEFINE row == [status |-> "sent", data |-> FALSE]
  <2>1. desk = "forms" /\ t.kind = "add" /\ Commit(w, t.loaded, Row(t.id, row))
    BY <1>11 DEF CreateSubmission, Doing
  <2>2. IsRow(row)
    BY <2>1 DEF IsRow, IsTable, Columns
  <2> HIDE DEF row
  <2> QED  BY <1>1, <1>4, <2>1, <2>2
<1>12. CASE AddBeneficiary(w)
  <2> DEFINE row == [end |-> Never]
  <2>1. desk = "beneficiaries" /\ t.kind = "add" /\ Commit(w, t.loaded, Row(t.id, row))
    BY <1>12 DEF AddBeneficiary, Doing
  <2>2. IsRow(row)
    BY <2>1 DEF IsRow, IsTable, Columns
  <2> HIDE DEF row
  <2> QED  BY <1>1, <1>4, <2>1, <2>2
<1> QED  BY <1>5, <1>6, <1>7, <1>8, <1>9, <1>10, <1>11, <1>12

\* So does every handler.
LEMMA HandlersIntend ==
    ASSUME RecordsType, NEW w \in Workers, Perform(w)
    PROVE  /\ tx[w] # Idle /\ IsRequest(tx[w])
           /\ \E changed, added : Commit(w, changed, added) /\ Intends(tx[w], changed, added)
<1>1. /\ tx[w] # Idle
      /\ \E changed, added : Commit(w, changed, added) /\ Intends(tx[w], changed, added)
  BY AccountsIntend, ContactsIntend, OthersIntend DEF Perform
<1> QED  BY <1>1 DEF RecordsType
-----------------------------------------------------------------------------
(* Theorems *)

\* A handler that no other request overtook leaves one primary row, if it was
\* asked for one, and one active address; whatever was overtaken promises nothing.
LEMMA PerformKeeps ==
    ASSUME RecordsInv, NEW w \in Workers, Perform(w)
    PROVE  RecordsInv'
<1>0. RecordsType
  BY DEF RecordsInv
<1> DEFINE t == tx[w]
<1>1. t # Idle /\ IsRequest(t)
  BY <1>0, HandlersIntend
<1>2. PICK changed, added : Commit(w, changed, added) /\ Intends(t, changed, added)
  BY <1>0, HandlersIntend
<1>3. /\ DOMAIN rows' = DOMAIN added \cup DOMAIN rows
      /\ DOMAIN added \cap DOMAIN rows = {}
      /\ \A i \in DOMAIN added : rows'[i] = added[i]
      /\ t.alone => \A i \in DOMAIN rows :
             \A col \in DOMAIN rows[i] : rows'[i][col] = changed[i][col]
      /\ last' = [kind |-> t.kind, id |-> t.id, arg |-> t.arg, alone |-> t.alone]
      /\ desk' = desk
  <2>1. CommitDoes(t, changed, added)
    BY <1>0, <1>1, <1>2, Committed
  <2> QED  BY <2>1 DEF CommitDoes
<1>4. RecordsType'
  BY <1>0, <1>1, <1>2, CommitKeepsTypes DEF Intends
<1>5. t.kind \in Kinds /\ (Addressed => t.arg \in Contact) /\ (t.kind # "add" => t.id \in DOMAIN rows)
  BY <1>1 DEF IsRequest
<1>6. last'.alone = t.alone /\ last'.kind = t.kind /\ last'.id = t.id /\ last'.arg = t.arg
  BY <1>3
<1>7. DOMAIN added = IF t.kind = "add" THEN {t.id} ELSE {}
  BY <1>2 DEF Intends
<1>8. ASSUME t.alone, desk = "accounts", t.kind = "setPrimary" \/ (t.kind = "add" /\ t.arg)
      PROVE  {i \in DOMAIN rows' : rows'[i].primary} = {t.id}
  <2>1. /\ \A i \in DOMAIN rows \ {t.id} : changed[i].primary = FALSE
        /\ t.kind = "add" => added[t.id].primary = TRUE
        /\ t.kind = "setPrimary" => changed[t.id].primary = TRUE
    BY <1>2, <1>8 DEF Intends
  <2>2. \A i \in DOMAIN rows : DOMAIN rows[i] = {"open", "primary"}
    BY <1>0, <1>8 DEF RecordsType, IsRow, Columns
  <2>3. \A i \in DOMAIN rows : rows'[i].primary = changed[i].primary
    BY <1>3, <1>8, <2>2
  <2>4. t.id \in DOMAIN rows' /\ rows'[t.id].primary = TRUE
    BY <1>3, <1>5, <1>7, <1>8, <2>1, <2>3
  <2>5. \A i \in DOMAIN rows' \ {t.id} : rows'[i].primary = FALSE
    BY <1>3, <1>7, <2>1, <2>3
  <2> QED  BY <2>4, <2>5
<1>9. ASSUME t.alone, Addressed
      PROVE  /\ t.id \in DOMAIN rows' /\ rows'[t.id].end = Never
             /\ t.arg.primary => rows'[t.id].primary = TRUE
             /\ \A i \in DOMAIN rows' \ {t.id} :
                    /\ t.arg.supersede => rows'[i].end # Never
                    /\ rows'[i].end = Never /\ t.arg.primary => rows'[i].primary = FALSE
  <2>1. t.kind = "add" /\ DOMAIN added = {t.id}
    BY <1>5, <1>7, <1>9 DEF Kinds
  <2>2. /\ added[t.id].end = Never /\ (t.arg.primary => added[t.id].primary = TRUE)
        /\ \A i \in DOMAIN rows :
             /\ t.arg.supersede => changed[i].end # Never
             /\ changed[i].end = Never /\ t.arg.primary => changed[i].primary = FALSE
    BY <1>2, <1>9 DEF Intends
  <2>3. \A i \in DOMAIN rows : DOMAIN rows[i] = {"effective", "end", "primary"}
    BY <1>0, <1>9 DEF RecordsType, IsRow, Columns
  <2>4. \A i \in DOMAIN rows : rows'[i].primary = changed[i].primary /\ rows'[i].end = changed[i].end
    BY <1>3, <1>9, <2>3
  <2> QED  BY <1>3, <2>1, <2>2, <2>4
<1>10. OnePrimary'
  <2> SUFFICES ASSUME last'.alone, AsksForPrimary' PROVE Primaries' = {last'.id}
    BY DEF OnePrimary
  <2>1. CASE desk = "accounts"
    <3>1. t.kind = "setPrimary" \/ (t.kind = "add" /\ t.arg)
      BY <1>3, <1>6, <2>1 DEF AsksForPrimary
    <3>2. Primaries' = {i \in DOMAIN rows' : rows'[i].primary}
      BY <1>3, <2>1 DEF Primaries
    <3> QED  BY <1>6, <1>8, <2>1, <3>1, <3>2
  <2>2. CASE Addressed
    <3>1. t.arg.primary
      BY <1>3, <1>5, <1>6, <2>2 DEF AsksForPrimary, Kinds
    <3>2. Primaries' = {i \in DOMAIN rows' : rows'[i].primary /\ rows'[i].end = Never}
      BY <1>3, <2>2 DEF Primaries, Active
    <3> QED  BY <1>6, <1>9, <2>2, <3>1, <3>2
  <2>3. CASE desk # "accounts" /\ ~Addressed
    BY <1>3, <1>5, <1>6, <2>3 DEF AsksForPrimary, Kinds
  <2> QED  BY <2>1, <2>2, <2>3
<1>11. OneActive'
  <2> SUFFICES ASSUME last'.alone, Addressed', last'.arg.supersede
               PROVE  Active(rows)' = {last'.id}
    BY DEF OneActive
  <2> QED  BY <1>3, <1>6, <1>9 DEF Active
<1> QED  BY <1>4, <1>10, <1>11 DEF RecordsInv

\* A table keeps its columns and a request that was not overtaken knows the table,
\* in every behaviour of any number of workers.
THEOREM RecordsInvariant == Spec => []RecordsInv
<1>1. Init => RecordsInv
  <2> SUFFICES ASSUME Init PROVE RecordsInv
    OBVIOUS
  <2>1. DOMAIN tx = Workers /\ \A w \in Workers : tx[w] = Idle
    BY DEF Init
  <2>2. IsTable(rows) /\ \A i \in DOMAIN rows : IsRow(rows[i])
    <3>1. CASE desk = "plan"
      <4>1. PICK r \in PlanChoice : rows = <<r>>
        BY <3>1 DEF Init
      <4>2. IsRow(r)
        BY <3>1 DEF IsRow, IsTable, Columns, PlanChoice
      <4>3. DOMAIN rows = {1} /\ rows[1] = r
        BY <4>1
      <4>4. IsTable(rows)
        BY <4>1 DEF IsTable
      <4> QED  BY <4>2, <4>3, <4>4
    <3>2. CASE desk # "plan"
      <4>1. rows = <<>>
        BY <3>2 DEF Init
      <4> QED  BY <4>1 DEF IsTable
    <3> QED  BY <3>1, <3>2
  <2>3. last.alone = FALSE
    BY DEF Init, NoRequest
  <2> QED  BY <2>1, <2>2, <2>3 DEF RecordsInv, RecordsType, OnePrimary, OneActive
<1>2. RecordsInv /\ [Next]_vars => RecordsInv'
  <2> SUFFICES ASSUME RecordsInv, [Next]_vars PROVE RecordsInv'
    OBVIOUS
  <2>1. ASSUME RecordsType', UNCHANGED <<desk, rows, last>> PROVE RecordsInv'
    BY <2>1 DEF RecordsInv, OnePrimary, OneActive, Primaries, AsksForPrimary, Active
  <2>2. ASSUME NEW w \in Workers, Receive(w) PROVE RecordsInv'
    BY <2>1, <2>2, ReceiveKeeps DEF RecordsInv
  <2>3. ASSUME NEW w \in Workers, Select(w) PROVE RecordsInv'
    BY <2>1, <2>3, SelectKeeps DEF RecordsInv
  <2>4. ASSUME NEW w \in Workers, Perform(w) PROVE RecordsInv'
    BY <2>4, PerformKeeps
  <2>5. ASSUME NEW w \in Workers, Abort(w) PROVE RecordsInv'
    <3>1. RecordsType'
      BY <2>5, OneWorker DEF Abort, RecordsInv
    <3> QED  BY <2>1, <2>5, <3>1 DEF Abort
  <2>6. ASSUME UNCHANGED <<desk, recordVars>> PROVE RecordsInv'
    <3>1. UNCHANGED <<desk, rows, tx, last>>
      BY <2>6 DEF recordVars
    <3>2. RecordsType'
      BY <3>1 DEF RecordsInv, RecordsType, IsTable, IsRow, Columns, IsRequest, Kinds
    <3> QED  BY <2>1, <3>1, <3>2
  <2>7. CASE UNCHANGED vars
    BY <2>6, <2>7 DEF vars
  <2> QED  BY <2>2, <2>3, <2>4, <2>5, <2>6, <2>7 DEF Next
<1> QED  BY <1>1, <1>2, PTL DEF Spec

\* For any workers: a request for a primary account or contact that no other
\* overtook leaves its row the only primary one.
THEOREM OnePrimaryAlways == Spec => []OnePrimary
<1>1. RecordsInv => OnePrimary
  BY DEF RecordsInv
<1> QED  BY <1>1, RecordsInvariant, PTL

\* For any workers and dates, in any order: an address that no other request
\* overtook is the only active one.
THEOREM OneActiveAlways == Spec => []OneActive
<1>1. RecordsInv => OneActive
  BY DEF RecordsInv
<1> QED  BY <1>1, RecordsInvariant, PTL

\* For any workers: only a request that was overtaken changes a locked choice, a
\* cancelled form or an ended designation; an expired form can be cancelled.
THEOREM FinalRowsStay == Spec => FinalStays
<1> DEFINE Step == \A i \in DOMAIN rows :
                       Final(rows[i]) /\ rows'[i] # rows[i]
                       => ~last'.alone \/ (last'.kind = "cancel" /\ rows[i].status = "expired")
<1>1. RecordsInv /\ [Next]_vars => [Step]_vars
  <2> SUFFICES ASSUME RecordsInv, Next, NEW i \in DOMAIN rows,
                      Final(rows[i]), rows'[i] # rows[i], last'.alone
               PROVE  last'.kind = "cancel" /\ rows[i].status = "expired"
    OBVIOUS
  <2>0. RecordsType
    BY DEF RecordsInv
  <2>1. PICK w \in Workers : Perform(w)
    <3>1. \A w \in Workers : ~Receive(w) /\ ~Select(w)
      BY <2>0, ReceiveKeeps, SelectKeeps
    <3>2. \A w \in Workers : ~Abort(w)
      BY DEF Abort
    <3> QED  BY <3>1, <3>2 DEF Next, recordVars
  <2> DEFINE t == tx[w]
  <2>2. t # Idle /\ IsRequest(t)
    BY <2>0, <2>1, HandlersIntend
  <2>3. PICK changed, added : Commit(w, changed, added) /\ Intends(t, changed, added)
    BY <2>0, <2>1, HandlersIntend
  <2>4. /\ t.alone => (changed[i] = rows[i] => rows'[i] = rows[i])
        /\ last' = [kind |-> t.kind, id |-> t.id, arg |-> t.arg, alone |-> t.alone]
    <3>1. CommitDoes(t, changed, added)
      BY <2>0, <2>2, <2>3, Committed
    <3> QED  BY <3>1 DEF CommitDoes
  <2>5. t.alone /\ last'.kind = t.kind
    BY <2>4
  <2>6. desk \in {"plan", "forms", "beneficiaries"}
    BY DEF Final
  <2>7. t.kind # "add" /\ i = t.id
    BY <2>3, <2>4, <2>5, <2>6 DEF Intends
  <2>8. Accepts(t.kind, rows[i]) /\ t.kind \in Kinds
    BY <2>2, <2>5, <2>7 DEF IsRequest
  <2>9. CASE desk = "plan"
    BY <2>8, <2>9 DEF Final, Accepts, Kinds
  <2>10. CASE desk = "beneficiaries"
    BY <2>7, <2>8, <2>10 DEF Final, Accepts, Kinds
  <2>11. CASE desk = "forms"
    BY <2>5, <2>7, <2>8, <2>11 DEF Final, Accepts, Kinds
  <2> QED  BY <2>6, <2>9, <2>10, <2>11
<1> QED  BY <1>1, RecordsInvariant, PTL DEF Spec, FinalStays
=============================================================================
