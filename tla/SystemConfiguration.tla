------------------------- MODULE SystemConfiguration -------------------------
(***************************************************************************)
(* The rows of one configuration key: insert-only, each in force from its  *)
(* effective date until the row that superseded it starts.  Rates, caps    *)
(* and rules of every other component are looked up here by date.          *)
(*                                                                         *)
(* A request reads the current row and commits later, so another may have  *)
(* superseded that row, or started an earlier one, in between.             *)
(***************************************************************************)
EXTENDS Integers

CONSTANTS
    Writers,        \* connections that serve POST /system-configurations
    Dates,
    Never           \* superseded_date of a row that is still current

ASSUME DatesAssumption == Dates \subseteq Int /\ Never \notin Int

VARIABLES
    stored,         \* system_configurations of the key
    writer          \* the request each connection is inside of

configVars == <<stored, writer>>

ConfigRow == [effective : Dates, superseded : Dates \cup {Never}]

Starts == {x.effective : x \in stored}
Newest(S) == {x \in S : \A y \in S : y.effective <= x.effective}
Current == {x \in stored : x.superseded = Never}

NoWriter == [pc |-> "idle", prev |-> {}, new |-> Never]

ConfigInit == /\ stored = {}
              /\ writer = [w \in Writers |-> NoWriter]

\* The current row is read; the new one has to start after it.
BeginCreate(w, d) ==
    LET prev == {x.effective : x \in Newest(Current)}
    IN  /\ writer[w].pc = "idle"
        /\ \A e \in prev : e < d
        /\ writer' = [writer EXCEPT ![w] = [pc |-> "create", prev |-> prev, new |-> d]]
        /\ UNCHANGED stored

\* The rows after the one that was read is superseded by one that starts on d.
SupersededTheDayBefore(prev, d) ==
    {IF x.effective \in prev THEN [x EXCEPT !.superseded = d - 1] ELSE x : x \in stored}
Superseded(prev, d) ==
    {IF x.effective \in prev THEN [x EXCEPT !.superseded = d] ELSE x : x \in stored}

\* No two rows of a key start on one day: the database refuses the second.
CommitCreate(w) ==
    LET d == writer[w].new
    IN  /\ writer[w].pc = "create"
        /\ d \notin Starts
        /\ stored' = Superseded(writer[w].prev, d) \cup {[effective |-> d, superseded |-> Never]}
        /\ writer' = [writer EXCEPT ![w] = NoWriter]

AbortCreate(w) == /\ writer[w].pc = "create"
                  /\ writer' = [writer EXCEPT ![w] = NoWriter]
                  /\ UNCHANGED stored

ConfigRequest == \E w \in Writers : \/ \E d \in Dates : BeginCreate(w, d)
                                    \/ CommitCreate(w) \/ AbortCreate(w)

ConfigSpec == ConfigInit /\ [][ConfigRequest]_configVars
-----------------------------------------------------------------------------
\* get_config: effective_date is inclusive and superseded_date exclusive.
InForce(asOf) == Newest({x \in stored : /\ x.effective <= asOf
                                       /\ (x.superseded = Never \/ x.superseded > asOf)})

\* Whatever requests overlapped, each day is governed by the row that started
\* last: superseding leaves no day without configuration once there was one, and
\* a row superseded twice, or never, does not hide the one that counts.
LatestInForce == \A day \in Dates : InForce(day) = Newest({x \in stored : x.effective <= day})
=============================================================================
