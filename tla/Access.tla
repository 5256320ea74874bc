------------------------------- MODULE Access -------------------------------
(***************************************************************************)
(* Who is calling, and what the answer costs (get_current_user).  A signed *)
(* token is checked against a cache of Keycloak's signing keys, filled     *)
(* under one lock by the coroutines of a worker process.  An API key is a  *)
(* row that is read, and marked as used, in the session the handler works  *)
(* with: the row stays locked until the handler's transaction ends.        *)
(*                                                                         *)
(* Each request is made once, so no order of the waiters matters for an    *)
(* answer.  Scopes are left out but for their effect: a call may be        *)
(* forbidden.                                                              *)
(***************************************************************************)
EXTENDS Integers, FiniteSets, Relation

CONSTANTS
    Requests,
    Kids,           \* key ids Keycloak signs with, over time
    FirstKid,       \* the one it publishes at the start
    Keys,           \* API key rows
    Calls,          \* what each request may be, see CallType
    TTL,            \* _JWKS_TTL
    MaxClock,       \* bound on time
    None

\* The kinds of handler: `begin` opens its transaction with session.begin(),
\* `commit` ends the one it is in, `read` ends none.
Works == {"read", "begin", "commit", "forbidden", "revoke"}

\* A call: signed with a key id or made with an API key, the handler it reaches
\* and the API key that handler is about.
CallType == [by: {"jwt", "key"}, id: Kids \cup Keys, work: Works, target: Keys]

ASSUME CallsAssumption ==
    /\ Calls \in [Requests -> SUBSET CallType]
    /\ \A r \in Requests : \A c \in Calls[r] : c.id \in IF c.by = "jwt" THEN Kids ELSE Keys
ASSUME KidsAssumption == FirstKid \in Kids
ASSUME TimeAssumption == TTL \in Nat \ {0} /\ MaxClock \in Nat

VARIABLES
    clock,
    published,      \* key ids Keycloak publishes
    gone,           \* when it withdrew the others
    cache,          \* _jwks_keys
    fetchedAt,      \* _jwks_fetched_at
    filledFrom,     \* for the properties: when the answer in the cache was made
    lock,           \* holder of _cache_lock
    active,         \* api_keys.active
    rowLock,        \* transaction that holds the row of an API key
    rq              \* the requests

keycloak == <<clock, published, gone>>
cached == <<cache, fetchedAt, filledFrom>>
jwks == <<cached, lock>>
rows == <<active, rowLock>>
vars == <<keycloak, jwks, rows, rq>>


\* What a request knows, with the key ids in the answer of Keycloak it waits for and
\* the time that answer was made.  For the properties: `steady`, its key id was
\* published all the time since it came; `stale`, it was accepted although the key
\* had been withdrawn too long before it came, see Verified.
Request == [pc |-> "new", call |-> None, now |-> 0, force |-> FALSE, result |-> "pending",
            answer |-> {}, answeredAt |-> 0, steady |-> FALSE, stale |-> FALSE]
Done(q, result) == [Request EXCEPT !.pc = "done", !.result = result,
                                   !.steady = q.steady /\ result = "unknown", !.stale = q.stale]

Init == /\ clock = 0
        /\ published = {FirstKid}
        /\ gone = [k \in Kids |-> 0]
        /\ cache = {} /\ fetchedAt = 0 /\ filledFrom = 0 /\ lock = None
        /\ active = [k \in Keys |-> TRUE]
        /\ rowLock = [k \in Keys |-> None]
        /\ rq = [r \in Requests |-> Request]

At(r, pc) == rq[r].pc = pc
Call(r) == rq[r].call
Goto(r, pc) == rq' = [rq EXCEPT ![r].pc = pc]
-----------------------------------------------------------------------------
(* Keycloak *)

Tick == /\ clock < MaxClock
        /\ clock' = clock + 1
        /\ UNCHANGED <<published, gone, jwks, rows, rq>>

Publish(k) == /\ k \notin published /\ gone[k] = 0
              /\ published' = published \cup {k}
              /\ UNCHANGED <<clock, gone, jwks, rows, rq>>

Withdraw(k) == /\ k \in published /\ published # {k} /\ clock > 0
               /\ published' = published \ {k}
               /\ gone' = [gone EXCEPT ![k] = clock]
               /\ rq' = [r \in Requests |->
                           IF At(r, "new") \/ At(r, "done") \/ Call(r).id # k THEN rq[r]
                           ELSE [rq[r] EXCEPT !.steady = FALSE]]
               /\ UNCHANGED <<clock, jwks, rows>>

LastPublished(k) == IF k \in published THEN clock ELSE gone[k]
-----------------------------------------------------------------------------
(* Signed tokens: _get_keys and decode_token *)

FreshThrough(now) == cache # {} /\ now - fetchedAt <= TTL

Late == fetchedAt - filledFrom

\* Against the time a coroutine read before it waited for the lock.
Fresh(now) == cache # {} /\ now - fetchedAt < TTL

\* A request after its key id was looked up among `keys`: accepted, refused, or
\* back for a forced refresh.  The keys were `late` old when they were cached: that
\* is how much longer than TTL a withdrawn one may last.
Verified(q, keys, late) ==
    IF q.call.id \in keys
    THEN [Request EXCEPT !.pc = "handle", !.call = q.call,
                         !.stale = LastPublished(q.call.id) <= q.now - TTL - late]
    ELSE IF q.force THEN Done(q, "unknown")
    ELSE [Request EXCEPT !.pc = "lock", !.call = q.call, !.now = q.now, !.force = TRUE,
                         !.steady = q.steady]

\* The cache will do, or the lock is asked for.
ArriveWithToken(r, c) ==
    LET q == [Request EXCEPT !.pc = "lock", !.call = c, !.now = clock,
                             !.steady = c.id \in published]
    IN  /\ At(r, "new") /\ c.by = "jwt"
        /\ rq' = [rq EXCEPT ![r] = IF Fresh(clock) THEN Verified(q, cache, Late) ELSE q]
        /\ UNCHANGED <<keycloak, jwks, rows>>

\* With the lock, the cache is looked at again unless the refresh is forced.
AcquireRechecking(r) ==
    LET q == rq[r]
    IN  /\ At(r, "lock") /\ lock = None
        /\ IF Fresh(q.now)
           THEN /\ rq' = [rq EXCEPT ![r] = Verified(q, cache, Late)]
                /\ lock' = None
           ELSE /\ lock' = r
                /\ Goto(r, "fetch")
        /\ UNCHANGED <<keycloak, cached, rows>>

Acquire(r) ==
    LET q == rq[r]
    IN  /\ At(r, "lock") /\ lock = None
        /\ IF ~q.force /\ Fresh(q.now)
           THEN /\ rq' = [rq EXCEPT ![r] = Verified(q, cache, Late)]
                /\ lock' = None
           ELSE /\ lock' = r
                /\ Goto(r, "fetch")
        /\ UNCHANGED <<keycloak, cached, rows>>

\* Keycloak makes its answer; the coroutine has it later, when it is resumed.
KeycloakAnswers(r) ==
    /\ At(r, "fetch")
    /\ rq' = [rq EXCEPT ![r] = [@ EXCEPT !.pc = "answered", !.answer = published,
                                         !.answeredAt = clock]]
    /\ UNCHANGED <<keycloak, jwks, rows>>

\* The time of the fetch is read when the answer is there.
Fetched(r) ==
    /\ At(r, "answered")
    /\ cache' = rq[r].answer /\ fetchedAt' = clock /\ filledFrom' = rq[r].answeredAt
    /\ lock' = None
    /\ rq' = [rq EXCEPT ![r] = Verified(@, @.answer, clock - @.answeredAt)]
    /\ UNCHANGED <<keycloak, rows>>

FetchFailsHolding(r) ==
    /\ At(r, "fetch") \/ At(r, "answered")
    /\ rq' = [rq EXCEPT ![r] = Done(@, "unreachable")]
    /\ UNCHANGED <<keycloak, jwks, rows>>

\* Keycloak cannot be reached or answers with an error, or its answer is not there
\* within the timeout of the client.
FetchFails(r) ==
    /\ At(r, "fetch") \/ At(r, "answered")
    /\ lock' = None
    /\ rq' = [rq EXCEPT ![r] = Done(@, "unreachable")]
    /\ UNCHANGED <<keycloak, cached, rows>>
-----------------------------------------------------------------------------
(* API keys: validate_key *)

\* The row is read; marking it as used asks for its lock.
ArriveWithKey(r, c) ==
    /\ At(r, "new") /\ c.by = "key"
    /\ rq' = [rq EXCEPT ![r] = IF active[c.id]
                               THEN [@ EXCEPT !.pc = "mark", !.call = c]
                               ELSE Done(@, "invalid")]
    /\ UNCHANGED <<keycloak, jwks, rows>>

\* The update of last_used_at, not committed yet.
MarkUsed(r) ==
    LET k == Call(r).id
    IN  /\ At(r, "mark") /\ rowLock[k] = None
        /\ rowLock' = [rowLock EXCEPT ![k] = r]
        /\ Goto(r, "handle")
        /\ UNCHANGED <<keycloak, jwks, active>>
-----------------------------------------------------------------------------
(* Handlers *)

\* The transaction of r ends and its rows are free.
Release(r) == rowLock' = [k \in Keys |-> IF rowLock[k] = r THEN None ELSE rowLock[k]]
End(r, result) ==
    /\ rq' = [rq EXCEPT ![r] = Done(@, result)]
    /\ Release(r)
    /\ UNCHANGED <<keycloak, jwks>>

\* Where nothing is committed, the mark of the key is lost.
Forbid(r) == /\ At(r, "handle") /\ Call(r).work = "forbidden"
             /\ End(r, "forbidden")
             /\ UNCHANGED active

Read(r) == /\ At(r, "handle") /\ Call(r).work = "read"
           /\ End(r, "ok")
           /\ UNCHANGED active

\* session.begin() on the session validate_key has used raises.
BeginWork(r) == /\ At(r, "handle") /\ Call(r).work = "begin"
                /\ End(r, IF Call(r).by = "key" THEN "failed" ELSE "ok")
                /\ UNCHANGED active

CommitWork(r) == /\ At(r, "handle") /\ Call(r).work = "commit"
                 /\ End(r, "ok")
                 /\ UNCHANGED active

\* revoke_key and rotate_key load the row and change it when it is active; the
\* flush asks for its lock.  The row of the key the call was made with may still be
\* in the session: active, as validate_key saw it.
LoadKey(r) ==
    LET key == Call(r).target
        own == Call(r).by = "key" /\ Call(r).id = key
    IN  /\ At(r, "handle") /\ Call(r).work = "revoke"
        /\ \E seen \in {active[key]} \cup (IF own THEN {TRUE} ELSE {}) :
             IF seen
             THEN Goto(r, "update") /\ UNCHANGED rowLock
             ELSE /\ rq' = [rq EXCEPT ![r] = Done(@, "invalid")]
                  /\ Release(r)
        /\ UNCHANGED <<keycloak, jwks, active>>

\* rotate_key then inserts a key that nobody else knows yet.
RevokeKey(r) ==
    /\ At(r, "update")
    /\ rowLock[Call(r).target] \in {None, r}
    /\ End(r, "ok")
    /\ active' = [active EXCEPT ![Call(r).target] = FALSE]

\* Who waits for a row that another transaction holds.
WaitsFor == [q, r \in Requests |->
               /\ q # r
               /\ \/ At(q, "mark") /\ rowLock[Call(q).id] = r
                  \/ At(q, "update") /\ rowLock[Call(q).target] = r]

\* The database ends a deadlock by failing one of the transactions in it.
Victim(r) == /\ At(r, "update")
             /\ TransitiveClosure(WaitsFor, Requests)[r, r]
             /\ End(r, "deadlock")
             /\ UNCHANGED active
-----------------------------------------------------------------------------
Authenticate(r) == \/ Acquire(r) \/ KeycloakAnswers(r) \/ Fetched(r) \/ FetchFails(r)
                   \/ MarkUsed(r)

Handle(r) == \/ Forbid(r) \/ Read(r) \/ BeginWork(r) \/ CommitWork(r)
             \/ LoadKey(r) \/ RevokeKey(r) \/ Victim(r)

Next == \/ Tick
        \/ \E k \in Kids : Publish(k) \/ Withdraw(k)
        \/ \E r \in Requests : \E c \in Calls[r] : ArriveWithToken(r, c) \/ ArriveWithKey(r, c)
        \/ \E r \in Requests : Authenticate(r) \/ Handle(r)

\* The event loop resumes what can go on, the client of Keycloak has a timeout,
\* and the database grants a free row and ends deadlocks.
Spec == /\ Init /\ [][Next]_vars
        /\ \A r \in Requests : WF_vars(Authenticate(r)) /\ WF_vars(Handle(r))
-----------------------------------------------------------------------------
(* Properties *)

\* Every request is answered: no failed fetch keeps the lock of the key cache,
\* and no order of calls with API keys leaves their rows locked.
EveryRequestAnswered == \A r \in Requests : rq[r].pc # "new" ~> At(r, "done")

\* A token whose key Keycloak has published ever since the request came is not
\* refused as unknown, however old the cache is and whoever refreshes it.
RotationIsFollowed ==
    \A r \in Requests : rq[r].result = "unknown" => ~rq[r].steady

\* A token is not accepted once its key was withdrawn longer before the request came
\* than the life of the cache and the time Keycloak's answer was on its way, although
\* a coroutine that waited for the lock judges the cache by the time it read before.
WithdrawnKeysExpire == \A r \in Requests : ~rq[r].stale

\* README.md:135: integrations with an API key "work in any environment": what a
\* valid key is allowed to do does not fail for the way it was authenticated.
KeyedRequestsAreServed == \A r \in Requests : rq[r].result # "failed"
=============================================================================
