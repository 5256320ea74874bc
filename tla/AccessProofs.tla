----------------------------- MODULE AccessProofs -----------------------------
(***************************************************************************)
(* The key cache for any number of requests, key ids and any life of the   *)
(* cache: a rotation is followed and a withdrawn key expires.              *)
(***************************************************************************)
EXTENDS Access, TLAPS

\* Where a request is, how it may end, and what is kept of it.
Steps == {"new", "lock", "fetch", "answered", "mark", "handle", "update", "done"}
Results == {"pending", "ok", "forbidden", "unknown", "unreachable", "invalid",
            "failed", "deadlock"}
RequestType == [pc : Steps, call : CallType \cup {None}, now : Nat, force : BOOLEAN,
                result : Results, answer : SUBSET Kids, answeredAt : Nat,
                steady : BOOLEAN, stale : BOOLEAN]

\* The times and the keys of the cache, the withdrawals and the requests.
CacheType == /\ clock \in Nat
             /\ fetchedAt \in Nat /\ fetchedAt <= clock
             /\ filledFrom \in Nat /\ filledFrom <= fetchedAt
             /\ published \subseteq Kids
             /\ cache \subseteq Kids
             /\ gone \in [Kids -> Nat]
             /\ \A k \in Kids : gone[k] <= clock
             /\ rq \in [Requests -> RequestType]

\* No key in the cache was withdrawn before the answer it was filled from was made.
CacheIsYoung == \A k \in cache : LastPublished(k) >= filledFrom

\* The answer a request waits for was made after the request came: no key in it was
\* withdrawn before, and it holds the key id of a steady request.
AnswerIsTrue(q) ==
    /\ q.now <= q.answeredAt /\ q.answeredAt <= clock
    /\ \A k \in q.answer : LastPublished(k) >= q.answeredAt
    /\ q.steady => q.call.id \in q.answer

\* A request came in the past, was not accepted with a key that had expired, and
\* if it is marked steady, its key id is published until it is answered.
RequestIsTrue(q) ==
    /\ q.now <= clock
    /\ q.pc = "answered" => AnswerIsTrue(q)
    /\ ~q.stale
    /\ q.steady => /\ q.pc \notin {"new", "done"}
                   /\ q.call.id \in published
    /\ q.result = "unknown" => q.pc = "done"

\* The inductive invariant.
CacheInv == /\ CacheType
            /\ CacheIsYoung
            /\ \A r \in Requests : RequestIsTrue(rq[r])

\* An answer satisfies the invariant, whatever becomes of the clock and the keys.
LEMMA AnsweredIsTrue ==
    ASSUME CacheType, NEW q \in RequestType, ~q.stale, NEW result \in Results,
           result = "unknown" => ~q.steady
    PROVE  Done(q, result) \in RequestType /\ RequestIsTrue(Done(q, result))
<1>1. (q.steady /\ result = "unknown") = FALSE
  OBVIOUS
<1>2. q.stale = FALSE
  BY DEF RequestType, Steps, Results
<1>3. Done(q, result) = [Request EXCEPT !.pc = "done", !.result = result,
                                        !.steady = FALSE, !.stale = FALSE]
  BY <1>1, <1>2, Zenon DEF Done
<1>4. Done(q, result) = [pc |-> "done", call |-> None, now |-> 0, force |-> FALSE,
                         result |-> result, answer |-> {}, answeredAt |-> 0,
                         steady |-> FALSE, stale |-> FALSE]
  BY <1>3 DEF Request
<1>5. Done(q, result) \in RequestType
  BY <1>4 DEF RequestType, Steps, Results
<1>6. RequestIsTrue(Done(q, result))
  BY <1>4 DEF RequestIsTrue, CacheType
<1> QED  BY <1>5, <1>6

\* Looking a key id up among keys that are not older than the life of the cache and
\* their lateness keeps the invariant; the answer to a forced refresh has the key id
\* of a steady request.
LEMMA VerifiedIsTrue ==
    ASSUME CacheType, NEW q \in RequestType, NEW keys \in SUBSET Kids, NEW late \in Nat,
           q.now <= clock, ~q.stale, q.result # "unknown",
           q.steady => q.call.id \in published,
           q.force /\ q.steady => q.call.id \in keys,
           \A k \in keys : LastPublished(k) > q.now - TTL - late
    PROVE  /\ Verified(q, keys, late) \in RequestType
           /\ RequestIsTrue(Verified(q, keys, late))
<1>1. CASE q.call.id \in keys
  <2>1. LastPublished(q.call.id) \in Nat
    BY <1>1 DEF LastPublished, CacheType
  <2>2. (LastPublished(q.call.id) <= q.now - TTL - late) = FALSE
    BY <1>1, <2>1, TimeAssumption DEF RequestType, Steps, Results
  <2>3. Verified(q, keys, late)
          = [Request EXCEPT !.pc = "handle", !.call = q.call, !.stale = FALSE]
    BY <1>1, <2>2 DEF Verified
  <2>4. Verified(q, keys, late)
          = [pc |-> "handle", call |-> q.call, now |-> 0, force |-> FALSE,
             result |-> "pending", answer |-> {}, answeredAt |-> 0, steady |-> FALSE,
             stale |-> FALSE]
    BY <2>3 DEF Request
  <2> QED  BY <2>4 DEF RequestType, Steps, Results, RequestIsTrue, CacheType
<1>2. CASE q.call.id \notin keys /\ q.force
  <2>1. ~q.steady
    BY <1>2
  <2>2. Verified(q, keys, late) = Done(q, "unknown")
    BY <1>2 DEF Verified
  <2> QED  BY <2>1, <2>2, AnsweredIsTrue DEF Results
<1>3. CASE q.call.id \notin keys /\ ~q.force
  <2>1. Verified(q, keys, late)
          = [Request EXCEPT !.pc = "lock", !.call = q.call, !.now = q.now, !.force = TRUE,
                            !.steady = q.steady]
    BY <1>3 DEF Verified
  <2>2. Verified(q, keys, late)
          = [pc |-> "lock", call |-> q.call, now |-> q.now, force |-> TRUE,
             result |-> "pending", answer |-> {}, answeredAt |-> 0, steady |-> q.steady,
             stale |-> FALSE]
    BY <2>1 DEF Request
  <2> QED  BY <2>2 DEF RequestType, Steps, Results, RequestIsTrue
<1> QED  BY <1>1, <1>2, <1>3

\* At the start nothing is cached and nobody has come.
LEMMA CacheInvHolds == Init => CacheInv
<1> SUFFICES ASSUME Init PROVE CacheInv
  OBVIOUS
<1>1. /\ Request \in RequestType /\ Request.now = 0 /\ Request.steady = FALSE
      /\ Request.stale = FALSE /\ Request.result = "pending" /\ Request.pc = "new"
  BY DEF Request, RequestType, Steps, Results
<1>2. CacheType
  BY <1>1, KidsAssumption DEF Init, CacheType
<1>3. \A r \in Requests : rq[r] = Request
  BY DEF Init
<1>4. \A r \in Requests : RequestIsTrue(rq[r])
  BY <1>1, <1>3 DEF RequestIsTrue, Init
<1> QED  BY <1>2, <1>4 DEF CacheInv, CacheIsYoung, Init

\* A step that lets one request go on, in a way that satisfies the invariant.
LEMMA OneRequestMoves ==
    ASSUME CacheInv, NEW r \in Requests, NEW q \in RequestType, RequestIsTrue(q),
           rq' = [rq EXCEPT ![r] = q], UNCHANGED <<keycloak, cached>>
    PROVE  CacheInv'
<1>1. CacheType' /\ CacheIsYoung'
  BY DEF CacheInv, CacheType, CacheIsYoung, LastPublished, keycloak, cached
<1>2. ASSUME NEW s \in Requests PROVE RequestIsTrue(rq[s])'
  <2>1. CASE s = r
    BY <2>1 DEF CacheInv, CacheType, RequestIsTrue, AnswerIsTrue, LastPublished, keycloak
  <2>2. CASE s # r
    BY <2>2 DEF CacheInv, CacheType, RequestIsTrue, AnswerIsTrue, LastPublished, keycloak
  <2> QED  BY <2>1, <2>2
<1> QED  BY <1>1, <1>2 DEF CacheInv

\* What the invariant says of a request that is looking a key id up.
LEMMA WaitingRequest ==
    ASSUME CacheInv, NEW r \in Requests, rq[r].pc \notin {"new", "done"}
    PROVE  /\ rq[r] \in RequestType /\ rq[r].now <= clock /\ ~rq[r].stale
           /\ rq[r].result # "unknown"
           /\ rq[r].steady => rq[r].call.id \in published
BY DEF CacheInv, CacheType, RequestIsTrue

\* Time only makes published keys younger.
LEMMA TickKeeps == ASSUME CacheInv, Tick PROVE CacheInv'
<1>1. CacheType' /\ CacheIsYoung'
  BY DEF CacheInv, CacheType, CacheIsYoung, LastPublished, Tick, jwks, cached
<1>2. \A r \in Requests : RequestIsTrue(rq[r])'
  BY DEF CacheInv, CacheType, RequestIsTrue, AnswerIsTrue, LastPublished, RequestType, Tick
<1> QED  BY <1>1, <1>2 DEF CacheInv

\* A key id that is published now was never withdrawn.
LEMMA PublishKeeps == ASSUME CacheInv, NEW k \in Kids, Publish(k) PROVE CacheInv'
<1>1. CacheType' /\ CacheIsYoung'
  BY DEF CacheInv, CacheType, CacheIsYoung, LastPublished, Publish, jwks, cached
<1>2. \A r \in Requests : RequestIsTrue(rq[r])'
  BY DEF CacheInv, CacheType, RequestIsTrue, AnswerIsTrue, LastPublished, RequestType, Publish
<1> QED  BY <1>1, <1>2 DEF CacheInv

\* A request keeps its steady mark only when the key withdrawn is not its own.
LEMMA WithdrawKeeps == ASSUME CacheInv, NEW k \in Kids, Withdraw(k) PROVE CacheInv'
<1>1. ASSUME NEW r \in Requests
      PROVE  rq'[r] \in RequestType /\ RequestIsTrue(rq[r])'
  <2> DEFINE kept == At(r, "new") \/ At(r, "done") \/ Call(r).id # k
  <2>1. CASE kept
    <3>1. rq'[r] = rq[r]
      BY <2>1 DEF Withdraw, At, Call
    <3> QED  BY <2>1, <3>1 DEF CacheInv, CacheType, RequestIsTrue, AnswerIsTrue, LastPublished,
                               RequestType, Withdraw, At, Call
  <2>2. CASE ~kept
    <3>1. rq'[r] = [rq[r] EXCEPT !.steady = FALSE]
      BY <2>2 DEF Withdraw, At, Call
    <3>2. /\ rq[r] \in RequestType /\ RequestIsTrue(rq[r])
          /\ rq[r].answer \subseteq Kids
      BY DEF CacheInv, CacheType, RequestType
    <3>3. /\ rq'[r].pc = rq[r].pc /\ rq'[r].now = rq[r].now /\ rq'[r].result = rq[r].result
          /\ rq'[r].answer = rq[r].answer /\ rq'[r].answeredAt = rq[r].answeredAt
          /\ rq'[r].stale = rq[r].stale /\ rq'[r].steady = FALSE
      BY <3>1, <3>2 DEF RequestType
    <3>4. rq'[r] \in RequestType
      BY <3>1, <3>2 DEF RequestType
    <3>5. \A j \in rq[r].answer :
             LastPublished(j) >= rq[r].answeredAt => LastPublished(j)' >= rq[r].answeredAt
      BY <3>2 DEF CacheInv, CacheType, LastPublished, Withdraw
    <3> QED  BY <3>2, <3>3, <3>4, <3>5 DEF RequestIsTrue, AnswerIsTrue, Withdraw
  <2> QED  BY <2>1, <2>2
<1>2. rq' \in [Requests -> RequestType]
  <2>1. rq' = [r \in Requests |-> rq'[r]]
    BY DEF Withdraw
  <2> QED  BY <1>1, <2>1
<1>3. CacheType' /\ CacheIsYoung'
  BY <1>2 DEF CacheInv, CacheType, CacheIsYoung, LastPublished, Withdraw, jwks, cached
<1> QED  BY <1>1, <1>3 DEF CacheInv

\* The keys of a cache that is fresh by the clock of a request are not older than
\* its life and its lateness.
LEMMA FreshIsYoung ==
    ASSUME CacheInv, NEW now \in Nat, Fresh(now)
    PROVE  Late \in Nat /\ \A k \in cache : LastPublished(k) > now - TTL - Late
<1>1. Late \in Nat
  BY DEF Late, CacheInv, CacheType
<1>2. ASSUME NEW k \in cache PROVE LastPublished(k) > now - TTL - Late
  <2>1. LastPublished(k) \in Nat /\ LastPublished(k) >= filledFrom
    BY DEF CacheInv, CacheType, CacheIsYoung, LastPublished
  <2> QED  BY <2>1, TimeAssumption DEF Fresh, CacheInv, CacheType, Late
<1> QED  BY <1>1, <1>2

\* A request with a token starts with the time it came.
LEMMA ArriveWithTokenKeeps ==
    ASSUME CacheInv, NEW r \in Requests, NEW c \in Calls[r], ArriveWithToken(r, c)
    PROVE  CacheInv'
<1> DEFINE q == [Request EXCEPT !.pc = "lock", !.call = c, !.now = clock,
                                !.steady = c.id \in published]
<1>1. c \in CallType
  BY CallsAssumption
<1>2. q \in RequestType /\ RequestIsTrue(q) /\ q.now = clock /\ q.force = FALSE /\ q.result = "pending"
  <2>1. CASE c.id \in published
    <3>1. q = [Request EXCEPT !.pc = "lock", !.call = c, !.now = clock, !.steady = TRUE]
      BY <2>1, Zenon
    <3> HIDE DEF q
    <3>2. q = [pc |-> "lock", call |-> c, now |-> clock, force |-> FALSE, result |-> "pending",
               answer |-> {}, answeredAt |-> 0, steady |-> TRUE, stale |-> FALSE]
      BY <3>1 DEF Request
    <3> QED  BY <1>1, <2>1, <3>2 DEF CacheInv, CacheType, RequestType, Steps, Results, RequestIsTrue
  <2>2. CASE c.id \notin published
    <3>0. (c.id \in published) = FALSE
      BY <2>2
    <3>1. q = [Request EXCEPT !.pc = "lock", !.call = c, !.now = clock, !.steady = FALSE]
      BY <3>0, Zenon
    <3> HIDE DEF q
    <3>2. q = [pc |-> "lock", call |-> c, now |-> clock, force |-> FALSE, result |-> "pending",
               answer |-> {}, answeredAt |-> 0, steady |-> FALSE, stale |-> FALSE]
      BY <3>1 DEF Request
    <3> QED  BY <1>1, <3>2 DEF CacheInv, CacheType, RequestType, Steps, Results, RequestIsTrue
  <2> QED  BY <2>1, <2>2
<1>4. CASE Fresh(clock)
  <2>1. Verified(q, cache, Late) \in RequestType /\ RequestIsTrue(Verified(q, cache, Late))
    <3> HIDE DEF q
    <3>1. Late \in Nat /\ \A k \in cache : LastPublished(k) > q.now - TTL - Late
      BY <1>2, <1>4, FreshIsYoung DEF CacheInv, CacheType
    <3> QED  BY <1>2, <3>1, VerifiedIsTrue DEF CacheInv, CacheType, RequestIsTrue
  <2>2. rq' = [rq EXCEPT ![r] = Verified(q, cache, Late)]
    BY <1>4 DEF ArriveWithToken
  <2> QED  BY <2>1, <2>2, OneRequestMoves DEF ArriveWithToken, jwks, cached
<1>5. CASE ~Fresh(clock)
  <2>1. rq' = [rq EXCEPT ![r] = q]
    BY <1>5 DEF ArriveWithToken
  <2> QED  BY <1>2, <2>1, OneRequestMoves DEF ArriveWithToken, jwks, cached
<1> QED  BY <1>4, <1>5

\* A request that goes on to another step, short of an answer, with nothing learnt.
LEMMA GoneOnIsTrue ==
    ASSUME CacheInv, NEW r \in Requests, NEW pc \in Steps, rq[r].pc \notin {"new", "done"},
           pc \notin {"new", "done", "answered"}, Goto(r, pc), UNCHANGED <<keycloak, cached>>
    PROVE  CacheInv'
<1> DEFINE q == [rq[r] EXCEPT !.pc = pc]
<1>1. q \in RequestType /\ RequestIsTrue(q)
  BY DEF CacheInv, CacheType, RequestType, RequestIsTrue
<1>2. rq' = [rq EXCEPT ![r] = q]
  BY DEF Goto
<1> HIDE DEF q
<1> QED  BY <1>1, <1>2, OneRequestMoves

\* A request that is answered, but not for a key id it does not know.
LEMMA AnswerKeeps ==
    ASSUME CacheInv, NEW r \in Requests, NEW result \in Results \ {"unknown"},
           rq' = [rq EXCEPT ![r] = Done(@, result)], UNCHANGED <<keycloak, cached>>
    PROVE  CacheInv'
<1>1. rq[r] \in RequestType /\ ~rq[r].stale
  BY DEF CacheInv, CacheType, RequestIsTrue
<1>2. Done(rq[r], result) \in RequestType /\ RequestIsTrue(Done(rq[r], result))
  BY <1>1, AnsweredIsTrue DEF CacheInv
<1> QED  BY <1>2, OneRequestMoves

\* The lookup under the lock, in a cache that is fresh.
LEMMA AcquireKeeps == ASSUME CacheInv, NEW r \in Requests, Acquire(r) PROVE CacheInv'
<1>1. /\ rq[r] \in RequestType /\ rq[r].now <= clock /\ ~rq[r].stale
      /\ rq[r].result # "unknown"
      /\ rq[r].steady => rq[r].call.id \in published
  BY WaitingRequest DEF Acquire, At
<1>2. CASE ~rq[r].force /\ Fresh(rq[r].now)
  <2>1. Verified(rq[r], cache, Late) \in RequestType /\ RequestIsTrue(Verified(rq[r], cache, Late))
    <3>1. Late \in Nat /\ \A k \in cache : LastPublished(k) > rq[r].now - TTL - Late
      BY <1>1, <1>2, FreshIsYoung DEF RequestType
    <3>2. cache \in SUBSET Kids /\ CacheType
      BY DEF CacheInv, CacheType
    <3> QED  BY <1>1, <1>2, <3>1, <3>2, VerifiedIsTrue
  <2> QED  BY <1>2, <2>1, OneRequestMoves DEF Acquire
<1>3. CASE ~(~rq[r].force /\ Fresh(rq[r].now))
  BY <1>3, GoneOnIsTrue, Zenon DEF Acquire, At, Steps
<1> QED  BY <1>2, <1>3

\* Keycloak's answer is what it publishes at that moment.
LEMMA KeycloakAnswersKeeps ==
    ASSUME CacheInv, NEW r \in Requests, KeycloakAnswers(r) PROVE CacheInv'
<1> DEFINE q == [rq[r] EXCEPT !.pc = "answered", !.answer = published, !.answeredAt = clock]
<1>1. /\ rq[r] \in RequestType /\ rq[r].now <= clock /\ ~rq[r].stale
      /\ rq[r].result # "unknown"
      /\ rq[r].steady => rq[r].call.id \in published
  BY WaitingRequest DEF KeycloakAnswers, At
<1>2. q \in RequestType
  BY <1>1 DEF RequestType, Steps, CacheInv, CacheType
<1>3. AnswerIsTrue(q)
  <2>1. q.now = rq[r].now /\ q.answeredAt = clock /\ q.answer = published
    BY <1>1 DEF RequestType
  <2>2. q.steady = rq[r].steady /\ q.call = rq[r].call
    BY <1>1 DEF RequestType
  <2>3. \A k \in published : LastPublished(k) = clock
    BY DEF LastPublished
  <2> QED  BY <1>1, <2>1, <2>2, <2>3 DEF AnswerIsTrue, CacheInv, CacheType
<1>4. RequestIsTrue(q)
  <2>1. /\ q.now = rq[r].now /\ q.stale = rq[r].stale /\ q.pc = "answered"
        /\ q.steady = rq[r].steady /\ q.call = rq[r].call /\ q.result = rq[r].result
    BY <1>1 DEF RequestType
  <2> HIDE DEF q
  <2> QED  BY <1>1, <1>3, <2>1 DEF RequestIsTrue
<1>5. rq' = [rq EXCEPT ![r] = q]
  BY DEF KeycloakAnswers
<1> HIDE DEF q
<1> QED  BY <1>2, <1>4, <1>5, OneRequestMoves DEF KeycloakAnswers, jwks, cached

\* A fetch fills the cache with the answer, and looks the key id up there.
LEMMA FetchedKeeps == ASSUME CacheInv, NEW r \in Requests, Fetched(r) PROVE CacheInv'
<1> DEFINE late == clock - rq[r].answeredAt
           q == Verified(rq[r], rq[r].answer, late)
<1>1. /\ rq[r] \in RequestType /\ rq[r].now <= clock /\ ~rq[r].stale
      /\ rq[r].result # "unknown"
      /\ rq[r].steady => rq[r].call.id \in published
      /\ rq[r].answer \in SUBSET Kids /\ rq[r].answeredAt \in Nat /\ rq[r].now \in Nat
  BY WaitingRequest DEF Fetched, At, RequestType
<1>2. AnswerIsTrue(rq[r])
  BY DEF Fetched, At, CacheInv, RequestIsTrue
<1>3. late \in Nat
  BY <1>1, <1>2 DEF AnswerIsTrue, CacheInv, CacheType
<1>4. \A k \in rq[r].answer : LastPublished(k) > rq[r].now - TTL - late
  <2> SUFFICES ASSUME NEW k \in rq[r].answer PROVE LastPublished(k) > rq[r].now - TTL - late
    OBVIOUS
  <2>1. LastPublished(k) \in Nat
    BY <1>1 DEF LastPublished, CacheInv, CacheType
  <2> QED  BY <1>1, <1>2, <1>3, <2>1, TimeAssumption DEF AnswerIsTrue, CacheInv, CacheType
<1>5. q \in RequestType /\ RequestIsTrue(q)
  <2>1. rq[r].steady => rq[r].call.id \in rq[r].answer
    BY <1>2 DEF AnswerIsTrue
  <2> HIDE DEF late
  <2> QED  BY <1>1, <1>3, <1>4, <2>1, VerifiedIsTrue DEF CacheInv
<1>6. rq' = [rq EXCEPT ![r] = q]
  BY DEF Fetched
<1>7. CacheIsYoung'
  BY <1>1, <1>2 DEF Fetched, keycloak, AnswerIsTrue, CacheIsYoung, LastPublished
<1> HIDE DEF q
<1>8. CacheType'
  BY <1>1, <1>2, <1>5, <1>6 DEF Fetched, keycloak, AnswerIsTrue, CacheInv, CacheType
<1>9. ASSUME NEW s \in Requests PROVE RequestIsTrue(rq[s])'
  <2>1. RequestIsTrue(rq'[s])
    BY <1>5, <1>6 DEF CacheInv, CacheType
  <2> QED  BY <2>1 DEF Fetched, keycloak, RequestIsTrue, AnswerIsTrue, LastPublished
<1> QED  BY <1>7, <1>8, <1>9 DEF CacheInv

\* An API key that is accepted is marked next; its request has no key id to follow.
LEMMA ArriveWithKeyKeeps ==
    ASSUME CacheInv, NEW r \in Requests, NEW c \in Calls[r], ArriveWithKey(r, c)
    PROVE  CacheInv'
<1>1. CASE active[c.id]
  <2> DEFINE q == [rq[r] EXCEPT !.pc = "mark", !.call = c]
  <2>1. c \in CallType
    BY CallsAssumption
  <2>2. rq[r] \in RequestType /\ RequestIsTrue(rq[r]) /\ rq[r].pc = "new"
    BY DEF CacheInv, CacheType, ArriveWithKey, At
  <2>3. q \in RequestType /\ RequestIsTrue(q)
    BY <2>1, <2>2 DEF RequestType, Steps, RequestIsTrue
  <2>4. rq' = [rq EXCEPT ![r] = q]
    BY <1>1 DEF ArriveWithKey
  <2> HIDE DEF q
  <2> QED  BY <2>3, <2>4, OneRequestMoves DEF ArriveWithKey, jwks, cached
<1>2. CASE ~active[c.id]
  BY <1>2, AnswerKeeps DEF ArriveWithKey, jwks, cached, Results
<1> QED  BY <1>1, <1>2

\* Every step of an authentication keeps the invariant.
LEMMA AuthenticateKeeps == ASSUME CacheInv, NEW r \in Requests, Authenticate(r) PROVE CacheInv'
<1>1. CASE FetchFails(r)
  BY <1>1, AnswerKeeps DEF FetchFails, Results
<1>2. CASE MarkUsed(r)
  BY <1>2, GoneOnIsTrue DEF MarkUsed, At, Steps, jwks, cached
<1> QED  BY <1>1, <1>2, AcquireKeeps, KeycloakAnswersKeeps, FetchedKeeps
     DEF Authenticate

\* A handler never comes back to the key cache.
LEMMA HandleKeeps == ASSUME CacheInv, NEW r \in Requests, Handle(r) PROVE CacheInv'
<1>1. ASSUME NEW result \in Results \ {"unknown"}, End(r, result) PROVE CacheInv'
  BY <1>1, AnswerKeeps DEF End, jwks, cached
<1>2. CASE Forbid(r) \/ Read(r) \/ CommitWork(r) \/ RevokeKey(r)
  BY <1>1, <1>2 DEF Forbid, Read, CommitWork, RevokeKey, Results
<1>3. CASE Victim(r)
  BY <1>1, <1>3, Zenon DEF Victim, Results
<1>4. CASE BeginWork(r)
  BY <1>1, <1>4 DEF BeginWork, Results
<1>5. CASE LoadKey(r)
  <2>1. CASE Goto(r, "update")
    BY <1>5, <2>1, GoneOnIsTrue DEF LoadKey, At, Steps, jwks, cached
  <2>2. CASE rq' = [rq EXCEPT ![r] = Done(@, "invalid")]
    BY <1>5, <2>2, AnswerKeeps DEF LoadKey, jwks, cached, Results
  <2> QED  BY <1>5, <2>1, <2>2 DEF LoadKey
<1> QED  BY <1>2, <1>3, <1>4, <1>5, Zenon DEF Handle

\* The invariant of the key cache holds in every reachable state.
LEMMA CacheInvariant == Spec => []CacheInv
<1>1. CacheInv /\ [Next]_vars => CacheInv'
  <2> SUFFICES ASSUME CacheInv, [Next]_vars PROVE CacheInv'
    OBVIOUS
  <2>1. CASE UNCHANGED vars
    BY <2>1 DEF vars, keycloak, jwks, cached, CacheInv, CacheType, CacheIsYoung, LastPublished,
          RequestIsTrue, AnswerIsTrue
  <2>2. CASE \E k \in Kids : Publish(k) \/ Withdraw(k)
    BY <2>2, PublishKeeps, WithdrawKeeps
  <2>3. CASE \E r \in Requests : \E c \in Calls[r] : ArriveWithToken(r, c) \/ ArriveWithKey(r, c)
    BY <2>3, ArriveWithTokenKeeps, ArriveWithKeyKeeps
  <2>4. CASE \E r \in Requests : Authenticate(r) \/ Handle(r)
    BY <2>4, AuthenticateKeeps, HandleKeeps
  <2> QED  BY <2>1, <2>2, <2>3, <2>4, TickKeeps DEF Next
<1> QED  BY <1>1, CacheInvHolds, PTL DEF Spec

\* However many requests share the cache, a token whose key id Keycloak has
\* published since the request came is never refused as unknown (decode_token's
\* forced refresh, _get_keys).
THEOREM RotationFollowed == Spec => []RotationIsFollowed
<1>1. CacheInv => RotationIsFollowed
  BY DEF CacheInv, RequestIsTrue, RotationIsFollowed
<1> QED  BY <1>1, CacheInvariant, PTL

\* However long a coroutine waits for the lock, and however late Keycloak's answer is
\* cached, a token is never accepted with a key withdrawn longer before its request
\* came than the life of the cache and that lateness (_get_keys, _JWKS_TTL).
THEOREM WithdrawnKeysDoExpire == Spec => []WithdrawnKeysExpire
<1>1. CacheInv => WithdrawnKeysExpire
  BY DEF CacheInv, RequestIsTrue, WithdrawnKeysExpire
<1> QED  BY <1>1, CacheInvariant, PTL
=============================================================================
