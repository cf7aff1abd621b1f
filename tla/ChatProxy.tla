------------------------------- MODULE ChatProxy -------------------------------
(***************************************************************************)
(* POST /v1/chat/completions: the retry loop of routes/proxy.ts around      *)
(* routeRequest of services/router.ts.                                      *)
(*                                                                          *)
(* A request makes up to MaxRetries passes.  A pass opens a transaction,    *)
(* walks the fallback chain model by model and key by key, reserves tokens  *)
(* on the first key that may serve and commits; then it calls the provider. *)
(* An error that is worth another pass refunds the reservation, puts the    *)
(* (model, key) pair on cooldown and penalises the model.                   *)
(*                                                                          *)
(* RateLedger and Cooldowns model what the checks of a key do.  Here other  *)
(* traffic decides at any time whether a key is within its limits, and      *)
(* cooldowns expire at any time.  The keys of a platform are selected       *)
(* without an ORDER BY, so the round-robin index turns an arbitrary order   *)
(* into an arbitrary order: keys are tried in any order.                    *)
(*                                                                          *)
(* A failing database shows in two ways.  A statement of the router throws. *)
(* One of ratelimit.ts does not: withDb swallows the error, the transaction *)
(* around it is aborted, and the request goes on and is recorded in memory. *)
(***************************************************************************)
EXTENDS Catalog, Integers, Sequences, FiniteSets, Functions

CONSTANTS
    Requests, Keys,
    Preferences,   \* what may be preferred: models that are asked for or sticky, NoModel
    KeysOf,        \* the keys of the platform of each model
    BadKeys,       \* keys whose decryption fails
    Orders,        \* the orders the fallback chain, or a strategy, may give
    MaxRetries,    \* MAX_RETRIES
    PenaltyPer429, MaxPenalty,
    PoolMax,       \* DATABASE_POOL_MAX
    FaultyDb       \* do statements fail?

Pairs == {p \in Models \X Keys : p[2] \in KeysOf[p[1]]}
NoRoute == <<>>

\* However long it runs, the server has been sent finitely many requests.
ASSUME RequestAssumption == IsFiniteSet(Requests)
ASSUME CatalogAssumption ==
    /\ Preferences \subseteq Models \cup {NoModel}
    /\ KeysOf \in [Models -> SUBSET Keys]
    /\ BadKeys \subseteq Keys
    /\ Orders \subseteq Seq(Models)
    /\ \A o \in Orders : IsInjective(o)
ASSUME NumberAssumption ==
    /\ {MaxRetries, PenaltyPer429, MaxPenalty, PoolMax} \subseteq Nat \ {0}
    /\ FaultyDb \in BOOLEAN

VARIABLES
    \* of each request
    pc,
    preferred,   \* the model to try first, or NoModel
    stream,      \* does the client want a stream?
    attempt,     \* passes that reached a provider
    skipKeys,    \* pairs that failed this request
    modelsLeft,  \* models of the chain the pass has yet to try
    keysLeft,    \* keys of the first of them it has yet to try
    wants,       \* the keys (one or none) that it waits to mark
    marks,       \* keys its transaction has marked 'error'
    aborted,     \* has a statement of its transaction failed unnoticed?
    route,       \* the pair it was routed to, or NoRoute
    lastError,   \* has a provider failed it?
    sentBy,      \* passes that have sent chunks to the client
    answer,      \* how the client was answered, or "none"
    \* of the server
    penalty,     \* rateLimitPenalties
    keyStatus,   \* column status of api_keys: is it 'error'?
    ledger,      \* tokens recorded per pair in the table, in reservations
    window,      \* and in the windows in memory
    misjudged,   \* pairs of which a write ended otherwise than the handler knows
    cooling      \* pairs on cooldown

wishVars == <<preferred, stream>>
loopVars == <<attempt, skipKeys, lastError>>
walkVars == <<modelsLeft, keysLeft>>
txVars == <<wants, marks, aborted>>
requestVars == <<pc, wishVars, loopVars, walkVars, txVars, route, sentBy, answer>>
usageVars == <<ledger, window, misjudged>>
serverVars == <<penalty, keyStatus, usageVars, cooling>>
vars == <<requestVars, serverVars>>

Answers == {"none", "unauthorized", "invalid", "failed", "noRoute", "rateLimited",
            "providerError", "served", "interrupted"}
Locations == {"idle", "begin", "models", "keys", "mark", "commit", "call", "settle",
              "retry", "fail", "cooldown", "done"}

TypeOK ==
    /\ pc \in [Requests -> Locations]
    /\ preferred \in [Requests -> Models \cup {NoModel}]
    /\ stream \in [Requests -> BOOLEAN]
    /\ attempt \in [Requests -> 0..MaxRetries]
    /\ skipKeys \in [Requests -> SUBSET Pairs]
    /\ modelsLeft \in [Requests -> Seq(Models)]
    /\ keysLeft \in [Requests -> SUBSET Keys]
    /\ wants \in [Requests -> SUBSET BadKeys]
    /\ marks \in [Requests -> SUBSET BadKeys]
    /\ aborted \in [Requests -> BOOLEAN]
    /\ route \in [Requests -> Pairs \cup {NoRoute}]
    /\ lastError \in [Requests -> BOOLEAN]
    /\ sentBy \in [Requests -> SUBSET (0..MaxRetries)]
    /\ answer \in [Requests -> Answers]
    /\ penalty \in [Models -> 0..MaxPenalty]
    /\ keyStatus \in [Keys -> {"ok", "error"}]
    /\ ledger \in [Pairs -> Int]
    /\ window \in [Pairs -> Int]
    /\ misjudged \subseteq Pairs
    /\ cooling \subseteq Pairs

Init ==
    /\ pc = [r \in Requests |-> "idle"]
    /\ preferred = [r \in Requests |-> NoModel]
    /\ stream = [r \in Requests |-> FALSE]
    /\ attempt = [r \in Requests |-> 0]
    /\ skipKeys = [r \in Requests |-> {}]
    /\ modelsLeft = [r \in Requests |-> <<>>]
    /\ keysLeft = [r \in Requests |-> {}]
    /\ wants = [r \in Requests |-> {}]
    /\ marks = [r \in Requests |-> {}]
    /\ aborted = [r \in Requests |-> FALSE]
    /\ route = [r \in Requests |-> NoRoute]
    /\ lastError = [r \in Requests |-> FALSE]
    /\ sentBy = [r \in Requests |-> {}]
    /\ answer = [r \in Requests |-> "none"]
    /\ penalty = [m \in Models |-> 0]
    /\ keyStatus = [k \in Keys |-> "ok"]
    /\ ledger = [p \in Pairs |-> 0]
    /\ window = [p \in Pairs |-> 0]
    /\ misjudged = {}
    /\ cooling = {}

Set(f, r, v) == [f EXCEPT ![r] = v]

\* Mutant: a response without its return, so that the loop goes on.
RespondAndGoOn(r, a) == answer' = Set(answer, r, a) /\ pc' = Set(pc, r, "begin")

\* The client gets its answer, and the handler returns.
Respond(r, a) == answer' = Set(answer, r, a) /\ pc' = Set(pc, r, "done")

-----------------------------------------------------------------------------
(* The request arrives.                                                     *)

\* The bearer token, the schema or the model id is refused, or the model cannot be
\* looked up.
Reject(r) ==
    /\ pc[r] = "idle"
    /\ \/ \E a \in {"unauthorized", "invalid"} : Respond(r, a)
       \/ FaultyDb /\ Respond(r, "failed")
    /\ UNCHANGED <<wishVars, loopVars, walkVars, txVars, route, sentBy, serverVars>>

\* An explicit model, or a sticky one, is preferred; the loop starts.
Accept(r) ==
    /\ pc[r] = "idle"
    /\ \E m \in Preferences : preferred' = Set(preferred, r, m)
    /\ \E s \in BOOLEAN : stream' = Set(stream, r, s)
    /\ pc' = Set(pc, r, "begin")
    /\ UNCHANGED <<loopVars, walkVars, txVars, route, sentBy, answer, serverVars>>

-----------------------------------------------------------------------------
(* routeRequest, inside its transaction.                                    *)

InTransaction == {r \in Requests : pc[r] \in {"models", "keys", "mark", "commit"}}

\* Mutant: the penalised order alone decides.
PriorityWithoutPreference(r, o, i) == i + penalty[o[i]]

\* Position in the configured order plus penalty; the preferred model is moved
\* to the front.
Priority(r, o, i) ==
    IF o[i] = preferred[r] THEN 0 ELSE i + penalty[o[i]]

\* The one order of the models of o by priority; the sort is stable.
Chains(r, o) ==
    LET before(i, j) == \/ Priority(r, o, i) < Priority(r, o, j)
                        \/ Priority(r, o, i) = Priority(r, o, j) /\ i < j
        sorts == {f \in Bijection(DOMAIN o, DOMAIN o) :
                     \A i, j \in DOMAIN o : i < j => before(f[i], f[j])}
    IN  {[i \in DOMAIN o |-> o[f[i]]] : f \in sorts}

MayBegin(r) ==
    /\ pc[r] = "begin" /\ attempt[r] < MaxRetries
    /\ Cardinality(InTransaction) < PoolMax

Begin(r) ==
    /\ MayBegin(r)
    /\ \E o \in Orders : \E chain \in Chains(r, o) :
         modelsLeft' = Set(modelsLeft, r, chain)
    /\ pc' = Set(pc, r, "models")
    /\ UNCHANGED <<wishVars, loopVars, keysLeft, txVars, route, sentBy, answer, serverVars>>

\* The keys of the next model that are neither disabled nor in error.
LoadKeys(r) ==
    /\ pc[r] = "models" /\ modelsLeft[r] # <<>> /\ ~aborted[r]
    /\ keysLeft' = Set(keysLeft, r,
         {k \in KeysOf[Head(modelsLeft[r])] :
             keyStatus[k] = "ok" /\ k \notin marks[r]})
    /\ pc' = Set(pc, r, "keys")
    /\ UNCHANGED <<wishVars, loopVars, modelsLeft, txVars, route, sentBy, answer, serverVars>>

NextModel(r) ==
    /\ pc[r] = "keys" /\ keysLeft[r] = {}
    /\ modelsLeft' = Set(modelsLeft, r, Tail(modelsLeft[r]))
    /\ pc' = Set(pc, r, "models")
    /\ UNCHANGED <<wishVars, loopVars, keysLeft, txVars, route, sentBy, answer, serverVars>>

\* Not a key that has failed this request or cools down.
MayServe(r, p) == p \notin skipKeys[r] \cup cooling

\* Such a key is passed, and so is any other one that is at a limit.
PassKey(r) ==
    /\ pc[r] = "keys"
    /\ \E k \in keysLeft[r] : keysLeft' = [keysLeft EXCEPT ![r] = @ \ {k}]
    /\ UNCHANGED <<pc, wishVars, loopVars, modelsLeft, txVars, route, sentBy, answer,
                   serverVars>>

\* A statement of the checks fails, and withDb swallows the error; they go on with
\* what is in memory.  The transaction is aborted with what it has marked.
CheckFails(r) ==
    /\ FaultyDb /\ pc[r] = "keys" /\ ~aborted[r]
    /\ \E k \in keysLeft[r] : <<Head(modelsLeft[r]), k>> \notin skipKeys[r]
    /\ aborted' = Set(aborted, r, TRUE)
    /\ marks' = Set(marks, r, {})
    /\ UNCHANGED <<pc, wishVars, loopVars, walkVars, wants, route, sentBy, answer, serverVars>>

\* A key does not decrypt and is to be marked.
FindBad(r) ==
    /\ pc[r] = "keys"
    /\ \E k \in keysLeft[r] \cap BadKeys :
         /\ MayServe(r, <<Head(modelsLeft[r]), k>>)
         /\ keysLeft' = [keysLeft EXCEPT ![r] = @ \ {k}]
         /\ wants' = Set(wants, r, {k})
    /\ pc' = Set(pc, r, "mark")
    /\ UNCHANGED <<wishVars, loopVars, modelsLeft, marks, aborted, route, sentBy, answer,
                   serverVars>>

\* The UPDATE waits for the lock of a row that s has marked.
WaitsFor(r, s) == wants[r] \cap marks[s] # {}

\* Mutant: the UPDATE runs on a second connection of the pool.
MarkKeyOnPool(r) ==
    /\ pc[r] = "mark" /\ ~aborted[r] /\ Cardinality(InTransaction) < PoolMax
    /\ \A s \in Requests \ {r} : ~WaitsFor(r, s)
    /\ marks' = [marks EXCEPT ![r] = @ \cup wants[r]]
    /\ wants' = Set(wants, r, {})
    /\ pc' = Set(pc, r, "keys")
    /\ UNCHANGED <<wishVars, loopVars, walkVars, aborted, route, sentBy, answer, serverVars>>

MarkKey(r) ==
    /\ pc[r] = "mark" /\ ~aborted[r]
    /\ \A s \in Requests \ {r} : ~WaitsFor(r, s)
    /\ marks' = [marks EXCEPT ![r] = @ \cup wants[r]]
    /\ wants' = Set(wants, r, {})
    /\ pc' = Set(pc, r, "keys")
    /\ UNCHANGED <<wishVars, loopVars, walkVars, aborted, route, sentBy, answer, serverVars>>

\* The pair is chosen, and its request and tokens are inserted.  In an aborted
\* transaction, or when an INSERT or the prune after it fails, they go to memory.
TakeKey(r) ==
    /\ pc[r] = "keys"
    /\ \E k \in keysLeft[r] \ BadKeys :
         LET p == <<Head(modelsLeft[r]), k>>
         IN  /\ MayServe(r, p)
             /\ route' = Set(route, r, p)
             /\ \/ ~aborted[r] /\ UNCHANGED <<aborted, marks, window>>
                \/ /\ aborted[r] \/ FaultyDb
                   /\ aborted' = Set(aborted, r, TRUE)
                   /\ marks' = Set(marks, r, {})
                   /\ window' = [window EXCEPT ![p] = @ + 1]
    /\ keysLeft' = Set(keysLeft, r, {})
    /\ pc' = Set(pc, r, "commit")
    /\ UNCHANGED <<wishVars, loopVars, modelsLeft, wants, sentBy, answer,
                   penalty, keyStatus, ledger, misjudged, cooling>>

\* What a transaction leaves behind that is committed; an aborted one is rolled back
\* by its COMMIT, and nobody is told.
Apply(r) ==
    /\ keyStatus' = [k \in Keys |-> IF k \in marks[r] THEN "error" ELSE keyStatus[k]]
    /\ ledger' = IF aborted[r] THEN ledger ELSE [ledger EXCEPT ![route[r]] = @ + 1]

Commit(r) ==
    /\ pc[r] = "commit"
    /\ Apply(r)
    /\ marks' = Set(marks, r, {})
    /\ aborted' = Set(aborted, r, FALSE)
    /\ attempt' = [attempt EXCEPT ![r] = @ + 1]
    /\ pc' = Set(pc, r, "call")
    /\ UNCHANGED <<wishVars, skipKeys, lastError, walkVars, wants, route, sentBy, answer,
                   penalty, window, misjudged, cooling>>

\* Mutant: the connection goes back to the pool without a ROLLBACK, with its locks.
ThrowKeepsLocks(r) ==
    /\ aborted' = Set(aborted, r, FALSE)
    /\ wants' = Set(wants, r, {})
    /\ route' = Set(route, r, NoRoute)
    /\ keysLeft' = Set(keysLeft, r, {})
    /\ Respond(r, IF lastError[r] THEN "rateLimited" ELSE "noRoute")
    /\ UNCHANGED <<wishVars, loopVars, modelsLeft, marks, sentBy, penalty, window, cooling>>

\* The transaction throws, the connection is given back and the client answered.
Throw(r) ==
    /\ marks' = Set(marks, r, {})
    /\ aborted' = Set(aborted, r, FALSE)
    /\ wants' = Set(wants, r, {})
    /\ route' = Set(route, r, NoRoute)
    /\ keysLeft' = Set(keysLeft, r, {})
    /\ Respond(r, IF lastError[r] THEN "rateLimited" ELSE "noRoute")
    /\ UNCHANGED <<wishVars, loopVars, modelsLeft, sentBy, penalty, window, cooling>>

\* No key of the whole chain may serve.
NoKeyLeft(r) ==
    /\ pc[r] = "models" /\ modelsLeft[r] = <<>>
    /\ Throw(r)
    /\ UNCHANGED <<keyStatus, ledger, misjudged>>

\* The connection or a statement of the router fails, as every one does in an aborted
\* transaction.
StatementFails(r) ==
    /\ FaultyDb
    /\ MayBegin(r) \/ (pc[r] = "models" /\ modelsLeft[r] # <<>>) \/ pc[r] = "mark"
    /\ Throw(r)
    /\ UNCHANGED <<keyStatus, ledger, misjudged>>

\* Two or more transactions wait for each other's rows; Postgres fails one of them.
BreakDeadlock(r) ==
    /\ \E S \in SUBSET Requests :
         /\ r \in S
         /\ \A s \in S : (\E t \in S \ {s} : WaitsFor(s, t)) /\ \E t \in S \ {s} : WaitsFor(t, s)
    /\ Throw(r)
    /\ UNCHANGED <<keyStatus, ledger, misjudged>>

\* COMMIT throws.  What is in memory by then stays there, and if only its answer is
\* lost the transaction is committed.
CommitFails(r) ==
    /\ FaultyDb /\ pc[r] = "commit"
    /\ \/ /\ misjudged' = IF aborted[r] THEN misjudged \cup {route[r]} ELSE misjudged
          /\ UNCHANGED <<keyStatus, ledger>>
       \/ /\ Apply(r) /\ misjudged' = misjudged \cup {route[r]}
    /\ Throw(r)

Exhausted(r) ==
    /\ pc[r] = "begin" /\ attempt[r] = MaxRetries
    /\ Respond(r, "rateLimited")
    /\ UNCHANGED <<wishVars, loopVars, walkVars, txVars, route, sentBy, serverVars>>

-----------------------------------------------------------------------------
(* The provider call.                                                       *)

\* Mutant: nobody keeps track of the first chunk.
NeverStarted(r) == FALSE

Started(r) == attempt[r] \in sentBy[r]

Chunk(r) ==
    /\ pc[r] = "call" /\ stream[r]
    /\ sentBy' = [sentBy EXCEPT ![r] = @ \cup {attempt[r]}]
    /\ UNCHANGED <<pc, wishVars, loopVars, walkVars, txVars, route, answer, serverVars>>

\* The call has succeeded; the correction of the reservation comes next.  A
\* stream has been ended before it, a plain answer is sent after it.
Succeed(r) ==
    /\ pc[r] = "call"
    /\ pc' = Set(pc, r, "settle")
    /\ answer' = IF stream[r] THEN Set(answer, r, "served") ELSE answer
    /\ UNCHANGED <<wishVars, loopVars, walkVars, txVars, route, sentBy, serverVars>>

\* The correction changes how many tokens the reservation stands for, not whether it
\* stands.
Settle(r) ==
    /\ pc[r] = "settle"
    /\ penalty' = [penalty EXCEPT ![route[r][1]] = IF @ > 0 THEN @ - 1 ELSE 0]
    /\ Respond(r, "served")
    /\ UNCHANGED <<wishVars, loopVars, walkVars, txVars, route, sentBy,
                   keyStatus, usageVars, cooling>>

\* An error after the first chunk ends the stream; the reservation stays.
Interrupt(r) ==
    /\ pc[r] = "call" /\ Started(r)
    /\ Respond(r, "interrupted")
    /\ UNCHANGED <<wishVars, loopVars, walkVars, txVars, route, sentBy, serverVars>>

\* Any other error is refunded first, whether isRetryableError or not.
Fail(r) ==
    /\ pc[r] = "call" /\ ~Started(r)
    /\ \E to \in {"retry", "fail"} : pc' = Set(pc, r, to)
    /\ UNCHANGED <<wishVars, loopVars, walkVars, txVars, route, sentBy, answer, serverVars>>

\* Mutant: a failed pass is not refunded.
RefundNothing(r) == UNCHANGED usageVars

\* recordTokens, outside of any transaction: to the table, or to memory if that fails.
\* It may also fail when the row is in the table, in the prune or for want of an answer.
RefundTokens(r) ==
    LET p == route[r]
    IN  \/ /\ ledger' = [ledger EXCEPT ![p] = @ - 1]
           /\ UNCHANGED <<window, misjudged>>
        \/ /\ FaultyDb /\ window' = [window EXCEPT ![p] = @ - 1]
           /\ \/ UNCHANGED <<ledger, misjudged>>
              \/ /\ ledger' = [ledger EXCEPT ![p] = @ - 1]
                 /\ misjudged' = misjudged \cup {p}

\* A retryable error: the refund, and what follows it up to the next await.
Retry(r) ==
    /\ pc[r] = "retry"
    /\ RefundTokens(r)
    /\ skipKeys' = [skipKeys EXCEPT ![r] = @ \cup {route[r]}]
    /\ cooling' = cooling \cup {route[r]}
    /\ pc' = Set(pc, r, "cooldown")
    /\ UNCHANGED <<wishVars, attempt, lastError, walkVars, txVars, route, sentBy, answer,
                   penalty, keyStatus>>

\* Any other error is the client's.
Refuse(r) ==
    /\ pc[r] = "fail"
    /\ RefundTokens(r)
    /\ Respond(r, "providerError")
    /\ UNCHANGED <<wishVars, loopVars, walkVars, txVars, route, sentBy,
                   penalty, keyStatus, cooling>>

\* Mutant: penalties without a bound.
RaisedWithoutBound(n) == n + PenaltyPer429

Raised(n) == IF n + PenaltyPer429 < MaxPenalty THEN n + PenaltyPer429 ELSE MaxPenalty

\* The cooldown is stored; the model is penalised and the next pass begins.
Penalise(r) ==
    /\ pc[r] = "cooldown"
    /\ penalty' = [penalty EXCEPT ![route[r][1]] = Raised(@)]
    /\ route' = Set(route, r, NoRoute)
    /\ lastError' = Set(lastError, r, TRUE)
    /\ pc' = Set(pc, r, "begin")
    /\ UNCHANGED <<wishVars, attempt, skipKeys, walkVars, txVars, sentBy, answer,
                   keyStatus, usageVars, cooling>>

-----------------------------------------------------------------------------
(* Time and other traffic.                                                  *)

\* A cooldown expires, a penalty decays.
Environment ==
    /\ \/ \E p \in cooling : cooling' = cooling \ {p} /\ UNCHANGED penalty
       \/ \E m \in Models : /\ penalty[m] > 0
                            /\ penalty' = [penalty EXCEPT ![m] = @ - 1]
                            /\ UNCHANGED cooling
    /\ UNCHANGED <<requestVars, keyStatus, usageVars>>

Step(r) ==
    \/ Reject(r) \/ Accept(r)
    \/ Begin(r) \/ LoadKeys(r) \/ NextModel(r) \/ PassKey(r) \/ CheckFails(r)
    \/ FindBad(r) \/ MarkKey(r) \/ TakeKey(r) \/ Commit(r)
    \/ NoKeyLeft(r) \/ StatementFails(r) \/ BreakDeadlock(r) \/ CommitFails(r)
    \/ Exhausted(r)
    \/ Succeed(r) \/ Settle(r) \/ Interrupt(r) \/ Fail(r)
    \/ Retry(r) \/ Refuse(r) \/ Penalise(r)

Next == Environment \/ \E r \in Requests : Step(r) \/ Chunk(r)

Spec == Init /\ [][Next]_vars

\* Statements and provider calls end, Postgres breaks deadlocks, and the pool serves its
\* waiters in turn.
FairSpec == Spec /\ \A r \in Requests : WF_vars(Step(r))

-----------------------------------------------------------------------------
(* What a request is owed.                                                  *)

\* The handler answers a request once: no path goes on to a second response
\* after res.json, res.end or a rejection.
AnsweredOnce ==
    [][\A r \in Requests : answer[r] # "none" => answer'[r] = answer[r]]_vars

\* The chunks of a stream come from one provider call: once the first is
\* written, an error ends the response and the loop makes no other pass.
SingleSource == \A r \in Requests : Cardinality(sentBy[r]) <= 1

\* The preferred model loses a request to another one only when this pass has
\* found each of its keys passed over, whatever its penalty and the strategy.
PreferredServes ==
    \A r \in Requests :
        pc[r] \in {"commit", "call"} /\ preferred[r] \in Range(modelsLeft[r])
            => route[r][1] = preferred[r]

Consumes(r) ==
    \/ pc[r] = "commit" /\ aborted[r]
    \/ pc[r] \in {"call", "settle", "retry", "fail"}
    \/ answer[r] \in {"served", "interrupted"}

\* Over all passes of all requests, what table and memory together hold of a pair is
\* the reservations of the calls under way and of the calls that served a client: every
\* failed pass is refunded exactly once, also when the database fails and the COMMIT
\* of a reservation is silently a rollback.  The table alone, which is what the limits
\* are checked against, may then even be below zero.  A pair is excepted for good when
\* a write of it ended otherwise than the handler knows.
LedgerBalanced ==
    \A p \in Pairs \ misjudged :
        ledger[p] + window[p] = Cardinality({r \in Requests : Consumes(r) /\ route[r] = p})

\* Every request is answered: a pass ends, passes are bounded, and a
\* transaction that throws gives its connection back.
EventuallyAnswered == \A r \in Requests : <>(pc[r] = "done" /\ answer[r] # "none")
=============================================================================
