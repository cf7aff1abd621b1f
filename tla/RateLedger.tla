------------------------------ MODULE RateLedger ------------------------------
(***************************************************************************)
(* The rate-limit ledger of one (platform, model, key) triple:              *)
(* services/ratelimit.ts as routes/proxy.ts drives it.                      *)
(*                                                                          *)
(* An attempt is one pass of the proxy's retry loop that considers this     *)
(* triple.  Inside a database transaction it reads the windowed counters    *)
(* (canMakeRequest, canUseTokens), then inserts a request row and a token   *)
(* reservation and commits; after the provider has answered it inserts a    *)
(* second token row, the correction or the refund, outside of any           *)
(* transaction.  Every SQL statement is one action: the server is single    *)
(* threaded and attempts interleave exactly at their awaits.  Postgres runs *)
(* a plain BEGIN at READ COMMITTED, so a statement sees what had been       *)
(* committed when it ran, and none of the rows of other open transactions.  *)
(***************************************************************************)
EXTENDS Integers, FiniteSets, FiniteSetsExt

CONSTANTS
    Attempts,           \* passes of the retry loop that consider the triple
    PoolMax,            \* DATABASE_POOL_MAX, the connections of the pool
    Rpm, Rpd, Tpm, Tpd, \* the limits of the model's row, or NoLimit
    NoLimit,            \* a NULL limit
    Minute, Day,        \* the two window lengths, in clock ticks
    Estimates,          \* values estimatedTotal may take
    Charges,            \* totals a successful provider call may end up at
    MaxTime,            \* bound: last tick of the clock
    MaxFaults           \* bound: statements that fail, and restarts of the process

ASSUME LimitAssumption ==
    /\ NoLimit \notin Int
    /\ {Rpm, Rpd, Tpm, Tpd} \subseteq Nat \cup {NoLimit}
ASSUME SizeAssumption ==
    /\ PoolMax \in Nat \ {0}
    /\ Minute \in Nat \ {0}
    /\ Day \in Nat \ {0}
    /\ MaxTime \in Nat /\ MaxFaults \in Nat
    /\ IsFiniteSet(Attempts)
ASSUME TokenAssumption == Estimates \subseteq Nat /\ Charges \subseteq Nat

VARIABLES
    now,          \* Date.now()
    usage,        \* committed rows of rate_limit_usage
    windows,      \* the in-memory windows of the degraded mode
    lastPruneMs,  \* when old rows were last pruned
    pc,           \* the statement each attempt has sent, or where it waits
    clock,        \* the time its pending call captured before its await
    est,          \* estimatedTotal of the attempt
    charge,       \* tokens the attempt comes to in the end
    pending,      \* rows its open transaction has inserted
    doomed,       \* rows its open transaction has deleted
    pruning,      \* attempts whose insert is done and whose prune is running
    aborted,      \* attempts whose transaction a failed statement aborted
    faults, crashes

vars == <<now, usage, windows, lastPruneMs, pc, clock, est, charge, pending,
          doomed, pruning, aborted, faults, crashes>>

-----------------------------------------------------------------------------
Checks == {"rpm", "rpd", "tpm", "tpd"}
Recordings == {"insertRequest", "insertTokens", "settle"}
Locations == Checks \cup Recordings
             \cup {"idle", "denied", "commit", "call", "done"}
Kinds == {"request", "reserve", "settle"}

\* A row of rate_limit_usage.  The column kind is 'request' or 'tokens'; the
\* token rows of an attempt are told apart by the call that wrote them, and
\* the owner stands for the serial id.
Rows == [owner : Attempts, kind : Kinds, tokens : Int, at : Nat]

TypeOK ==
    /\ now \in Nat /\ lastPruneMs \in Int
    /\ faults \in Nat /\ crashes \in Nat
    /\ usage \subseteq Rows
    /\ windows \in [Checks -> SUBSET Rows]
    /\ pc \in [Attempts -> Locations]
    /\ clock \in [Attempts -> Nat]
    /\ est \in [Attempts -> Nat]
    /\ charge \in [Attempts -> Nat]
    /\ pending \in [Attempts -> SUBSET Rows]
    /\ doomed \in [Attempts -> SUBSET Rows]
    /\ pruning \subseteq {r \in Attempts : pc[r] \in Recordings}
    /\ aborted \subseteq Attempts

Init ==
    /\ now = 0 /\ faults = 0 /\ crashes = 0
    /\ usage = {}
    /\ windows = [c \in Checks |-> {}]
    /\ lastPruneMs = -Day          \* 0 in the code, long before any request
    /\ pc = [r \in Attempts |-> "idle"]
    /\ clock = [r \in Attempts |-> 0]
    /\ est = [r \in Attempts |-> 0]
    /\ charge = [r \in Attempts |-> 0]
    /\ pending = [r \in Attempts |-> {}]
    /\ doomed = [r \in Attempts |-> {}]
    /\ pruning = {}
    /\ aborted = {}

-----------------------------------------------------------------------------
(* Windows and limits.                                                      *)

Limit(c) == CASE c = "rpm" -> Rpm [] c = "rpd" -> Rpd
              [] c = "tpm" -> Tpm [] c = "tpd" -> Tpd

WindowMs(c) == IF c \in {"rpm", "tpm"} THEN Minute ELSE Day

Recent(rows, length, t) == {x \in rows : x.at > t - length}

Requests(rows) == {x \in rows : x.kind = "request"}
Tokens(rows) == {x \in rows : x.kind # "request"}

\* Signed: a refund is a negative row.
TokenSum(rows) == MapThenSumSet(LAMBDA x : x.tokens, rows)

\* What the check c of attempt r finds used in a set of rows.
Used(c, r, rows) ==
    LET recent == Recent(rows, WindowMs(c), clock[r])
    IN  IF c \in {"rpm", "rpd"} THEN Cardinality(Requests(recent))
                                ELSE TokenSum(Tokens(recent))

\* Mutant: a limit that is just reached still admits one.
AdmitsAtLimit(c, r, used) ==
    IF c \in {"rpm", "rpd"} THEN used <= Limit(c)
                            ELSE used + est[r] <= Limit(c)

Admits(c, r, used) ==
    IF c \in {"rpm", "rpd"} THEN used < Limit(c)
                            ELSE used + est[r] <= Limit(c)

\* Attempts that hold a connection of the pool for their transaction.
InTransaction(r) ==
    pc[r] \in Checks \cup {"denied", "insertRequest", "insertTokens", "commit"}
Open == {r \in Attempts : InTransaction(r)}
FreeClient == Cardinality(Open) < PoolMax

Following(c) ==
    CASE c = "rpm" -> "rpd" [] c = "rpd" -> "tpm"
      [] c = "tpm" -> "tpd" [] c = "tpd" -> "insertRequest"
      [] c = "insertRequest" -> "insertTokens"
      [] c = "insertTokens" -> "commit" [] c = "settle" -> "done"

\* The rows the running recordRequest or recordTokens call writes.
RowOf(r) ==
    [owner  |-> r,
     kind   |-> CASE pc[r] = "insertRequest" -> "request"
                  [] pc[r] = "insertTokens"  -> "reserve"
                  [] OTHER                   -> "settle",
     tokens |-> CASE pc[r] = "insertRequest" -> 0
                  [] pc[r] = "insertTokens"  -> est[r]
                  [] OTHER                   -> charge[r] - est[r],
     at     |-> clock[r]]

PruneDue(r) == clock[r] - lastPruneMs > Minute

\* The call of r returns and r goes on to location l.  canMakeRequest keeps
\* one time for its two counts, and canUseTokens for its two sums; every
\* other call takes the time anew.
GoTo(r, l) ==
    /\ pc' = [pc EXCEPT ![r] = l]
    /\ clock' = [clock EXCEPT ![r] = IF l \in {"rpd", "tpd"} THEN @ ELSE now]

-----------------------------------------------------------------------------
(* Checks.                                                                  *)

\* pool.connect() and BEGIN, up to the first check of this triple.
Begin(r) ==
    /\ pc[r] = "idle" /\ FreeClient
    /\ \E e \in Estimates : est' = [est EXCEPT ![r] = e]
    /\ GoTo(r, "rpm")
    /\ UNCHANGED <<now, usage, windows, lastPruneMs, charge, pending, doomed,
                   pruning, aborted, faults, crashes>>

\* A NULL limit is not looked up.
SkipCheck(r) ==
    /\ pc[r] \in Checks /\ Limit(pc[r]) = NoLimit
    /\ GoTo(r, Following(pc[r]))
    /\ UNCHANGED <<now, usage, windows, lastPruneMs, est, charge, pending,
                   doomed, pruning, aborted, faults, crashes>>

Verdict(r, used) ==
    GoTo(r, IF Admits(pc[r], r, used) THEN Following(pc[r]) ELSE "denied")

\* The SELECT of a check answers.
Check(r) ==
    /\ pc[r] \in Checks /\ Limit(pc[r]) # NoLimit /\ r \notin aborted
    /\ Verdict(r, Used(pc[r], r, usage))
    /\ UNCHANGED <<now, usage, windows, lastPruneMs, est, charge, pending,
                   doomed, pruning, aborted, faults, crashes>>

MayGoWrong == faults + crashes < MaxFaults

\* Mutant: a failed statement leaves its transaction alive, as after a savepoint.
StatementFailsAlone(r) ==
    MayGoWrong /\ faults' = faults + 1 /\ UNCHANGED aborted

\* A statement of r fails: one more fault, unless its transaction has been
\* aborted already, when Postgres refuses every further statement.
StatementFails(r) ==
    IF r \in aborted THEN UNCHANGED <<aborted, faults>>
    ELSE /\ MayGoWrong
         /\ faults' = faults + 1
         /\ aborted' = IF InTransaction(r) THEN aborted \cup {r} ELSE aborted

\* The SELECT fails, withDb answers undefined and the check turns to the
\* in-memory window, pruned as it is read.
CheckInMemory(r) ==
    /\ pc[r] \in Checks /\ Limit(pc[r]) # NoLimit
    /\ StatementFails(r)
    /\ Verdict(r, Used(pc[r], r, windows[pc[r]]))
    /\ windows' = [windows EXCEPT
                     ![pc[r]] = Recent(@, WindowMs(pc[r]), clock[r])]
    /\ UNCHANGED <<now, usage, lastPruneMs, est, charge, pending, doomed,
                   pruning, crashes>>

\* Routing goes on with other keys, and its transaction ends without a row
\* for this one.
Leave(r) ==
    /\ pc[r] = "denied"
    /\ GoTo(r, "done")
    /\ aborted' = aborted \ {r}
    /\ UNCHANGED <<now, usage, windows, lastPruneMs, est, charge, pending,
                   doomed, pruning, faults, crashes>>

-----------------------------------------------------------------------------
(* recordUsage: an INSERT and, when the last one is long ago, a prune.       *)

\* Inside a transaction on its client; a settlement takes one from the pool.
CanRun(r) == InTransaction(r) \/ FreeClient

Insert(r) ==
    /\ pc[r] \in Recordings /\ r \notin pruning
    /\ r \notin aborted /\ CanRun(r)
    /\ IF InTransaction(r)
         THEN /\ pending' = [pending EXCEPT ![r] = @ \cup {RowOf(r)}]
              /\ UNCHANGED usage
         ELSE /\ usage' = usage \cup {RowOf(r)}
              /\ UNCHANGED pending
    /\ IF PruneDue(r)
         THEN pruning' = pruning \cup {r} /\ UNCHANGED <<pc, clock>>
         ELSE GoTo(r, Following(pc[r])) /\ UNCHANGED pruning
    /\ UNCHANGED <<now, windows, lastPruneMs, est, charge, doomed, aborted,
                   faults, crashes>>

\* Mutant: rows are kept for a minute only.
ExpiredMinute(rows, t) == {x \in rows : x.at <= t - Minute}

Expired(rows, t) == {x \in rows : x.at <= t - Day}

\* The DELETE waits for an open transaction that has deleted the same rows.
Prune(r) ==
    /\ r \in pruning /\ CanRun(r)
    /\ \A s \in Attempts \ {r} : doomed[s] \cap Expired(usage, clock[r]) = {}
    /\ lastPruneMs' = clock[r]
    /\ IF InTransaction(r)
         THEN /\ doomed' = [doomed EXCEPT ![r] = @ \cup Expired(usage, clock[r])]
              /\ UNCHANGED usage
         ELSE /\ usage' = usage \ Expired(usage, clock[r])
              /\ UNCHANGED doomed
    /\ pruning' = pruning \ {r}
    /\ GoTo(r, Following(pc[r]))
    /\ UNCHANGED <<now, windows, est, charge, pending, aborted, faults, crashes>>

\* The INSERT or the prune fails: the row goes to the in-memory windows, even
\* where the INSERT itself has been kept.
RecordInMemory(r) ==
    /\ pc[r] \in Recordings
    /\ StatementFails(r)
    /\ windows' = [c \in Checks |->
         IF (c \in {"rpm", "rpd"}) = (pc[r] = "insertRequest")
           THEN windows[c] \cup {RowOf(r)} ELSE windows[c]]
    /\ pruning' = pruning \ {r}
    /\ GoTo(r, Following(pc[r]))
    /\ UNCHANGED <<now, usage, lastPruneMs, est, charge, pending, doomed, crashes>>

-----------------------------------------------------------------------------
(* COMMIT, the provider's answer and the settlement.                        *)

EndTransaction(r) ==
    /\ pending' = [pending EXCEPT ![r] = {}]
    /\ doomed' = [doomed EXCEPT ![r] = {}]
    /\ aborted' = aborted \ {r}

\* COMMIT of an aborted transaction rolls back, and reports no error.
Commit(r) ==
    /\ pc[r] = "commit"
    /\ usage' = IF r \in aborted THEN usage
                ELSE (usage \ doomed[r]) \cup pending[r]
    /\ EndTransaction(r)
    /\ charge' = [charge EXCEPT ![r] = est[r]]
    /\ GoTo(r, "call")
    /\ UNCHANGED <<now, windows, lastPruneMs, est, pruning, faults, crashes>>

\* The connection is lost at COMMIT, before or after the server has applied
\* it: transaction() throws and the proxy answers 503 without a call.
CommitFails(r) ==
    /\ pc[r] = "commit" /\ MayGoWrong
    /\ faults' = faults + 1
    /\ usage' \in {usage, IF r \in aborted THEN usage
                          ELSE (usage \ doomed[r]) \cup pending[r]}
    /\ EndTransaction(r)
    /\ GoTo(r, "done")
    /\ UNCHANGED <<now, windows, lastPruneMs, est, charge, pruning, crashes>>

\* The provider has answered, and the attempt comes to n tokens; nothing is
\* recorded when that is what was reserved.
Answered(r, n, l) ==
    /\ pc[r] = "call"
    /\ charge' = [charge EXCEPT ![r] = n]
    /\ GoTo(r, l)
    /\ UNCHANGED <<now, usage, windows, lastPruneMs, est, pending, doomed,
                   pruning, aborted, faults, crashes>>

\* Mutant: the provider's total is taken for the correction.
SucceedWithDifference(r) == \E n \in Charges :
    Answered(r, n - est[r], IF n = est[r] THEN "done" ELSE "settle")

Succeed(r) == \E n \in Charges :
    Answered(r, n, IF n = est[r] THEN "done" ELSE "settle")

\* Mutant: a failed call is not refunded.
FailUnrefunded(r) == Answered(r, 0, "done")

\* An error before the first chunk refunds the whole reservation.
Fail(r) == Answered(r, 0, "settle")

\* An error in mid-stream ends the request and leaves the reservation.
CutOff(r) == Answered(r, est[r], "done")

-----------------------------------------------------------------------------
(* Time and restarts.                                                       *)

Tick ==
    /\ now < MaxTime
    /\ now' = now + 1
    /\ UNCHANGED <<usage, windows, lastPruneMs, pc, clock, est, charge, pending,
                   doomed, pruning, aborted, faults, crashes>>

\* The process dies: open transactions roll back, attempts under way and the
\* in-memory state are gone, committed rows stay.
Restart ==
    /\ MayGoWrong
    /\ crashes' = crashes + 1
    /\ windows' = [c \in Checks |-> {}]
    /\ lastPruneMs' = -Day
    /\ pc' = [r \in Attempts |-> IF pc[r] = "idle" THEN "idle" ELSE "done"]
    /\ pending' = [r \in Attempts |-> {}]
    /\ doomed' = [r \in Attempts |-> {}]
    /\ pruning' = {}
    /\ aborted' = {}
    /\ UNCHANGED <<now, usage, clock, est, charge, faults>>

Step(r) ==
    \/ Begin(r) \/ SkipCheck(r) \/ Check(r) \/ CheckInMemory(r) \/ Leave(r)
    \/ Insert(r) \/ Prune(r) \/ RecordInMemory(r)
    \/ Commit(r) \/ CommitFails(r)
    \/ Succeed(r) \/ Fail(r) \/ CutOff(r)

Next == Tick \/ Restart \/ \E r \in Attempts : Step(r)

Spec == Init /\ [][Next]_vars
-----------------------------------------------------------------------------
(* What the ledger guarantees.                                              *)

RequestsInWindow(length) == Cardinality(Requests(Recent(usage, length, now)))

RequestsWithin(limit, length, slack) ==
    limit # NoLimit => RequestsInWindow(length) <= limit + slack

\* Reading the counters and inserting the reservation is not atomic under READ
\* COMMITTED, but at most PoolMax transactions are between the two at once: the
\* committed requests of a window exceed the limit by less than the size of the
\* pool, however many attempts arrive and whatever statements fail.
RequestOvershootBounded ==
    /\ RequestsWithin(Rpm, Minute, PoolMax - 1)
    /\ RequestsWithin(Rpd, Day, PoolMax - 1)

Net(r) == TokenSum({x \in Tokens(usage) : x.owner = r})

\* Reservation and correction together charge a finished attempt exactly what
\* it came to, nothing when it failed, as long as the reservation is kept:
\* the prune never takes the refund and leaves the reservation.  (A correction
\* whose INSERT fails, or whose process ends, is lost.)
SettledExactly ==
    faults = 0 /\ crashes = 0 =>
        \A r \in Attempts :
            /\ pc[r] = "done"
            /\ \E x \in usage : x.owner = r /\ x.kind = "reserve"
            => Net(r) = charge[r]

\* A request that counts against rpm and rpd also counts against tpm and tpd:
\* no failing statement, failing COMMIT or restart keeps the request row of an
\* attempt without its token reservation.
ReservationAtomic ==
    \A x \in Requests(usage) :
        \E y \in usage : y.owner = x.owner /\ y.kind = "reserve"

\* The throttled cleanup, whichever attempt's transaction carries it and
\* however late it commits, never deletes a row the day window still counts.
PruneOnlyExpired == [][\A x \in usage \ usage' : x.at <= now - Day]_vars

=============================================================================
