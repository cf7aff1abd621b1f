------------------------------- MODULE Cooldowns -------------------------------
(***************************************************************************)
(* The cooldown of one (platform, model, key) triple: the second half of    *)
(* services/ratelimit.ts.  It is kept twice, in the Map cooldowns and in a  *)
(* row of rate_limit_cooldowns, with an await between the two in every      *)
(* operation.                                                               *)
(*                                                                          *)
(* An attempt asks isOnCooldown inside its routing transaction.  If it is   *)
(* free to go it may be routed, call the provider, fail, and then set a     *)
(* cooldown whose length depends on the failures of the last day.  A        *)
(* statement (its effect on the table) and the continuation of the code     *)
(* after it (its effect on the Map) are two actions: other attempts run in  *)
(* between.                                                                 *)
(***************************************************************************)
EXTENDS Integers, Sequences, FiniteSets

CONSTANTS
    Attempts,      \* passes of the retry loop that consider the triple
    Durations,     \* COOLDOWN_DURATIONS, in clock ticks
    Day,           \* the window over which failures are counted
    MaxInFlight,   \* bound: attempts under way at once
    MaxTime,       \* bound: last tick of the clock
    MaxFailures    \* bound: failing statements and restarts together

ASSUME DurationAssumption ==
    /\ Durations \in Seq(Nat \ {0}) /\ Durations # <<>>
    /\ Day \in Nat \ {0}
ASSUME BoundAssumption ==
    /\ {MaxInFlight, MaxTime, MaxFailures} \subseteq Nat
    /\ Attempts # {}

VARIABLES
    now,       \* Date.now()
    cooldowns, \* expiry in the Map, or NoRow
    row,       \* expires_at_ms of the committed row, or NoRow
    locker,    \* attempts whose open transaction has deleted the row
    hits,      \* cooldownHits of the triple: attempts, and when they failed
    pc,        \* where each attempt stands
    clock,     \* the time its isOnCooldown captured
    seen,      \* what its SELECT answered
    expiry,    \* the expiry it set, or NoRow
    overlap,   \* have two attempts ever been under way at once?
    failures

vars == <<now, cooldowns, row, locker, hits, pc, clock, seen, expiry,
          overlap, failures>>

NoRow == 0      \* no entry; an expiry is always later than that
Failed == -1    \* withDb swallowed an error

Ended == {"done", "unsaved", "lost"}
Locations == Ended \cup {"idle", "read", "resume", "delete", "free", "blocked",
                         "call", "upsert"}

TypeOK ==
    /\ {now, cooldowns, row, failures} \subseteq Nat
    /\ locker \subseteq Attempts /\ \A r, s \in locker : r = s
    /\ hits \subseteq Attempts \X Nat /\ IsFiniteSet(hits)
    /\ pc \in [Attempts -> Locations]
    /\ clock \in [Attempts -> Nat]
    /\ seen \in [Attempts -> Nat \cup {Failed}]
    /\ expiry \in [Attempts -> Nat]
    /\ overlap \in BOOLEAN

Init ==
    /\ now = 0 /\ failures = 0 /\ overlap = FALSE
    /\ cooldowns = NoRow /\ row = NoRow /\ locker = {} /\ hits = {}
    /\ pc = [r \in Attempts |-> "idle"]
    /\ clock = [r \in Attempts |-> 0]
    /\ seen = [r \in Attempts |-> NoRow]
    /\ expiry = [r \in Attempts |-> NoRow]

InFlight == {r \in Attempts : pc[r] \notin Ended \cup {"idle"}}

Move(r, from, to) == pc[r] = from /\ pc' = [pc EXCEPT ![r] = to]

Failure == failures < MaxFailures /\ failures' = failures + 1

-----------------------------------------------------------------------------
(* isOnCooldown.                                                            *)

Ask(r) ==
    /\ Cardinality(InFlight) < MaxInFlight
    /\ Move(r, "idle", "read")
    /\ clock' = [clock EXCEPT ![r] = now]
    /\ overlap' = (overlap \/ InFlight # {})
    /\ UNCHANGED <<now, cooldowns, row, locker, hits, seen, expiry, failures>>

\* persistedCooldownExpiry: a row deleted by a transaction that is still open
\* is seen by every other one.
Read(r) ==
    /\ Move(r, "read", "resume")
    /\ \/ seen' = [seen EXCEPT ![r] = row] /\ UNCHANGED failures
       \/ seen' = [seen EXCEPT ![r] = Failed] /\ Failure
    /\ UNCHANGED <<now, cooldowns, row, locker, hits, clock, expiry, overlap>>

\* The row has expired: the Map forgets it at once, the table next.
ResumeExpired(r) ==
    /\ seen[r] > NoRow /\ clock[r] > seen[r]
    /\ Move(r, "resume", "delete")
    /\ cooldowns' = NoRow
    /\ UNCHANGED <<now, row, locker, hits, clock, seen, expiry, failures, overlap>>

ResumeCooling(r) ==
    /\ seen[r] > NoRow /\ clock[r] <= seen[r]
    /\ Move(r, "resume", "blocked")
    /\ cooldowns' = seen[r]
    /\ UNCHANGED <<now, row, locker, hits, clock, seen, expiry, failures, overlap>>

\* Mutant: an entry of the Map is never too old.
ResumeInMemoryForever(r) ==
    /\ seen[r] \in {NoRow, Failed}
    /\ Move(r, "resume", IF cooldowns = NoRow THEN "free" ELSE "blocked")
    /\ UNCHANGED <<now, cooldowns, row, locker, hits, clock, seen, expiry, failures, overlap>>

\* No row, or no answer: the Map decides.
ResumeInMemory(r) ==
    /\ seen[r] \in {NoRow, Failed}
    /\ IF clock[r] > cooldowns
         THEN Move(r, "resume", "free") /\ cooldowns' = NoRow
         ELSE /\ Move(r, "resume", IF cooldowns = NoRow THEN "free" ELSE "blocked")
              /\ UNCHANGED cooldowns
    /\ UNCHANGED <<now, row, locker, hits, clock, seen, expiry, failures, overlap>>

\* Mutant: the row's lock is not waited for.
DeleteUnlocked(r) ==
    /\ Move(r, "delete", "free")
    /\ locker' = IF row = NoRow THEN locker ELSE locker \cup {r}
    /\ UNCHANGED <<now, cooldowns, row, hits, clock, seen, expiry, failures, overlap>>

\* clearPersistedCooldown, part of the routing transaction; it waits for a
\* transaction that holds the row's lock.
Delete(r) ==
    /\ Move(r, "delete", "free")
    /\ \/ /\ locker = {}
          /\ locker' = IF row = NoRow THEN {} ELSE {r}
          /\ UNCHANGED failures
       \/ Failure /\ UNCHANGED locker
    /\ UNCHANGED <<now, cooldowns, row, hits, clock, seen, expiry, overlap>>

-----------------------------------------------------------------------------
(* The end of the routing transaction, and what comes of the attempt.        *)

\* COMMIT, with this key chosen or with another one.  When a later statement has
\* failed unseen, it rolls back and says nothing: the row is there again.
Commit(r) ==
    /\ pc[r] \in {"free", "blocked"}
    /\ \E to \in (IF pc[r] = "free" THEN {"call", "done"} ELSE {"done"}) :
         pc' = [pc EXCEPT ![r] = to]
    /\ \/ row' = (IF r \in locker THEN NoRow ELSE row) /\ UNCHANGED failures
       \/ r \in locker /\ Failure /\ UNCHANGED row
    /\ locker' = locker \ {r}
    /\ UNCHANGED <<now, cooldowns, hits, clock, seen, expiry, overlap>>

\* routeRequest found no key at all and threw: the DELETE is undone, the Map
\* is not.
Rollback(r) ==
    /\ pc[r] \in {"free", "blocked"}
    /\ pc' = [pc EXCEPT ![r] = "done"]
    /\ locker' = locker \ {r}
    /\ UNCHANGED <<now, cooldowns, row, hits, clock, seen, expiry, failures, overlap>>

\* The provider answers, or fails with an error that is not retried.
Finish(r) ==
    /\ Move(r, "call", "done")
    /\ UNCHANGED <<now, cooldowns, row, locker, hits, clock, seen, expiry,
                   failures, overlap>>

RecentHits == {h \in hits : h[2] > now - Day}

\* getNextCooldownDuration with n failures in the window, this one included.
Duration(n) == Durations[IF n <= Len(Durations) THEN n ELSE Len(Durations)]

\* setCooldown(..., getNextCooldownDuration(...)) up to its await.
SetCooldown(r) ==
    /\ Move(r, "call", "upsert")
    /\ hits' = RecentHits \cup {<<r, now>>}
    /\ expiry' = [expiry EXCEPT ![r] = now + Duration(Cardinality(hits'))]
    /\ cooldowns' = expiry'[r]
    /\ UNCHANGED <<now, row, locker, clock, seen, failures, overlap>>

\* Mutant: ON CONFLICT DO NOTHING.
UpsertKeepsRow(r) ==
    /\ locker = {}
    /\ Move(r, "upsert", "done")
    /\ row' = IF row = NoRow THEN expiry[r] ELSE row
    /\ UNCHANGED <<now, cooldowns, locker, hits, clock, seen, expiry, failures, overlap>>

\* persistCooldown: whichever upsert Postgres runs last wins.
Upsert(r) ==
    /\ locker = {}
    /\ Move(r, "upsert", "done")
    /\ row' = expiry[r]
    /\ UNCHANGED <<now, cooldowns, locker, hits, clock, seen, expiry, failures, overlap>>

UpsertFails(r) ==
    /\ Move(r, "upsert", "unsaved") /\ Failure
    /\ UNCHANGED <<now, cooldowns, row, locker, hits, clock, seen, expiry, overlap>>

-----------------------------------------------------------------------------
Tick ==
    /\ now < MaxTime
    /\ now' = now + 1
    /\ UNCHANGED <<cooldowns, row, locker, hits, pc, clock, seen, expiry,
                   failures, overlap>>

\* The Map and cooldownHits start empty again; the row stays.
Restart ==
    /\ Failure
    /\ cooldowns' = NoRow /\ hits' = {} /\ locker' = {}
    /\ pc' = [r \in Attempts |-> IF r \in InFlight THEN "lost" ELSE pc[r]]
    /\ UNCHANGED <<now, row, clock, seen, expiry, overlap>>

Step(r) ==
    \/ Ask(r) \/ Read(r)
    \/ ResumeExpired(r) \/ ResumeCooling(r) \/ ResumeInMemory(r) \/ Delete(r)
    \/ Commit(r) \/ Rollback(r)
    \/ Finish(r) \/ SetCooldown(r) \/ Upsert(r) \/ UpsertFails(r)

Next == Tick \/ Restart \/ \E r \in Attempts : Step(r)

Spec == Init /\ [][Next]_vars

-----------------------------------------------------------------------------
(* What the cooldown guarantees.                                            *)

\* An attempt is turned away only because of a cooldown that some failure set
\* and that had not expired when the attempt asked: no interleaving of the two
\* copies, failed statement, rollback or restart revives an expired one.
BlockedForCause ==
    \A r \in Attempts : pc[r] = "blocked" => \E s \in Attempts : expiry[s] >= clock[r]

\* What isOnCooldown would find: the row first, the Map without one.
Effective == IF row # NoRow THEN row ELSE cooldowns

\* While attempts have come one at a time, the key stays quarantined until the
\* latest of the expiries that were set and saved: over expired rows that are
\* deleted or, rolled back, come back, over one statement that fails or one
\* restart.  After both it may be cut short: the counts are gone, and an attempt
\* that could not read the row fails again for the first time.
CooldownKept ==
    ~overlap /\ failures <= 1 /\ InFlight = {} =>
        \A r \in Attempts :
            pc[r] = "done" /\ expiry[r] >= now => Effective >= expiry[r]
=============================================================================
