------------------------------- MODULE KeyHealth -------------------------------
(***************************************************************************)
(* The keys of the providers: the health checker of services/health.ts, the *)
(* admin's operations of routes/keys.ts and routes/health.ts, and what the   *)
(* router of services/router.ts sees of their outcome, all on api_keys.      *)
(*                                                                          *)
(* A check reads the key, asks the provider, writes its verdict and counts   *)
(* refusals; each of these is a step, and other checks and the admin run     *)
(* between any two.  A round checks the keys that were enabled when it       *)
(* began, one after another; the timer starts the next one whether or not    *)
(* the last is over, and an admin may check all keys or a single one.        *)
(***************************************************************************)
EXTENDS Integers, FiniteSets

CONSTANTS
    Keys,         \* ids of keys; a serial, so that none is used twice
    Platforms,
    PlatformOf,   \* the platform of each key
    Served,       \* platforms that have a provider
    Masters,      \* values ENCRYPTION_KEY may be given
    Rounds,       \* calls of checkAllKeys that may be under way at once
    Singles,      \* and of POST /check/:keyId
    NoKey,
    Threshold,    \* CONSECUTIVE_FAILURES_TO_DISABLE
    MaxEdits,     \* bound: changes the admin makes to keys
    MaxFaults,    \* bound: failing statements
    MaxRestarts   \* bound: restarts of the process

ASSUME KeyAssumption ==
    /\ PlatformOf \in [Keys -> Platforms]
    /\ Served \subseteq Platforms
    /\ Masters # {}
    /\ NoKey \notin Keys
    /\ Rounds \cap Singles = {}
    /\ IsFiniteSet(Rounds \cup Singles)
ASSUME NumberAssumption ==
    /\ Threshold \in Nat \ {0}
    /\ {MaxEdits, MaxFaults, MaxRestarts} \subseteq Nat

Checks == Rounds \cup Singles

VARIABLES
    \* table api_keys
    issued,     \* ids that have been given out
    stored,     \* keys that have a row
    enabled,    \* column enabled
    status,     \* column status
    sealedBy,   \* the encryption key it was stored with
    \* of each check
    pc,
    todo,       \* keys of its round it has yet to check
    key,        \* the key it is checking, or NoKey
    verdict,    \* what the provider answered
    \* of the process
    failureCount,
    master,     \* the encryption key it runs with
    \* of the world
    dead,       \* keys the provider refuses for good
    edits, faults, restarts,
    \* history
    refusals,   \* refusals of each key since the process started
    streak,     \* those of them since the last acceptance
    muddled     \* keys of which two checks overlapped, or a statement failed

rowVars == <<issued, stored, enabled, status, sealedBy>>
checkVars == <<pc, todo, key, verdict>>
boundVars == <<edits, faults, restarts>>
historyVars == <<refusals, streak, muddled>>
procVars == <<failureCount, master>>
vars == <<rowVars, checkVars, procVars, dead, boundVars, historyVars>>

Statuses == {"unknown", "healthy", "invalid", "error"}
Verdicts == {"none", "accepted", "refused"}

TypeOK ==
    /\ issued \subseteq Keys /\ stored \subseteq issued /\ enabled \subseteq stored
    /\ status \in [Keys -> Statuses]
    /\ sealedBy \in [Keys -> Masters] /\ master \in Masters
    /\ pc \in [Checks -> {"idle", "next", "probe", "record", "count", "disable", "error"}]
    /\ todo \in [Checks -> SUBSET Keys]
    /\ key \in [Checks -> Keys \cup {NoKey}]
    /\ verdict \in [Checks -> Verdicts]
    /\ failureCount \in [Keys -> 0..Threshold]
    /\ dead \subseteq Keys
    /\ edits \in 0..MaxEdits /\ faults \in 0..MaxFaults /\ restarts \in 0..MaxRestarts
    /\ refusals \in [Keys -> 0..Threshold]
    /\ streak \in [Keys -> 0..Threshold]
    /\ muddled \subseteq Keys
    /\ \A c \in Checks : (key[c] = NoKey) = (pc[c] \in {"idle", "next"})

Init ==
    /\ issued = {} /\ stored = {} /\ enabled = {}
    /\ status = [k \in Keys |-> "unknown"]
    /\ master = CHOOSE m \in Masters : TRUE   \* names do not matter
    /\ sealedBy = [k \in Keys |-> master]
    /\ pc = [c \in Checks |-> "idle"]
    /\ todo = [c \in Checks |-> {}]
    /\ key = [c \in Checks |-> NoKey]
    /\ verdict = [c \in Checks |-> "none"]
    /\ failureCount = [k \in Keys |-> 0]
    /\ dead = {}
    /\ edits = 0 /\ faults = 0 /\ restarts = 0
    /\ refusals = [k \in Keys |-> 0]
    /\ streak = [k \in Keys |-> 0]
    /\ muddled = {}

-----------------------------------------------------------------------------
Decrypts(k) == sealedBy[k] = master

\* Counters are compared with Threshold only and stop there.
Up(n) == IF n < Threshold THEN n + 1 ELSE n

\* Mutant: the check of the last key is not over.
ProceedAnyway(c) ==
    /\ pc' = [pc EXCEPT ![c] = "next"]
    /\ UNCHANGED <<todo, key, verdict>>

\* Check c goes on to the next key of its round, or is over.
Proceed(c) ==
    /\ pc' = [pc EXCEPT ![c] = IF todo[c] = {} THEN "idle" ELSE "next"]
    /\ key' = [key EXCEPT ![c] = NoKey]
    /\ verdict' = [verdict EXCEPT ![c] = "none"]
    /\ UNCHANGED todo

\* checkAllKeys: by the timer, at start-up, or POST /check-all.
StartRound(c) ==
    /\ pc[c] = "idle" /\ enabled # {}
    /\ todo' = [todo EXCEPT ![c] = enabled]
    /\ pc' = [pc EXCEPT ![c] = "next"]
    /\ UNCHANGED <<rowVars, key, verdict, procVars, dead, boundVars, historyVars>>

\* POST /check/:keyId, for any id.
StartSingle(c) ==
    /\ pc[c] = "idle"
    /\ \E k \in Keys : todo' = [todo EXCEPT ![c] = {k}]
    /\ pc' = [pc EXCEPT ![c] = "next"]
    /\ UNCHANGED <<rowVars, key, verdict, procVars, dead, boundVars, historyVars>>

\* Mutant: a key that does not decrypt is passed over.
AskProviderOnly(c, k) ==
    IF ~Decrypts(k)
      THEN /\ pc' = [pc EXCEPT ![c] = IF todo[c] = {k} THEN "idle" ELSE "next"]
           /\ UNCHANGED <<key, muddled>>
      ELSE /\ pc' = [pc EXCEPT ![c] = "probe"]
           /\ key' = [key EXCEPT ![c] = k]
           /\ UNCHANGED muddled

\* The key is there: it is decrypted, and the provider asked.
AskProvider(c, k) ==
    /\ pc' = [pc EXCEPT ![c] = IF ~Decrypts(k) THEN "error" ELSE "probe"]
    /\ key' = [key EXCEPT ![c] = k]
    /\ muddled' = IF \E d \in Checks : key[d] = k THEN muddled \cup {k} ELSE muddled

\* The SELECT of the next key.  The round took it from a list: it may be gone.
Look(c) ==
    /\ pc[c] = "next"
    /\ \E k \in todo[c] :
         /\ todo' = [todo EXCEPT ![c] = @ \ {k}]
         /\ IF k \in stored /\ PlatformOf[k] \in Served
              THEN AskProvider(c, k)
              ELSE /\ pc' = [pc EXCEPT ![c] = IF todo[c] = {k} THEN "idle" ELSE "next"]
                   /\ UNCHANGED <<key, muddled>>
    /\ UNCHANGED <<rowVars, verdict, procVars, dead, boundVars, refusals, streak>>

\* The provider answers with 401 or 403 (Cloudflare: or that the token is not
\* active).
Refuse(c) ==
    /\ pc[c] = "probe"
    /\ pc' = [pc EXCEPT ![c] = "record"]
    /\ verdict' = [verdict EXCEPT ![c] = "refused"]
    /\ refusals' = [refusals EXCEPT ![key[c]] = Up(@)]
    /\ streak' = [streak EXCEPT ![key[c]] = Up(@)]
    /\ UNCHANGED <<rowVars, todo, key, procVars, dead, boundVars, muddled>>

\* It answers anything else, a server error included.
Accept(c) ==
    /\ pc[c] = "probe" /\ key[c] \notin dead
    /\ pc' = [pc EXCEPT ![c] = "record"]
    /\ verdict' = [verdict EXCEPT ![c] = "accepted"]
    /\ streak' = [streak EXCEPT ![key[c]] = 0]
    /\ UNCHANGED <<rowVars, todo, key, procVars, dead, boundVars, refusals, muddled>>

\* It cannot be reached, or does not answer in time.
Unreachable(c) ==
    /\ pc[c] = "probe" /\ key[c] \notin dead
    /\ pc' = [pc EXCEPT ![c] = "error"]
    /\ UNCHANGED <<rowVars, todo, key, verdict, procVars, dead, boundVars, historyVars>>

\* An UPDATE of a key that has no row any more changes nothing.
WriteStatus(k, s) ==
    status' = IF k \in stored THEN [status EXCEPT ![k] = s] ELSE status

\* The UPDATE of status with the verdict.
Record(c) ==
    /\ pc[c] = "record"
    /\ pc' = [pc EXCEPT ![c] = "count"]
    /\ WriteStatus(key[c], IF verdict[c] = "accepted" THEN "healthy" ELSE "invalid")
    /\ UNCHANGED <<issued, stored, enabled, sealedBy, todo, key, verdict, procVars, dead,
                   boundVars, historyVars>>

\* What follows the UPDATE: an acceptance clears the count,
CountAccepted(c) ==
    /\ failureCount' = [failureCount EXCEPT ![key[c]] = 0]
    /\ Proceed(c)

\* a refusal adds to it, and at the threshold the key is to be disabled.
CountRefused(c) ==
    LET count == Up(failureCount[key[c]])
    IN  /\ failureCount' = [failureCount EXCEPT ![key[c]] = count]
        /\ IF count >= Threshold
             THEN pc' = [pc EXCEPT ![c] = "disable"] /\ UNCHANGED <<todo, key, verdict>>
             ELSE Proceed(c)

Count(c) ==
    /\ pc[c] = "count"
    /\ IF verdict[c] = "accepted" THEN CountAccepted(c) ELSE CountRefused(c)
    /\ UNCHANGED <<rowVars, master, dead, boundVars, historyVars>>

\* The UPDATE that disables the key, whatever has become of it meanwhile.
Disable(c) ==
    /\ pc[c] = "disable"
    /\ enabled' = enabled \ {key[c]}
    /\ Proceed(c)
    /\ UNCHANGED <<issued, stored, status, sealedBy, procVars, dead, boundVars, historyVars>>

\* Mutant: what cannot be checked counts as refused.
RecordErrorCounted(c) ==
    /\ pc[c] = "error"
    /\ WriteStatus(key[c], "error")
    /\ CountRefused(c)
    /\ UNCHANGED <<issued, stored, enabled, sealedBy, master, dead, boundVars, historyVars>>

\* The catch: the key could not be checked, and the count stays as it is.
RecordError(c) ==
    /\ pc[c] = "error"
    /\ WriteStatus(key[c], "error")
    /\ Proceed(c)
    /\ UNCHANGED <<issued, stored, enabled, sealedBy, procVars, dead, boundVars, historyVars>>

\* A statement of the check fails: within the try the catch takes over; outside
\* of it, or in the catch, the whole round is over.
StatementFails(c) ==
    /\ faults < MaxFaults
    /\ pc[c] \in {"next", "record", "disable", "error"}
    /\ faults' = faults + 1
    /\ muddled' = IF key[c] = NoKey THEN muddled ELSE muddled \cup {key[c]}
    /\ IF pc[c] \in {"record", "disable"}
         THEN pc' = [pc EXCEPT ![c] = "error"] /\ UNCHANGED <<todo, key>>
         ELSE /\ pc' = [pc EXCEPT ![c] = "idle"]
              /\ todo' = [todo EXCEPT ![c] = {}]
              /\ key' = [key EXCEPT ![c] = NoKey]
    /\ verdict' = [verdict EXCEPT ![c] = "none"]
    /\ UNCHANGED <<rowVars, procVars, dead, edits, restarts, refusals, streak>>

-----------------------------------------------------------------------------
\* The admin's requests; each is one statement.
Edit ==
    /\ edits < MaxEdits /\ edits' = edits + 1
    /\ UNCHANGED <<sealedBy, checkVars, procVars, dead, faults, restarts, historyVars>>

Add(k) ==
    /\ k \notin issued
    /\ issued' = issued \cup {k} /\ stored' = stored \cup {k}
    /\ enabled' = enabled \cup {k}
    /\ sealedBy' = [sealedBy EXCEPT ![k] = master]
    /\ UNCHANGED <<status, checkVars, procVars, dead, boundVars, historyVars>>

Delete(k) ==
    /\ Edit /\ k \in stored
    /\ stored' = stored \ {k} /\ enabled' = enabled \ {k}
    /\ UNCHANGED <<issued, status>>

Toggle(k) ==
    /\ Edit /\ k \in stored
    /\ enabled' \in {enabled \cup {k}, enabled \ {k}}
    /\ UNCHANGED <<issued, stored, status>>

TogglePlatform(p) ==
    LET ours == {k \in stored : PlatformOf[k] = p}
    IN  /\ Edit /\ ours # {}
        /\ enabled' \in {enabled \cup ours, enabled \ ours}
        /\ UNCHANGED <<issued, stored, status>>

\* Keys the router takes.
Usable(k) == k \in enabled /\ status[k] \in {"healthy", "unknown"}

\* It met one that does not decrypt, and its transaction was committed.
MarkKey(k) ==
    /\ Usable(k) /\ ~Decrypts(k)
    /\ status' = [status EXCEPT ![k] = "error"]
    /\ UNCHANGED <<issued, stored, enabled, sealedBy, checkVars, procVars, dead,
                   boundVars, historyVars>>

\* The provider will not take the key any more.
Die(k) ==
    /\ k \notin dead
    /\ dead' = dead \cup {k}
    /\ UNCHANGED <<rowVars, checkVars, procVars, boundVars, historyVars>>

\* The counts are only in memory, and the environment may name another
\* encryption key.
Restart ==
    /\ restarts < MaxRestarts /\ restarts' = restarts + 1
    /\ pc' = [c \in Checks |-> "idle"]
    /\ todo' = [c \in Checks |-> {}]
    /\ key' = [c \in Checks |-> NoKey]
    /\ verdict' = [c \in Checks |-> "none"]
    /\ failureCount' = [k \in Keys |-> 0]
    /\ master' \in Masters
    /\ refusals' = [k \in Keys |-> 0]
    /\ muddled' = {}
    /\ UNCHANGED <<rowVars, dead, edits, faults, streak>>

Step(c) ==
    \/ Look(c) \/ Refuse(c) \/ Accept(c) \/ Unreachable(c)
    \/ Record(c) \/ Count(c) \/ Disable(c) \/ RecordError(c) \/ StatementFails(c)

Next ==
    \/ \E c \in Rounds : StartRound(c)
    \/ \E c \in Singles : StartSingle(c)
    \/ \E c \in Checks : Step(c)
    \/ \E k \in Keys : Add(k) \/ Delete(k) \/ Toggle(k) \/ MarkKey(k) \/ Die(k)
    \/ \E p \in Platforms : TogglePlatform(p)
    \/ Restart

Spec == Init /\ [][Next]_vars

\* Statements and probes end, within a timeout, and the timer fires.
FairSpec ==
    /\ Spec
    /\ \A c \in Checks : WF_vars(Step(c))
    /\ \A c \in Rounds : WF_vars(StartRound(c))

-----------------------------------------------------------------------------
\* The step that disables a key which is not disabled already.
Disables(k) == \E c \in Checks : pc[c] = "disable" /\ key[c] = k /\ k \in enabled \ enabled'
                                   /\ edits' = edits

\* The checker disables a key only when its provider has refused it as often as
\* Threshold says since the process started, however many rounds overlap and
\* whatever of them fails: an outage or a lost statement never does.  When no two
\* checks of the key overlapped and no statement failed, the refusals came
\* without an acceptance between them.
DisabledForCause ==
    [][\A k \in Keys : Disables(k) =>
          /\ refusals[k] >= Threshold
          /\ k \notin muddled => streak[k] >= Threshold]_vars

\* "Health checks mark keys so the router skips dead ones": in the end a key that
\* is dead or does not decrypt is never used again, though checks that began when
\* it lived write their verdicts late and admins enable it again.
UnusableRetired ==
    \A k \in Keys : PlatformOf[k] \in Served =>
        (k \in dead ~> []~Usable(k)) /\ ([]<>(Usable(k)) => []<>Decrypts(k))
=============================================================================
