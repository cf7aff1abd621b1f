---------------------------- MODULE KeyHealthProofs ----------------------------
(* Proofs about KeyHealth: a key is disabled for refusals of its provider,   *)
(* whatever overlaps and whatever fails.                                     *)
EXTENDS KeyHealth, FiniteSetTheorems, TLAPS

-----------------------------------------------------------------------------
(* The inductive invariant.                                                 *)

\* Check c has seen the provider refuse, or accept, k and has yet to count it.
Uncounted(c, k, v) ==
    key[c] = k /\ pc[c] \in {"record", "count"} /\ verdict[c] = v

Pending(k) == {c \in Checks : Uncounted(c, k, "refused")}

\* The count never runs ahead of the refusals, those to be counted included.
CountKept ==
    \A k \in Keys : \/ refusals[k] = Threshold
                    \/ failureCount[k] + Cardinality(Pending(k)) <= refusals[k]

DisableForCount ==
    \A c \in Checks : pc[c] = "disable" => refusals[key[c]] = Threshold

\* A key of which no two checks overlapped is checked by one at most.
Alone ==
    \A k \in Keys \ muddled : \A c, d \in Checks : key[c] = k /\ key[d] = k => c = d

\* Then the count does not run ahead of the streak either, but for an acceptance
\* that has yet to clear it.
StreakKept ==
    \A k \in Keys \ muddled :
        \/ streak[k] = Threshold
        \/ \E c \in Checks : Uncounted(c, k, "accepted")
        \/ /\ failureCount[k] <= streak[k]
           /\ Pending(k) # {} => failureCount[k] < streak[k]

DisableForStreak ==
    \A c \in Checks : pc[c] = "disable" /\ key[c] \notin muddled
                          => streak[key[c]] = Threshold

\* A check that has an answer to record or count knows which.
VerdictKnown ==
    \A c \in Checks :
        pc[c] \in {"record", "count"} => verdict[c] \in {"accepted", "refused"}

IInv == /\ TypeOK /\ VerdictKnown
        /\ CountKept /\ DisableForCount
        /\ Alone /\ StreakKept /\ DisableForStreak

-----------------------------------------------------------------------------

LEMMA PendingIsFinite ==
    \A k \in Keys : IsFiniteSet(Pending(k)) /\ Cardinality(Pending(k)) \in Nat
BY KeyAssumption, FS_Subset, FS_CardinalityType DEF Pending, Checks

LEMMA UpSaturates ==
    ASSUME NEW n \in 0..Threshold
    PROVE  /\ Up(n) \in 0..Threshold /\ n <= Up(n)
           /\ Up(n) = n + 1 \/ (n = Threshold /\ Up(n) = Threshold)
BY NumberAssumption DEF Up

\* The variables keep their types.
LEMMA TypeStep == ASSUME IInv, Next PROVE TypeOK'
<1> USE DEF rowVars, checkVars, procVars, boundVars, historyVars
<1>1. ASSUME NEW c \in Rounds, StartRound(c) PROVE TypeOK'
  BY <1>1 DEF StartRound, IInv, TypeOK, Checks, Statuses, Verdicts
<1>2. ASSUME NEW c \in Singles, StartSingle(c) PROVE TypeOK'
  BY <1>2 DEF StartSingle, IInv, TypeOK, Checks, Statuses, Verdicts
<1>3. ASSUME NEW c \in Checks, Look(c) PROVE TypeOK'
  <2>1. PICK k \in todo[c] :
          /\ todo' = [todo EXCEPT ![c] = @ \ {k}]
          /\ IF k \in stored /\ PlatformOf[k] \in Served
               THEN AskProvider(c, k)
               ELSE /\ pc' = [pc EXCEPT ![c] = IF todo[c] = {k} THEN "idle" ELSE "next"]
                    /\ UNCHANGED <<key, muddled>>
    BY <1>3 DEF Look
  <2>2. k \in Keys
    BY DEF IInv, TypeOK
  <2>3. CASE k \in stored /\ PlatformOf[k] \in Served
    BY <1>3, <2>1, <2>2, <2>3, KeyAssumption DEF Look, AskProvider, IInv, TypeOK
  <2>4. CASE ~(k \in stored /\ PlatformOf[k] \in Served)
    BY <1>3, <2>1, <2>4 DEF Look, IInv, TypeOK
  <2>5. QED
    BY <2>3, <2>4
<1>4. ASSUME NEW c \in Checks, Refuse(c) PROVE TypeOK'
  <2>1. key[c] \in Keys
    BY <1>4 DEF Refuse, IInv, TypeOK
  <2>2. refusals' \in [Keys -> 0..Threshold] /\ streak' \in [Keys -> 0..Threshold]
    BY <1>4, <2>1, UpSaturates DEF Refuse, IInv, TypeOK
  <2>3. QED
    BY <1>4, <2>2 DEF Refuse, IInv, TypeOK, Verdicts
<1>5. ASSUME NEW c \in Checks, Accept(c) PROVE TypeOK'
  <2>1. 0 \in 0..Threshold
    BY NumberAssumption
  <2>2. QED
    BY <1>5, <2>1 DEF Accept, IInv, TypeOK, Verdicts
<1>6. ASSUME NEW c \in Checks, Unreachable(c) PROVE TypeOK'
  BY <1>6 DEF Unreachable, IInv, TypeOK, Checks, Statuses, Verdicts
<1>7. ASSUME NEW c \in Checks, Record(c) PROVE TypeOK'
  BY <1>7 DEF Record, WriteStatus, IInv, TypeOK, Checks, Statuses, Verdicts
<1>8. ASSUME NEW c \in Checks, Count(c) PROVE TypeOK'
  <2>1. key[c] \in Keys /\ 0 \in 0..Threshold
    BY <1>8, NumberAssumption DEF Count, IInv, TypeOK
  <2>2. failureCount' \in [Keys -> 0..Threshold]
    BY <1>8, <2>1, UpSaturates DEF Count, CountAccepted, CountRefused, IInv, TypeOK
  <2>3. CASE Proceed(c)
    BY <1>8, <2>2, <2>3 DEF Count, Proceed, IInv, TypeOK, Verdicts
  <2>4. CASE pc' = [pc EXCEPT ![c] = "disable"] /\ UNCHANGED <<todo, key, verdict>>
    BY <1>8, <2>2, <2>4 DEF Count, IInv, TypeOK
  <2>5. QED
    BY <1>8, <2>3, <2>4 DEF Count, CountAccepted, CountRefused
<1>9. ASSUME NEW c \in Checks, Disable(c) PROVE TypeOK'
  BY <1>9 DEF Disable, Proceed, IInv, TypeOK, Checks, Statuses, Verdicts
<1>10. ASSUME NEW c \in Checks, RecordError(c) PROVE TypeOK'
  BY <1>10 DEF RecordError, WriteStatus, Proceed, IInv, TypeOK, Checks, Statuses,
     Verdicts
<1>11. ASSUME NEW c \in Checks, StatementFails(c) PROVE TypeOK'
  <2>1. faults' \in 0..MaxFaults
    BY <1>11, NumberAssumption DEF StatementFails, IInv, TypeOK
  <2>2. CASE pc[c] \in {"record", "disable"}
    BY <1>11, <2>1, <2>2 DEF StatementFails, IInv, TypeOK, Verdicts
  <2>3. CASE pc[c] \notin {"record", "disable"}
    BY <1>11, <2>1, <2>3 DEF StatementFails, IInv, TypeOK, Verdicts
  <2>4. QED
    BY <2>2, <2>3
<1>12. ASSUME NEW k \in Keys, Add(k) PROVE TypeOK'
  BY <1>12 DEF Add, IInv, TypeOK, Checks, Statuses, Verdicts
<1>13. ASSUME NEW k \in Keys, Delete(k) PROVE TypeOK'
  <2>1. edits' \in 0..MaxEdits
    BY <1>13, NumberAssumption DEF Delete, Edit, IInv, TypeOK
  <2>2. stored' \subseteq issued' /\ enabled' \subseteq stored'
    BY <1>13 DEF Delete, IInv, TypeOK
  <2>3. QED
    BY <1>13, <2>1, <2>2 DEF Delete, Edit, IInv, TypeOK
<1>14. ASSUME NEW k \in Keys, Toggle(k) PROVE TypeOK'
  <2>1. edits' \in 0..MaxEdits
    BY <1>14, NumberAssumption DEF Toggle, Edit, IInv, TypeOK
  <2>2. stored' \subseteq issued' /\ enabled' \subseteq stored'
    BY <1>14 DEF Toggle, IInv, TypeOK
  <2>3. QED
    BY <1>14, <2>1, <2>2 DEF Toggle, Edit, IInv, TypeOK
<1>15. ASSUME NEW k \in Keys, MarkKey(k) PROVE TypeOK'
  BY <1>15 DEF MarkKey, IInv, TypeOK, Checks, Statuses, Verdicts
<1>16. ASSUME NEW k \in Keys, Die(k) PROVE TypeOK'
  BY <1>16 DEF Die, IInv, TypeOK, Checks, Statuses, Verdicts
<1>17. ASSUME NEW p \in Platforms, TogglePlatform(p) PROVE TypeOK'
  <2>1. edits' \in 0..MaxEdits
    BY <1>17, NumberAssumption DEF TogglePlatform, Edit, IInv, TypeOK
  <2>2. stored' \subseteq issued' /\ enabled' \subseteq stored'
    BY <1>17 DEF TogglePlatform, IInv, TypeOK
  <2>3. QED
    BY <1>17, <2>1, <2>2 DEF TogglePlatform, Edit, IInv, TypeOK
<1>18. CASE Restart
  <2>1. 0 \in 0..Threshold /\ restarts' \in 0..MaxRestarts
    BY <1>18, NumberAssumption DEF Restart, IInv, TypeOK
  <2>2. QED
    BY <1>18, <2>1 DEF Restart, IInv, TypeOK, Verdicts
<1>19. QED
  BY <1>1, <1>2, <1>3, <1>4, <1>5, <1>6, <1>7, <1>8, <1>9, <1>10, <1>11, <1>12, <1>13,
     <1>14, <1>15, <1>16, <1>17, <1>18 DEF Next, Step

-----------------------------------------------------------------------------
(* The count and the refusals.                                              *)

CountKeptOf(k) == \/ refusals[k] = Threshold
                  \/ failureCount[k] + Cardinality(Pending(k)) <= refusals[k]

\* A step that leaves the count and the refusals of k alone, or clears the count.
LEMMA QuietCount ==
    ASSUME IInv, NEW k \in Keys, failureCount'[k] \in {0, failureCount[k]},
           refusals'[k] = refusals[k], Pending(k)' \in SUBSET Pending(k)
    PROVE  CountKeptOf(k)'
<1>1. CountKeptOf(k)
  BY DEF IInv, CountKept, CountKeptOf
<1>2. /\ Cardinality(Pending(k)') <= Cardinality(Pending(k))
      /\ Cardinality(Pending(k)') \in Nat
  BY PendingIsFinite, FS_Subset, FS_CardinalityType
<1>3. failureCount[k] \in Nat /\ refusals[k] \in Nat /\ Cardinality(Pending(k)) \in Nat
  BY PendingIsFinite, NumberAssumption DEF IInv, TypeOK
<1>4. QED
  BY <1>1, <1>2, <1>3 DEF CountKeptOf

\* A refusal that has yet to be counted.
LEMMA RefusedCount ==
    ASSUME IInv, NEW c \in Checks, Refuse(c), NEW k \in Keys PROVE CountKeptOf(k)'
<1>1. CASE k # key[c]
  <2>1. Pending(k)' \subseteq Pending(k)
    BY <1>1 DEF Refuse, Pending, Uncounted, IInv, TypeOK
  <2>2. QED
    BY <1>1, <2>1, QuietCount DEF Refuse, procVars, IInv, TypeOK
<1>2. CASE k = key[c]
  <2>1. Pending(k)' = Pending(k) \cup {c} /\ c \notin Pending(k)
    BY <1>2 DEF Refuse, Pending, Uncounted, IInv, TypeOK
  <2>2. Cardinality(Pending(k)') = Cardinality(Pending(k)) + 1
    BY <2>1, PendingIsFinite, FS_AddElement
  <2>3. refusals'[k] = Up(refusals[k]) /\ refusals[k] \in 0..Threshold
          /\ failureCount' = failureCount
    BY <1>2 DEF Refuse, procVars, IInv, TypeOK
  <2>4. failureCount[k] \in Nat /\ Cardinality(Pending(k)) \in Nat /\ CountKeptOf(k)
    BY PendingIsFinite, NumberAssumption DEF IInv, TypeOK, CountKept, CountKeptOf
  <2>5. QED
    BY <2>2, <2>3, <2>4, UpSaturates, NumberAssumption DEF CountKeptOf
<1>3. QED
  BY <1>1, <1>2

\* The refusal is counted, or an acceptance clears the count.
LEMMA CountedCount ==
    ASSUME IInv, NEW c \in Checks, Count(c), NEW k \in Keys PROVE CountKeptOf(k)'
<1>1. Pending(k)' \subseteq Pending(k)
  BY DEF Count, CountAccepted, CountRefused, Proceed, Pending, Uncounted, IInv, TypeOK
<1>2. refusals'[k] = refusals[k]
  BY DEF Count, historyVars
<1>3. CASE k # key[c] \/ verdict[c] = "accepted"
  <2>1. failureCount'[k] \in {0, failureCount[k]}
    BY <1>3 DEF Count, CountAccepted, CountRefused, IInv, TypeOK
  <2>2. QED
    BY <1>1, <1>2, <2>1, QuietCount
<1>4. CASE k = key[c] /\ verdict[c] # "accepted"
  <2>1. failureCount'[k] = Up(failureCount[k]) /\ failureCount[k] \in 0..Threshold
    BY <1>4 DEF Count, CountRefused, IInv, TypeOK
  <2>2. Pending(k)' = Pending(k) \ {c} /\ c \in Pending(k)
    BY <1>4 DEF Count, CountRefused, Proceed, Pending, Uncounted, IInv, TypeOK,
       VerdictKnown
  <2>3. Cardinality(Pending(k)') = Cardinality(Pending(k)) - 1
    BY <2>2, PendingIsFinite, FS_RemoveElement
  <2>4. refusals[k] \in Nat /\ Cardinality(Pending(k)) \in Nat /\ CountKeptOf(k)
    BY PendingIsFinite, NumberAssumption DEF IInv, TypeOK, CountKept, CountKeptOf
  <2>5. QED
    BY <1>2, <2>1, <2>3, <2>4, UpSaturates, NumberAssumption DEF CountKeptOf
<1>5. QED
  BY <1>3, <1>4

\* An answer is recorded and counted as it was given.
LEMMA VerdictStep == ASSUME IInv, Next PROVE VerdictKnown'
<1> USE DEF rowVars, checkVars, procVars, boundVars, historyVars
<1>1. ASSUME NEW c \in Rounds, StartRound(c) PROVE VerdictKnown'
  BY <1>1 DEF StartRound, IInv, TypeOK, VerdictKnown
<1>2. ASSUME NEW c \in Singles, StartSingle(c) PROVE VerdictKnown'
  BY <1>2 DEF StartSingle, IInv, TypeOK, VerdictKnown
<1>3. ASSUME NEW c \in Checks, Look(c) PROVE VerdictKnown'
  BY <1>3 DEF Look, AskProvider, IInv, TypeOK, VerdictKnown
<1>4. ASSUME NEW c \in Checks, Refuse(c) PROVE VerdictKnown'
  BY <1>4 DEF Refuse, IInv, TypeOK, VerdictKnown
<1>5. ASSUME NEW c \in Checks, Accept(c) PROVE VerdictKnown'
  BY <1>5 DEF Accept, IInv, TypeOK, VerdictKnown
<1>6. ASSUME NEW c \in Checks, Unreachable(c) PROVE VerdictKnown'
  BY <1>6 DEF Unreachable, IInv, TypeOK, VerdictKnown
<1>7. ASSUME NEW c \in Checks, Record(c) PROVE VerdictKnown'
  BY <1>7 DEF Record, WriteStatus, IInv, TypeOK, VerdictKnown
<1>8. ASSUME NEW c \in Checks, Count(c) PROVE VerdictKnown'
  BY <1>8 DEF Count, CountAccepted, CountRefused, Proceed, IInv, TypeOK, VerdictKnown
<1>9. ASSUME NEW c \in Checks, Disable(c) PROVE VerdictKnown'
  BY <1>9 DEF Disable, Proceed, IInv, TypeOK, VerdictKnown
<1>10. ASSUME NEW c \in Checks, RecordError(c) PROVE VerdictKnown'
  BY <1>10 DEF RecordError, WriteStatus, Proceed, IInv, TypeOK, VerdictKnown
<1>11. ASSUME NEW c \in Checks, StatementFails(c) PROVE VerdictKnown'
  BY <1>11 DEF StatementFails, IInv, TypeOK, VerdictKnown
<1>12. ASSUME NEW k \in Keys, Add(k) PROVE VerdictKnown'
  BY <1>12 DEF Add, IInv, TypeOK, VerdictKnown
<1>13. ASSUME NEW k \in Keys, Delete(k) PROVE VerdictKnown'
  BY <1>13 DEF Delete, Edit, IInv, TypeOK, VerdictKnown
<1>14. ASSUME NEW k \in Keys, Toggle(k) PROVE VerdictKnown'
  BY <1>14 DEF Toggle, Edit, IInv, TypeOK, VerdictKnown
<1>15. ASSUME NEW k \in Keys, MarkKey(k) PROVE VerdictKnown'
  BY <1>15 DEF MarkKey, IInv, TypeOK, VerdictKnown
<1>16. ASSUME NEW k \in Keys, Die(k) PROVE VerdictKnown'
  BY <1>16 DEF Die, IInv, TypeOK, VerdictKnown
<1>17. ASSUME NEW p \in Platforms, TogglePlatform(p) PROVE VerdictKnown'
  BY <1>17 DEF TogglePlatform, Edit, IInv, TypeOK, VerdictKnown
<1>18. CASE Restart
  BY <1>18 DEF Restart, IInv, TypeOK, VerdictKnown
<1>19. QED
  BY <1>1, <1>2, <1>3, <1>4, <1>5, <1>6, <1>7, <1>8, <1>9, <1>10, <1>11, <1>12, <1>13,
     <1>14, <1>15, <1>16, <1>17, <1>18 DEF Next, Step

\* No step makes the count overtake the refusals.
LEMMA CountStep == ASSUME IInv, Next PROVE CountKept'
<1> USE DEF rowVars, checkVars, procVars, boundVars, historyVars
<1>1. ASSUME NEW c \in Rounds, StartRound(c) PROVE CountKept'
  <2>1. SUFFICES ASSUME NEW q \in Keys PROVE CountKeptOf(q)'
    BY DEF CountKept, CountKeptOf
  <2>2. Pending(q)' \subseteq Pending(q)
    BY <1>1 DEF StartRound, Pending, Uncounted, IInv, TypeOK
  <2>3. QED
    BY <1>1, <2>2, QuietCount DEF StartRound, IInv, TypeOK
<1>2. ASSUME NEW c \in Singles, StartSingle(c) PROVE CountKept'
  <2>1. SUFFICES ASSUME NEW q \in Keys PROVE CountKeptOf(q)'
    BY DEF CountKept, CountKeptOf
  <2>2. Pending(q)' \subseteq Pending(q)
    BY <1>2 DEF StartSingle, Pending, Uncounted, IInv, TypeOK
  <2>3. QED
    BY <1>2, <2>2, QuietCount DEF StartSingle, IInv, TypeOK
<1>3. ASSUME NEW c \in Checks, Look(c) PROVE CountKept'
  <2>1. SUFFICES ASSUME NEW q \in Keys PROVE CountKeptOf(q)'
    BY DEF CountKept, CountKeptOf
  <2>2. Pending(q)' \subseteq Pending(q)
    BY <1>3 DEF Look, AskProvider, Pending, Uncounted, IInv, TypeOK
  <2>3. QED
    BY <1>3, <2>2, QuietCount DEF Look, AskProvider, IInv, TypeOK
<1>4. ASSUME NEW c \in Checks, Refuse(c) PROVE CountKept'
  BY <1>4, RefusedCount DEF CountKept, CountKeptOf
<1>5. ASSUME NEW c \in Checks, Accept(c) PROVE CountKept'
  <2>1. SUFFICES ASSUME NEW q \in Keys PROVE CountKeptOf(q)'
    BY DEF CountKept, CountKeptOf
  <2>2. Pending(q)' \subseteq Pending(q)
    BY <1>5 DEF Accept, Pending, Uncounted, IInv, TypeOK
  <2>3. QED
    BY <1>5, <2>2, QuietCount DEF Accept, IInv, TypeOK
<1>6. ASSUME NEW c \in Checks, Unreachable(c) PROVE CountKept'
  <2>1. SUFFICES ASSUME NEW q \in Keys PROVE CountKeptOf(q)'
    BY DEF CountKept, CountKeptOf
  <2>2. Pending(q)' \subseteq Pending(q)
    BY <1>6 DEF Unreachable, Pending, Uncounted, IInv, TypeOK
  <2>3. QED
    BY <1>6, <2>2, QuietCount DEF Unreachable, IInv, TypeOK
<1>7. ASSUME NEW c \in Checks, Record(c) PROVE CountKept'
  <2>1. SUFFICES ASSUME NEW q \in Keys PROVE CountKeptOf(q)'
    BY DEF CountKept, CountKeptOf
  <2>2. Pending(q)' \subseteq Pending(q)
    BY <1>7 DEF Record, WriteStatus, Pending, Uncounted, IInv, TypeOK
  <2>3. QED
    BY <1>7, <2>2, QuietCount DEF Record, WriteStatus, IInv, TypeOK
<1>8. ASSUME NEW c \in Checks, Count(c) PROVE CountKept'
  BY <1>8, CountedCount DEF CountKept, CountKeptOf
<1>9. ASSUME NEW c \in Checks, Disable(c) PROVE CountKept'
  <2>1. SUFFICES ASSUME NEW q \in Keys PROVE CountKeptOf(q)'
    BY DEF CountKept, CountKeptOf
  <2>2. Pending(q)' \subseteq Pending(q)
    BY <1>9 DEF Disable, Proceed, Pending, Uncounted, IInv, TypeOK
  <2>3. QED
    BY <1>9, <2>2, QuietCount DEF Disable, Proceed, IInv, TypeOK
<1>10. ASSUME NEW c \in Checks, RecordError(c) PROVE CountKept'
  <2>1. SUFFICES ASSUME NEW q \in Keys PROVE CountKeptOf(q)'
    BY DEF CountKept, CountKeptOf
  <2>2. Pending(q)' \subseteq Pending(q)
    BY <1>10 DEF RecordError, WriteStatus, Proceed, Pending, Uncounted, IInv, TypeOK
  <2>3. QED
    BY <1>10, <2>2, QuietCount DEF RecordError, WriteStatus, Proceed, IInv, TypeOK
<1>11. ASSUME NEW c \in Checks, StatementFails(c) PROVE CountKept'
  <2>1. SUFFICES ASSUME NEW q \in Keys PROVE CountKeptOf(q)'
    BY DEF CountKept, CountKeptOf
  <2>2. Pending(q)' \subseteq Pending(q)
    BY <1>11 DEF StatementFails, Pending, Uncounted, IInv, TypeOK
  <2>3. QED
    BY <1>11, <2>2, QuietCount DEF StatementFails, IInv, TypeOK
<1>12. ASSUME NEW k \in Keys, Add(k) PROVE CountKept'
  <2>1. SUFFICES ASSUME NEW q \in Keys PROVE CountKeptOf(q)'
    BY DEF CountKept, CountKeptOf
  <2>2. Pending(q)' \subseteq Pending(q)
    BY <1>12 DEF Add, Pending, Uncounted, IInv, TypeOK
  <2>3. QED
    BY <1>12, <2>2, QuietCount DEF Add, IInv, TypeOK
<1>13. ASSUME NEW k \in Keys, Delete(k) PROVE CountKept'
  <2>1. SUFFICES ASSUME NEW q \in Keys PROVE CountKeptOf(q)'
    BY DEF CountKept, CountKeptOf
  <2>2. Pending(q)' \subseteq Pending(q)
    BY <1>13 DEF Delete, Edit, Pending, Uncounted, IInv, TypeOK
  <2>3. QED
    BY <1>13, <2>2, QuietCount DEF Delete, Edit, IInv, TypeOK
<1>14. ASSUME NEW k \in Keys, Toggle(k) PROVE CountKept'
  <2>1. SUFFICES ASSUME NEW q \in Keys PROVE CountKeptOf(q)'
    BY DEF CountKept, CountKeptOf
  <2>2. Pending(q)' \subseteq Pending(q)
    BY <1>14 DEF Toggle, Edit, Pending, Uncounted, IInv, TypeOK
  <2>3. QED
    BY <1>14, <2>2, QuietCount DEF Toggle, Edit, IInv, TypeOK
<1>15. ASSUME NEW k \in Keys, MarkKey(k) PROVE CountKept'
  <2>1. SUFFICES ASSUME NEW q \in Keys PROVE CountKeptOf(q)'
    BY DEF CountKept, CountKeptOf
  <2>2. Pending(q)' \subseteq Pending(q)
    BY <1>15 DEF MarkKey, Pending, Uncounted, IInv, TypeOK
  <2>3. QED
    BY <1>15, <2>2, QuietCount DEF MarkKey, IInv, TypeOK
<1>16. ASSUME NEW k \in Keys, Die(k) PROVE CountKept'
  <2>1. SUFFICES ASSUME NEW q \in Keys PROVE CountKeptOf(q)'
    BY DEF CountKept, CountKeptOf
  <2>2. Pending(q)' \subseteq Pending(q)
    BY <1>16 DEF Die, Pending, Uncounted, IInv, TypeOK
  <2>3. QED
    BY <1>16, <2>2, QuietCount DEF Die, IInv, TypeOK
<1>17. ASSUME NEW p \in Platforms, TogglePlatform(p) PROVE CountKept'
  <2>1. SUFFICES ASSUME NEW q \in Keys PROVE CountKeptOf(q)'
    BY DEF CountKept, CountKeptOf
  <2>2. Pending(q)' \subseteq Pending(q)
    BY <1>17 DEF TogglePlatform, Edit, Pending, Uncounted, IInv, TypeOK
  <2>3. QED
    BY <1>17, <2>2, QuietCount DEF TogglePlatform, Edit, IInv, TypeOK
<1>18. CASE Restart
  <2>1. SUFFICES ASSUME NEW q \in Keys PROVE CountKeptOf(q)'
    BY DEF CountKept, CountKeptOf
  <2>2. Pending(q)' = {}
    BY <1>18 DEF Restart, Pending, Uncounted
  <2>3. QED
    BY <1>18, <2>2, FS_EmptySet DEF Restart, CountKeptOf
<1>19. QED
  BY <1>1, <1>2, <1>3, <1>4, <1>5, <1>6, <1>7, <1>8, <1>9, <1>10, <1>11, <1>12, <1>13,
     <1>14, <1>15, <1>16, <1>17, <1>18 DEF Next, Step

\* A second check of a key marks it as muddled.
LEMMA AloneStep == ASSUME IInv, Next PROVE Alone'
<1> USE DEF rowVars, checkVars, procVars, boundVars, historyVars
<1>1. ASSUME NEW c \in Rounds, StartRound(c) PROVE Alone'
  BY <1>1 DEF StartRound, IInv, TypeOK, Alone
<1>2. ASSUME NEW c \in Singles, StartSingle(c) PROVE Alone'
  BY <1>2 DEF StartSingle, IInv, TypeOK, Alone
<1>3. ASSUME NEW c \in Checks, Look(c) PROVE Alone'
  BY <1>3 DEF Look, AskProvider, IInv, TypeOK, Alone
<1>4. ASSUME NEW c \in Checks, Refuse(c) PROVE Alone'
  BY <1>4 DEF Refuse, IInv, TypeOK, Alone
<1>5. ASSUME NEW c \in Checks, Accept(c) PROVE Alone'
  BY <1>5 DEF Accept, IInv, TypeOK, Alone
<1>6. ASSUME NEW c \in Checks, Unreachable(c) PROVE Alone'
  BY <1>6 DEF Unreachable, IInv, TypeOK, Alone
<1>7. ASSUME NEW c \in Checks, Record(c) PROVE Alone'
  BY <1>7 DEF Record, WriteStatus, IInv, TypeOK, Alone
<1>8. ASSUME NEW c \in Checks, Count(c) PROVE Alone'
  BY <1>8, KeyAssumption DEF Count, CountAccepted, CountRefused, Proceed, IInv, TypeOK,
     Alone
<1>9. ASSUME NEW c \in Checks, Disable(c) PROVE Alone'
  BY <1>9, KeyAssumption DEF Disable, Proceed, IInv, TypeOK, Alone
<1>10. ASSUME NEW c \in Checks, RecordError(c) PROVE Alone'
  BY <1>10, KeyAssumption DEF RecordError, WriteStatus, Proceed, IInv, TypeOK, Alone
<1>11. ASSUME NEW c \in Checks, StatementFails(c) PROVE Alone'
  BY <1>11, KeyAssumption DEF StatementFails, IInv, TypeOK, Alone
<1>12. ASSUME NEW k \in Keys, Add(k) PROVE Alone'
  BY <1>12 DEF Add, IInv, TypeOK, Alone
<1>13. ASSUME NEW k \in Keys, Delete(k) PROVE Alone'
  BY <1>13 DEF Delete, Edit, IInv, TypeOK, Alone
<1>14. ASSUME NEW k \in Keys, Toggle(k) PROVE Alone'
  BY <1>14 DEF Toggle, Edit, IInv, TypeOK, Alone
<1>15. ASSUME NEW k \in Keys, MarkKey(k) PROVE Alone'
  BY <1>15 DEF MarkKey, IInv, TypeOK, Alone
<1>16. ASSUME NEW k \in Keys, Die(k) PROVE Alone'
  BY <1>16 DEF Die, IInv, TypeOK, Alone
<1>17. ASSUME NEW p \in Platforms, TogglePlatform(p) PROVE Alone'
  BY <1>17 DEF TogglePlatform, Edit, IInv, TypeOK, Alone
<1>18. CASE Restart
  BY <1>18, KeyAssumption DEF Restart, IInv, TypeOK, Alone
<1>19. QED
  BY <1>1, <1>2, <1>3, <1>4, <1>5, <1>6, <1>7, <1>8, <1>9, <1>10, <1>11, <1>12, <1>13,
     <1>14, <1>15, <1>16, <1>17, <1>18 DEF Next, Step

\* The streak of a key that is checked alone.
StreakKeptOf(k) ==
    \/ streak[k] = Threshold
    \/ \E c \in Checks : Uncounted(c, k, "accepted")
    \/ /\ failureCount[k] <= streak[k]
       /\ Pending(k) # {} => failureCount[k] < streak[k]

\* No step makes the count of such a key overtake its streak.
LEMMA StreakStep == ASSUME IInv, Next PROVE StreakKept'
<1> USE DEF rowVars, checkVars, procVars, boundVars, historyVars
<1>1. ASSUME NEW c \in Rounds, StartRound(c) PROVE StreakKept'
  BY <1>1 DEF StartRound, IInv, TypeOK, StreakKept, Pending, Uncounted
<1>2. ASSUME NEW c \in Singles, StartSingle(c) PROVE StreakKept'
  BY <1>2 DEF StartSingle, IInv, TypeOK, StreakKept, Pending, Uncounted
<1>3. ASSUME NEW c \in Checks, Look(c) PROVE StreakKept'
  BY <1>3 DEF Look, AskProvider, IInv, TypeOK, StreakKept, Pending, Uncounted
<1>4. ASSUME NEW c \in Checks, Refuse(c) PROVE StreakKept'
  <2>1. SUFFICES ASSUME NEW k \in Keys \ muddled PROVE StreakKeptOf(k)'
    BY <1>4 DEF Refuse, StreakKept, StreakKeptOf
  <2>2. StreakKeptOf(k)
    BY DEF IInv, StreakKept, StreakKeptOf
  <2>3. CASE k # key[c]
    BY <1>4, <2>2, <2>3 DEF Refuse, StreakKeptOf, IInv, TypeOK, Pending, Uncounted
  <2>4. CASE k = key[c]
    <3>1. \A d \in Checks : key[d] = k => d = c
      BY <2>4 DEF IInv, Alone
    <3>2. streak[k] = Threshold \/ failureCount[k] <= streak[k]
      BY <1>4, <2>2, <3>1 DEF Refuse, StreakKeptOf, Uncounted
    <3>3. failureCount'[k] = failureCount[k] /\ streak'[k] = Up(streak[k])
            /\ failureCount[k] \in 0..Threshold /\ streak[k] \in 0..Threshold
      BY <1>4, <2>4 DEF Refuse, IInv, TypeOK
    <3>4. streak'[k] = Threshold \/ failureCount'[k] < streak'[k]
      BY <3>2, <3>3, UpSaturates, NumberAssumption
    <3>5. QED
      BY <3>3, <3>4, UpSaturates, NumberAssumption DEF StreakKeptOf
  <2>5. QED
    BY <2>3, <2>4
<1>5. ASSUME NEW c \in Checks, Accept(c) PROVE StreakKept'
  BY <1>5 DEF Accept, IInv, TypeOK, StreakKept, Pending, Uncounted
<1>6. ASSUME NEW c \in Checks, Unreachable(c) PROVE StreakKept'
  BY <1>6 DEF Unreachable, IInv, TypeOK, StreakKept, Pending, Uncounted
<1>7. ASSUME NEW c \in Checks, Record(c) PROVE StreakKept'
  BY <1>7 DEF Record, WriteStatus, IInv, TypeOK, StreakKept, Pending, Uncounted
<1>8. ASSUME NEW c \in Checks, Count(c) PROVE StreakKept'
  <2>1. SUFFICES ASSUME NEW k \in Keys \ muddled PROVE StreakKeptOf(k)'
    BY <1>8 DEF Count, StreakKept, StreakKeptOf
  <2>2. StreakKeptOf(k)
    BY DEF IInv, StreakKept, StreakKeptOf
  <2>3. CASE k # key[c]
    BY <1>8, <2>2, <2>3 DEF Count, CountAccepted, CountRefused, Proceed, StreakKeptOf,
       IInv,
       TypeOK, Pending, Uncounted
  <2>4. CASE k = key[c]
    <3>1. \A d \in Checks : key[d] = k => d = c
      BY <2>4 DEF IInv, Alone
    <3>2. Pending(k)' = {}
      BY <1>8, <2>4, <3>1, KeyAssumption DEF Count, CountAccepted, CountRefused,
         Proceed,
         Pending, Uncounted, IInv, TypeOK
    <3>3. streak'[k] = streak[k] /\ streak[k] \in 0..Threshold
            /\ failureCount[k] \in 0..Threshold
      BY <1>8 DEF Count, IInv, TypeOK
    <3>4. CASE verdict[c] = "accepted"
      <4>1. failureCount'[k] = 0
        BY <1>8, <2>4, <3>4 DEF Count, CountAccepted, IInv, TypeOK
      <4>2. QED
        BY <3>2, <3>3, <4>1, NumberAssumption DEF StreakKeptOf
    <3>5. CASE verdict[c] # "accepted"
      <4>1. failureCount'[k] = Up(failureCount[k])
        BY <1>8, <2>4, <3>5 DEF Count, CountRefused, IInv, TypeOK
      <4>2. c \in Pending(k)
        BY <1>8, <2>4, <3>5 DEF Count, Pending, Uncounted, IInv, VerdictKnown
      <4>3. streak[k] = Threshold \/ failureCount[k] < streak[k]
        BY <2>2, <3>1, <3>5, <4>2 DEF StreakKeptOf, Uncounted
      <4>4. QED
        BY <3>2, <3>3, <4>1, <4>3, UpSaturates, NumberAssumption DEF StreakKeptOf
    <3>6. QED
      BY <3>4, <3>5
  <2>5. QED
    BY <2>3, <2>4
<1>9. ASSUME NEW c \in Checks, Disable(c) PROVE StreakKept'
  BY <1>9 DEF Disable, Proceed, IInv, TypeOK, StreakKept, Pending, Uncounted
<1>10. ASSUME NEW c \in Checks, RecordError(c) PROVE StreakKept'
  BY <1>10 DEF RecordError, WriteStatus, Proceed, IInv, TypeOK, StreakKept, Pending,
     Uncounted
<1>11. ASSUME NEW c \in Checks, StatementFails(c) PROVE StreakKept'
  BY <1>11 DEF StatementFails, IInv, TypeOK, StreakKept, Pending, Uncounted
<1>12. ASSUME NEW k \in Keys, Add(k) PROVE StreakKept'
  BY <1>12 DEF Add, IInv, TypeOK, StreakKept, Pending, Uncounted
<1>13. ASSUME NEW k \in Keys, Delete(k) PROVE StreakKept'
  BY <1>13 DEF Delete, Edit, IInv, TypeOK, StreakKept, Pending, Uncounted
<1>14. ASSUME NEW k \in Keys, Toggle(k) PROVE StreakKept'
  BY <1>14 DEF Toggle, Edit, IInv, TypeOK, StreakKept, Pending, Uncounted
<1>15. ASSUME NEW k \in Keys, MarkKey(k) PROVE StreakKept'
  BY <1>15 DEF MarkKey, IInv, TypeOK, StreakKept, Pending, Uncounted
<1>16. ASSUME NEW k \in Keys, Die(k) PROVE StreakKept'
  BY <1>16 DEF Die, IInv, TypeOK, StreakKept, Pending, Uncounted
<1>17. ASSUME NEW p \in Platforms, TogglePlatform(p) PROVE StreakKept'
  BY <1>17 DEF TogglePlatform, Edit, IInv, TypeOK, StreakKept, Pending, Uncounted
<1>18. CASE Restart
  BY <1>18, KeyAssumption DEF Restart, IInv, TypeOK, StreakKept, Pending, Uncounted
<1>19. QED
  BY <1>1, <1>2, <1>3, <1>4, <1>5, <1>6, <1>7, <1>8, <1>9, <1>10, <1>11, <1>12, <1>13,
     <1>14, <1>15, <1>16, <1>17, <1>18 DEF Next, Step

\* A check comes to disable a key when the count has reached the threshold.
LEMMA DisableStep == ASSUME IInv, Next PROVE DisableForCount'
<1> USE DEF rowVars, checkVars, procVars, boundVars, historyVars
<1>1. ASSUME NEW c \in Rounds, StartRound(c) PROVE DisableForCount'
  BY <1>1 DEF StartRound, IInv, TypeOK, VerdictKnown, DisableForCount
<1>2. ASSUME NEW c \in Singles, StartSingle(c) PROVE DisableForCount'
  BY <1>2 DEF StartSingle, IInv, TypeOK, VerdictKnown, DisableForCount
<1>3. ASSUME NEW c \in Checks, Look(c) PROVE DisableForCount'
  BY <1>3 DEF Look, AskProvider, IInv, TypeOK, VerdictKnown, DisableForCount
<1>4. ASSUME NEW c \in Checks, Refuse(c) PROVE DisableForCount'
  <2>1. \A k \in Keys : refusals[k] = Threshold => refusals'[k] = Threshold
    BY <1>4, UpSaturates, NumberAssumption DEF Refuse, IInv, TypeOK
  <2>2. QED
    BY <1>4, <2>1 DEF Refuse, IInv, TypeOK, DisableForCount
<1>5. ASSUME NEW c \in Checks, Accept(c) PROVE DisableForCount'
  BY <1>5 DEF Accept, IInv, TypeOK, VerdictKnown, DisableForCount
<1>6. ASSUME NEW c \in Checks, Unreachable(c) PROVE DisableForCount'
  BY <1>6 DEF Unreachable, IInv, TypeOK, VerdictKnown, DisableForCount
<1>7. ASSUME NEW c \in Checks, Record(c) PROVE DisableForCount'
  BY <1>7 DEF Record, WriteStatus, IInv, TypeOK, VerdictKnown, DisableForCount
<1>8. ASSUME NEW c \in Checks, Count(c) PROVE DisableForCount'
  <2>1. SUFFICES ASSUME NEW d \in Checks, pc'[d] = "disable"
                 PROVE  refusals'[key'[d]] = Threshold
    BY DEF DisableForCount
  <2>2. CASE d # c
    BY <1>8, <2>1, <2>2 DEF Count, CountAccepted, CountRefused, Proceed, IInv, TypeOK,
       DisableForCount
  <2>3. CASE d = c
    <3>1. /\ key[c] \in Keys /\ key'[c] = key[c] /\ c \in Pending(key[c])
          /\ Up(failureCount[key[c]]) >= Threshold
      BY <1>8, <2>1, <2>3 DEF Count, CountAccepted, CountRefused, Proceed, IInv, TypeOK,
         VerdictKnown, Pending, Uncounted
    <3>2. Cardinality(Pending(key[c])) \in Nat \ {0}
      BY <3>1, PendingIsFinite, FS_EmptySet
    <3>3. CountKeptOf(key[c]) /\ failureCount[key[c]] \in 0..Threshold
            /\ refusals[key[c]] \in 0..Threshold
      BY <3>1 DEF IInv, TypeOK, CountKept, CountKeptOf
    <3>4. failureCount[key[c]] + 1 >= Threshold
      BY <3>1, <3>3, UpSaturates, NumberAssumption
    <3>5. refusals[key[c]] = Threshold
      BY <3>2, <3>3, <3>4, NumberAssumption DEF CountKeptOf
    <3>6. QED
      BY <1>8, <2>3, <3>1, <3>5 DEF Count
  <2>4. QED
    BY <2>2, <2>3
<1>9. ASSUME NEW c \in Checks, Disable(c) PROVE DisableForCount'
  BY <1>9 DEF Disable, Proceed, IInv, TypeOK, VerdictKnown, DisableForCount
<1>10. ASSUME NEW c \in Checks, RecordError(c) PROVE DisableForCount'
  BY <1>10 DEF RecordError, WriteStatus, Proceed, IInv, TypeOK, VerdictKnown,
     DisableForCount
<1>11. ASSUME NEW c \in Checks, StatementFails(c) PROVE DisableForCount'
  BY <1>11 DEF StatementFails, IInv, TypeOK, VerdictKnown, DisableForCount
<1>12. ASSUME NEW k \in Keys, Add(k) PROVE DisableForCount'
  BY <1>12 DEF Add, IInv, TypeOK, VerdictKnown, DisableForCount
<1>13. ASSUME NEW k \in Keys, Delete(k) PROVE DisableForCount'
  BY <1>13 DEF Delete, Edit, IInv, TypeOK, VerdictKnown, DisableForCount
<1>14. ASSUME NEW k \in Keys, Toggle(k) PROVE DisableForCount'
  BY <1>14 DEF Toggle, Edit, IInv, TypeOK, VerdictKnown, DisableForCount
<1>15. ASSUME NEW k \in Keys, MarkKey(k) PROVE DisableForCount'
  BY <1>15 DEF MarkKey, IInv, TypeOK, VerdictKnown, DisableForCount
<1>16. ASSUME NEW k \in Keys, Die(k) PROVE DisableForCount'
  BY <1>16 DEF Die, IInv, TypeOK, VerdictKnown, DisableForCount
<1>17. ASSUME NEW p \in Platforms, TogglePlatform(p) PROVE DisableForCount'
  BY <1>17 DEF TogglePlatform, Edit, IInv, TypeOK, VerdictKnown, DisableForCount
<1>18. CASE Restart
  BY <1>18 DEF Restart, IInv, TypeOK, VerdictKnown, DisableForCount
<1>19. QED
  BY <1>1, <1>2, <1>3, <1>4, <1>5, <1>6, <1>7, <1>8, <1>9, <1>10, <1>11, <1>12, <1>13,
     <1>14, <1>15, <1>16, <1>17, <1>18 DEF Next, Step

\* And the streak too, if the key was checked alone.
LEMMA DisableStreakStep == ASSUME IInv, Next PROVE DisableForStreak'
<1> USE DEF rowVars, checkVars, procVars, boundVars, historyVars
<1>1. ASSUME NEW c \in Rounds, StartRound(c) PROVE DisableForStreak'
  BY <1>1 DEF StartRound, IInv, TypeOK, VerdictKnown, Alone, DisableForStreak
<1>2. ASSUME NEW c \in Singles, StartSingle(c) PROVE DisableForStreak'
  BY <1>2 DEF StartSingle, IInv, TypeOK, VerdictKnown, Alone, DisableForStreak
<1>3. ASSUME NEW c \in Checks, Look(c) PROVE DisableForStreak'
  BY <1>3 DEF Look, AskProvider, IInv, TypeOK, VerdictKnown, Alone, DisableForStreak
<1>4. ASSUME NEW c \in Checks, Refuse(c) PROVE DisableForStreak'
  BY <1>4 DEF Refuse, IInv, TypeOK, VerdictKnown, Alone, DisableForStreak
<1>5. ASSUME NEW c \in Checks, Accept(c) PROVE DisableForStreak'
  BY <1>5 DEF Accept, IInv, TypeOK, VerdictKnown, Alone, DisableForStreak
<1>6. ASSUME NEW c \in Checks, Unreachable(c) PROVE DisableForStreak'
  BY <1>6 DEF Unreachable, IInv, TypeOK, VerdictKnown, Alone, DisableForStreak
<1>7. ASSUME NEW c \in Checks, Record(c) PROVE DisableForStreak'
  BY <1>7 DEF Record, WriteStatus, IInv, TypeOK, VerdictKnown, Alone, DisableForStreak
<1>8. ASSUME NEW c \in Checks, Count(c) PROVE DisableForStreak'
  <2>1. SUFFICES ASSUME NEW d \in Checks, pc'[d] = "disable", key'[d] \notin muddled'
                 PROVE  streak'[key'[d]] = Threshold
    BY DEF DisableForStreak
  <2>2. CASE d # c
    BY <1>8, <2>1, <2>2 DEF Count, CountAccepted, CountRefused, Proceed, IInv, TypeOK,
       DisableForStreak
  <2>3. CASE d = c
    <3>1. /\ key[c] \in Keys \ muddled /\ key'[c] = key[c] /\ c \in Pending(key[c])
          /\ Up(failureCount[key[c]]) >= Threshold
      BY <1>8, <2>1, <2>3 DEF Count, CountAccepted, CountRefused, Proceed, IInv, TypeOK,
         VerdictKnown, Pending, Uncounted
    <3>2. ~\E e \in Checks : Uncounted(e, key[c], "accepted")
      BY <3>1 DEF IInv, Alone, Pending, Uncounted
    <3>3. streak[key[c]] = Threshold \/ failureCount[key[c]] < streak[key[c]]
      BY <3>1, <3>2 DEF IInv, StreakKept
    <3>4. failureCount[key[c]] \in 0..Threshold /\ streak[key[c]] \in 0..Threshold
      BY <3>1 DEF IInv, TypeOK
    <3>5. streak[key[c]] = Threshold
      BY <3>1, <3>3, <3>4, UpSaturates, NumberAssumption
    <3>6. QED
      BY <1>8, <2>3, <3>1, <3>5 DEF Count
  <2>4. QED
    BY <2>2, <2>3
<1>9. ASSUME NEW c \in Checks, Disable(c) PROVE DisableForStreak'
  BY <1>9 DEF Disable, Proceed, IInv, TypeOK, VerdictKnown, Alone, DisableForStreak
<1>10. ASSUME NEW c \in Checks, RecordError(c) PROVE DisableForStreak'
  BY <1>10 DEF RecordError, WriteStatus, Proceed, IInv, TypeOK, VerdictKnown, Alone,
     DisableForStreak
<1>11. ASSUME NEW c \in Checks, StatementFails(c) PROVE DisableForStreak'
  BY <1>11 DEF StatementFails, IInv, TypeOK, VerdictKnown, Alone, DisableForStreak
<1>12. ASSUME NEW k \in Keys, Add(k) PROVE DisableForStreak'
  BY <1>12 DEF Add, IInv, TypeOK, VerdictKnown, Alone, DisableForStreak
<1>13. ASSUME NEW k \in Keys, Delete(k) PROVE DisableForStreak'
  BY <1>13 DEF Delete, Edit, IInv, TypeOK, VerdictKnown, Alone, DisableForStreak
<1>14. ASSUME NEW k \in Keys, Toggle(k) PROVE DisableForStreak'
  BY <1>14 DEF Toggle, Edit, IInv, TypeOK, VerdictKnown, Alone, DisableForStreak
<1>15. ASSUME NEW k \in Keys, MarkKey(k) PROVE DisableForStreak'
  BY <1>15 DEF MarkKey, IInv, TypeOK, VerdictKnown, Alone, DisableForStreak
<1>16. ASSUME NEW k \in Keys, Die(k) PROVE DisableForStreak'
  BY <1>16 DEF Die, IInv, TypeOK, VerdictKnown, Alone, DisableForStreak
<1>17. ASSUME NEW p \in Platforms, TogglePlatform(p) PROVE DisableForStreak'
  BY <1>17 DEF TogglePlatform, Edit, IInv, TypeOK, VerdictKnown, Alone, DisableForStreak
<1>18. CASE Restart
  BY <1>18 DEF Restart, IInv, TypeOK, VerdictKnown, Alone, DisableForStreak
<1>19. QED
  BY <1>1, <1>2, <1>3, <1>4, <1>5, <1>6, <1>7, <1>8, <1>9, <1>10, <1>11, <1>12, <1>13,
     <1>14, <1>15, <1>16, <1>17, <1>18 DEF Next, Step

-----------------------------------------------------------------------------
(* The theorems.                                                            *)

LEMMA InitInv == ASSUME Init PROVE IInv
<1>1. 0 \in 0..Threshold /\ 0 \in 0..MaxEdits /\ 0 \in 0..MaxFaults /\ 0 \in 0..MaxRestarts
  BY NumberAssumption
<1>2. master \in Masters
  BY KeyAssumption DEF Init
<1>3. TypeOK
  BY <1>1, <1>2 DEF Init, TypeOK, Checks, Statuses, Verdicts
<1>4. \A k \in Keys : Pending(k) = {} /\ Cardinality(Pending(k)) = 0
  BY FS_EmptySet DEF Init, Pending, Uncounted
<1>5. VerdictKnown /\ DisableForCount /\ DisableForStreak
  BY DEF Init, VerdictKnown, DisableForCount, DisableForStreak
<1>6. CountKept /\ StreakKept
  BY <1>4 DEF Init, CountKept, StreakKept
<1>7. Alone
  BY KeyAssumption DEF Init, Alone
<1>8. QED
  BY <1>3, <1>5, <1>6, <1>7 DEF IInv

LEMMA StutterInv == ASSUME IInv, UNCHANGED vars PROVE IInv'
BY DEF IInv, vars, rowVars, checkVars, procVars, boundVars, historyVars, TypeOK,
       VerdictKnown, CountKept, DisableForCount, Alone, StreakKept, DisableForStreak,
       Pending, Uncounted

LEMMA Invariance == Spec => []IInv
<1>1. IInv /\ [Next]_vars => IInv'
  BY TypeStep, VerdictStep, CountStep, AloneStep, StreakStep, DisableStep,
     DisableStreakStep, StutterInv DEF IInv
<1>2. QED
  BY InitInv, <1>1, PTL DEF Spec

\* Table, checks and counters are well typed; a check has a key while it needs one.
THEOREM TypeCorrect == Spec => []TypeOK
<1>1. IInv => TypeOK
  BY DEF IInv
<1>2. QED
  BY Invariance, <1>1, PTL

\* The checker disables a key for the refusals of its provider only.
THEOREM DisabledOnlyForCause == Spec => DisabledForCause
<1> DEFINE ForCause == \A k \in Keys : Disables(k) =>
               /\ refusals[k] >= Threshold
               /\ k \notin muddled => streak[k] >= Threshold
<1>1. IInv => ForCause
  BY NumberAssumption DEF IInv, DisableForCount, DisableForStreak, Disables
<1>2. IInv => [ForCause]_vars
  BY <1>1
<1>3. QED
  BY Invariance, <1>2, PTL DEF DisabledForCause

=============================================================================
