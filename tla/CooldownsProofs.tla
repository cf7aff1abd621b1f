---------------------------- MODULE CooldownsProofs ----------------------------
(* Proofs about Cooldowns: where the expiries in the two copies come from,   *)
(* and that one of the copies keeps the latest of them.                      *)
EXTENDS Cooldowns, FiniteSetTheorems, TLAPS

-----------------------------------------------------------------------------
(* The inductive invariant.                                                 *)

\* An attempt sets an expiry once, when its call has failed.
ExpirySetOnce ==
    \A r \in Attempts : pc[r] \notin Ended \cup {"upsert"} => expiry[r] = NoRow

\* It asked in the past.
AskedBefore == \A r \in Attempts : clock[r] <= now

\* The times not later than an expiry that some attempt has set.
Covered == {t \in Int : t <= NoRow \/ \E s \in Attempts : t <= expiry[s]}

CopiesCovered ==
    {cooldowns, row} \subseteq Covered /\ \A r \in Attempts : seen[r] \in Covered

\* A transaction holds the row's lock from the DELETE to its end.
LockHeld == \A r \in locker : pc[r] = "free"

\* The rest is about attempts that have come one at a time.
OneAtATime == ~overlap => \A r, s \in InFlight : r = s

\* The row is still what the attempt has read, the Map what it has set.
ReadIsCurrent ==
    ~overlap => \A r \in Attempts :
        /\ pc[r] \in {"resume", "delete"} /\ seen[r] # Failed => seen[r] = row
        /\ pc[r] = "delete" => row < clock[r]
        /\ pc[r] = "upsert" => cooldowns = expiry[r]

\* An expiry that was saved and has not passed: for the attempt under way, when
\* it asked.
Standing(s) ==
    /\ pc[s] = "done" /\ expiry[s] # NoRow
    /\ InFlight = {} => now <= expiry[s]
    /\ \A r \in InFlight : clock[r] <= expiry[s]

\* It is in the row, and in the Map as long as nothing has failed; after one
\* failure there is no second one, and the row can be read.
RowKeeps ==
    ~overlap /\ failures <= 1 => \A s \in Attempts : Standing(s) =>
        /\ expiry[s] <= row
        /\ \/ expiry[s] <= cooldowns
           \/ failures = 1 /\ \A r \in Attempts : ~(pc[r] = "resume" /\ seen[r] = Failed)

\* An attempt that was let through found every saved expiry passed.
FreeFoundNone ==
    ~overlap /\ failures <= 1 => \A r \in Attempts :
        pc[r] \in {"delete", "free", "call", "upsert"} =>
            \A s \in Attempts : ~Standing(s)

IInv == /\ TypeOK /\ ExpirySetOnce /\ AskedBefore
        /\ CopiesCovered /\ BlockedForCause /\ LockHeld
        /\ OneAtATime /\ ReadIsCurrent /\ RowKeeps /\ FreeFoundNone

-----------------------------------------------------------------------------

\* A failure is followed by a cooldown of some length.
LEMMA DurationIsPositive ==
    ASSUME NEW n \in Nat \ {0} PROVE Duration(n) \in Nat \ {0}
<1>1. PICK m \in Nat : Durations \in [1..m -> Nat \ {0}]
  BY DurationAssumption
<1>2. Len(Durations) = m /\ m # 0
  BY <1>1, DurationAssumption
<1>3. (IF n <= Len(Durations) THEN n ELSE Len(Durations)) \in 1..m
  BY <1>1, <1>2
<1>4. QED
  BY <1>1, <1>3 DEF Duration

\* What SetCooldown counts and sets.
LEMMA CooldownSet ==
    ASSUME TypeOK, NEW r \in Attempts, SetCooldown(r)
    PROVE  /\ hits' \subseteq Attempts \X Nat /\ IsFiniteSet(hits')
           /\ expiry' \in [Attempts -> Nat] /\ expiry'[r] > now
           /\ \A s \in Attempts \ {r} : expiry'[s] = expiry[s]
<1>1. IsFiniteSet(RecentHits) /\ RecentHits \subseteq Attempts \X Nat
  BY FS_Subset DEF RecentHits, TypeOK
<1>2. hits' = RecentHits \cup {<<r, now>>}
  BY DEF SetCooldown
<1>3. hits' \subseteq Attempts \X Nat /\ IsFiniteSet(hits')
  <2>1. IsFiniteSet(RecentHits \cup {<<r, now>>})
    BY <1>1, FS_AddElement
  <2>2. QED
    BY <1>1, <1>2, <2>1 DEF TypeOK
<1>4. Cardinality(hits') \in Nat \ {0}
  BY <1>2, <1>3, FS_CardinalityType, FS_EmptySet
<1>5. Duration(Cardinality(hits')) \in Nat \ {0}
  BY <1>4, DurationIsPositive
<1>6. now \in Nat /\ expiry' = [expiry EXCEPT ![r] = now + Duration(Cardinality(hits'))]
  BY DEF SetCooldown, TypeOK
<1>7. QED
  BY <1>3, <1>5, <1>6 DEF TypeOK

-----------------------------------------------------------------------------
(* Every step keeps each part of the invariant.                             *)

\* The variables keep their types.
LEMMA TypeStep == ASSUME IInv, Next PROVE TypeOK'
<1> USE DEF Move, Failure, NoRow, Failed
<1>1. CASE Tick
  BY <1>1 DEF Tick, IInv, TypeOK, Locations, Ended
<1>2. CASE Restart
  <2>1. failures' \in Nat /\ IsFiniteSet(hits')
    BY <1>2, BoundAssumption, FS_EmptySet DEF Restart, IInv, TypeOK
  <2>2. QED
    BY <1>2, <2>1 DEF Restart, IInv, TypeOK, Locations, Ended
<1>3. ASSUME NEW r \in Attempts, Ask(r) PROVE TypeOK'
  BY <1>3 DEF Ask, IInv, TypeOK, Locations, Ended
<1>4. ASSUME NEW r \in Attempts, Read(r) PROVE TypeOK'
  BY <1>4 DEF Read, IInv, TypeOK, Locations, Ended
<1>5. ASSUME NEW r \in Attempts, ResumeExpired(r) PROVE TypeOK'
  BY <1>5 DEF ResumeExpired, IInv, TypeOK, Locations, Ended
<1>6. ASSUME NEW r \in Attempts, ResumeCooling(r) PROVE TypeOK'
  BY <1>6 DEF ResumeCooling, IInv, TypeOK, Locations, Ended
<1>7. ASSUME NEW r \in Attempts, ResumeInMemory(r) PROVE TypeOK'
  BY <1>7 DEF ResumeInMemory, IInv, TypeOK, Locations, Ended
<1>8. ASSUME NEW r \in Attempts, Delete(r) PROVE TypeOK'
  BY <1>8 DEF Delete, IInv, TypeOK, Locations, Ended
<1>9. ASSUME NEW r \in Attempts, Commit(r) PROVE TypeOK'
  BY <1>9 DEF Commit, IInv, TypeOK, Locations, Ended
<1>10. ASSUME NEW r \in Attempts, Rollback(r) PROVE TypeOK'
  BY <1>10 DEF Rollback, IInv, TypeOK, Locations, Ended
<1>11. ASSUME NEW r \in Attempts, Finish(r) PROVE TypeOK'
  BY <1>11 DEF Finish, IInv, TypeOK, Locations, Ended
<1>12. ASSUME NEW r \in Attempts, SetCooldown(r) PROVE TypeOK'
  <2>1. cooldowns' \in Nat
    BY <1>12, CooldownSet DEF SetCooldown, IInv, TypeOK
  <2>2. hits' \subseteq Attempts \X Nat /\ IsFiniteSet(hits')
          /\ expiry' \in [Attempts -> Nat]
    BY <1>12, CooldownSet DEF IInv
  <2>3. QED
    BY <1>12, <2>1, <2>2 DEF SetCooldown, IInv, TypeOK, Locations, Ended
<1>13. ASSUME NEW r \in Attempts, Upsert(r) PROVE TypeOK'
  BY <1>13 DEF Upsert, IInv, TypeOK, Locations, Ended
<1>14. ASSUME NEW r \in Attempts, UpsertFails(r) PROVE TypeOK'
  BY <1>14 DEF UpsertFails, IInv, TypeOK, Locations, Ended
<1>15. QED
  BY <1>1, <1>2, <1>3, <1>4, <1>5, <1>6, <1>7, <1>8, <1>9, <1>10, <1>11, <1>12, <1>13,
     <1>14 DEF Next, Step

\* An expiry is set once, and an attempt asks before now.
LEMMA ExpiryStep == ASSUME IInv, Next PROVE (ExpirySetOnce /\ AskedBefore)'
<1> USE DEF Move, Failure, NoRow, Failed
<1>1. CASE Tick
  BY <1>1 DEF Tick, IInv, TypeOK, ExpirySetOnce, AskedBefore, Ended, InFlight
<1>2. CASE Restart
  BY <1>2 DEF Restart, IInv, TypeOK, ExpirySetOnce, AskedBefore, Ended, InFlight
<1>3. ASSUME NEW r \in Attempts, Ask(r) PROVE (ExpirySetOnce /\ AskedBefore)'
  BY <1>3 DEF Ask, IInv, TypeOK, ExpirySetOnce, AskedBefore, Ended, InFlight
<1>4. ASSUME NEW r \in Attempts, Read(r) PROVE (ExpirySetOnce /\ AskedBefore)'
  BY <1>4 DEF Read, IInv, TypeOK, ExpirySetOnce, AskedBefore, Ended, InFlight
<1>5. ASSUME NEW r \in Attempts, ResumeExpired(r) PROVE (ExpirySetOnce /\ AskedBefore)'
  BY <1>5 DEF ResumeExpired, IInv, TypeOK, ExpirySetOnce, AskedBefore, Ended, InFlight
<1>6. ASSUME NEW r \in Attempts, ResumeCooling(r) PROVE (ExpirySetOnce /\ AskedBefore)'
  BY <1>6 DEF ResumeCooling, IInv, TypeOK, ExpirySetOnce, AskedBefore, Ended, InFlight
<1>7. ASSUME NEW r \in Attempts, ResumeInMemory(r) PROVE (ExpirySetOnce /\ AskedBefore)'
  BY <1>7 DEF ResumeInMemory, IInv, TypeOK, ExpirySetOnce, AskedBefore, Ended, InFlight
<1>8. ASSUME NEW r \in Attempts, Delete(r) PROVE (ExpirySetOnce /\ AskedBefore)'
  BY <1>8 DEF Delete, IInv, TypeOK, ExpirySetOnce, AskedBefore, Ended, InFlight
<1>9. ASSUME NEW r \in Attempts, Commit(r) PROVE (ExpirySetOnce /\ AskedBefore)'
  BY <1>9 DEF Commit, IInv, TypeOK, ExpirySetOnce, AskedBefore, Ended, InFlight
<1>10. ASSUME NEW r \in Attempts, Rollback(r) PROVE (ExpirySetOnce /\ AskedBefore)'
  BY <1>10 DEF Rollback, IInv, TypeOK, ExpirySetOnce, AskedBefore, Ended, InFlight
<1>11. ASSUME NEW r \in Attempts, Finish(r) PROVE (ExpirySetOnce /\ AskedBefore)'
  BY <1>11 DEF Finish, IInv, TypeOK, ExpirySetOnce, AskedBefore, Ended, InFlight
<1>12. ASSUME NEW r \in Attempts, SetCooldown(r) PROVE (ExpirySetOnce /\ AskedBefore)'
  BY <1>12, CooldownSet DEF SetCooldown, IInv, TypeOK, ExpirySetOnce, AskedBefore, Ended
<1>13. ASSUME NEW r \in Attempts, Upsert(r) PROVE (ExpirySetOnce /\ AskedBefore)'
  BY <1>13 DEF Upsert, IInv, TypeOK, ExpirySetOnce, AskedBefore, Ended, InFlight
<1>14. ASSUME NEW r \in Attempts, UpsertFails(r) PROVE (ExpirySetOnce /\ AskedBefore)'
  BY <1>14 DEF UpsertFails, IInv, TypeOK, ExpirySetOnce, AskedBefore, Ended, InFlight
<1>15. QED
  BY <1>1, <1>2, <1>3, <1>4, <1>5, <1>6, <1>7, <1>8, <1>9, <1>10, <1>11, <1>12, <1>13,
     <1>14 DEF Next, Step

\* An expiry that was set stays.
LEMMA ExpiryStays ==
    ASSUME IInv, Next, NEW s \in Attempts PROVE expiry'[s] >= expiry[s]
<1>1. \A r \in Attempts : expiry[r] \in Nat
  BY DEF IInv, TypeOK
<1>2. ASSUME NEW r \in Attempts, SetCooldown(r) PROVE expiry'[s] >= expiry[s]
  <2>1. expiry[r] = NoRow /\ expiry'[r] \in Nat
    BY <1>2, CooldownSet DEF SetCooldown, Move, IInv, ExpirySetOnce, Ended
  <2>2. QED
    BY <1>1, <1>2, <2>1, CooldownSet DEF NoRow, IInv
<1>3. CASE UNCHANGED expiry
  BY <1>1, <1>3
<1>4. QED
  BY <1>2, <1>3 DEF Next, Step, Tick, Restart, Ask, Read, ResumeExpired, ResumeCooling,
     ResumeInMemory, Delete, Commit, Rollback, Finish, Upsert, UpsertFails

LEMMA CoveredStays == ASSUME IInv, Next PROVE Covered \subseteq Covered'
<1>1. \A s \in Attempts : expiry[s] \in Int /\ expiry'[s] \in Int /\ expiry'[s] >= expiry[s]
  BY ExpiryStays, TypeStep DEF IInv, TypeOK
<1>2. QED
  BY <1>1 DEF Covered

LEMMA ExpiryCovered == ASSUME TypeOK, NEW s \in Attempts PROVE expiry[s] \in Covered
BY DEF Covered, TypeOK

\* What a step stores is an expiry, or what another copy held.
LEMMA CopiesStep == ASSUME IInv, Next PROVE CopiesCovered'
<1> USE DEF Move, Failure, NoRow, Failed
<1>0. NoRow \in Covered
  BY DEF Covered
<1>1. CASE Tick
  BY <1>1, CoveredStays, <1>0 DEF Tick, IInv, TypeOK, CopiesCovered
<1>2. CASE Restart
  BY <1>2, CoveredStays, <1>0 DEF Restart, IInv, TypeOK, CopiesCovered
<1>3. ASSUME NEW r \in Attempts, Ask(r) PROVE CopiesCovered'
  BY <1>3, CoveredStays, <1>0 DEF Ask, IInv, TypeOK, CopiesCovered
<1>4. ASSUME NEW r \in Attempts, Read(r) PROVE CopiesCovered'
  <2>1. Failed \in Covered
    BY DEF Covered, NoRow
  <2>2. QED
    BY <1>4, <2>1, CoveredStays DEF Read, IInv, TypeOK, CopiesCovered
<1>5. ASSUME NEW r \in Attempts, ResumeExpired(r) PROVE CopiesCovered'
  BY <1>5, CoveredStays, <1>0 DEF ResumeExpired, IInv, TypeOK, CopiesCovered
<1>6. ASSUME NEW r \in Attempts, ResumeCooling(r) PROVE CopiesCovered'
  BY <1>6, CoveredStays, <1>0 DEF ResumeCooling, IInv, TypeOK, CopiesCovered
<1>7. ASSUME NEW r \in Attempts, ResumeInMemory(r) PROVE CopiesCovered'
  BY <1>7, CoveredStays, <1>0 DEF ResumeInMemory, IInv, TypeOK, CopiesCovered
<1>8. ASSUME NEW r \in Attempts, Delete(r) PROVE CopiesCovered'
  BY <1>8, CoveredStays, <1>0 DEF Delete, IInv, TypeOK, CopiesCovered
<1>9. ASSUME NEW r \in Attempts, Commit(r) PROVE CopiesCovered'
  BY <1>9, CoveredStays, <1>0 DEF Commit, IInv, TypeOK, CopiesCovered
<1>10. ASSUME NEW r \in Attempts, Rollback(r) PROVE CopiesCovered'
  BY <1>10, CoveredStays, <1>0 DEF Rollback, IInv, TypeOK, CopiesCovered
<1>11. ASSUME NEW r \in Attempts, Finish(r) PROVE CopiesCovered'
  BY <1>11, CoveredStays, <1>0 DEF Finish, IInv, TypeOK, CopiesCovered
<1>12. ASSUME NEW r \in Attempts, SetCooldown(r) PROVE CopiesCovered'
  <2>1. cooldowns' \in Covered'
    <3>1. cooldowns' = expiry'[r] /\ expiry'[r] \in Int
      BY <1>12, TypeStep DEF SetCooldown, TypeOK
    <3>2. QED
      BY <3>1 DEF Covered
  <2>2. QED
    BY <1>12, <2>1, CoveredStays DEF SetCooldown, IInv, CopiesCovered
<1>13. ASSUME NEW r \in Attempts, Upsert(r) PROVE CopiesCovered'
  <2>1. row' \in Covered
    BY <1>13, ExpiryCovered DEF Upsert, IInv
  <2>2. QED
    BY <1>13, <2>1, CoveredStays DEF Upsert, IInv, CopiesCovered
<1>14. ASSUME NEW r \in Attempts, UpsertFails(r) PROVE CopiesCovered'
  BY <1>14, CoveredStays, <1>0 DEF UpsertFails, IInv, TypeOK, CopiesCovered
<1>15. QED
  BY <1>1, <1>2, <1>3, <1>4, <1>5, <1>6, <1>7, <1>8, <1>9, <1>10, <1>11, <1>12, <1>13,
     <1>14 DEF Next, Step

\* An attempt is turned away by a time that is covered.
LEMMA BlockedStep == ASSUME IInv, Next PROVE BlockedForCause'
<1>1. SUFFICES ASSUME NEW r \in Attempts, pc'[r] = "blocked"
               PROVE  \E s \in Attempts : expiry'[s] >= clock'[r]
  BY DEF BlockedForCause
<1>2. \A s \in Attempts : expiry[s] \in Int /\ expiry'[s] \in Int /\ expiry'[s] >= expiry[s]
  BY ExpiryStays, TypeStep DEF IInv, TypeOK
<1>3. clock[r] \in Nat
  BY DEF IInv, TypeOK
<1>4. CASE pc[r] = "blocked" /\ clock'[r] = clock[r]
  <2>1. PICK s \in Attempts : expiry[s] >= clock[r]
    BY <1>4 DEF IInv, BlockedForCause
  <2>2. QED
    BY <1>2, <1>3, <1>4, <2>1
<1>5. CASE /\ clock'[r] = clock[r]
           /\ \E t \in Covered : t > NoRow /\ clock[r] <= t
  <2>1. PICK s \in Attempts : expiry[s] >= clock[r]
    BY <1>2, <1>3, <1>5 DEF Covered, NoRow
  <2>2. QED
    BY <1>2, <1>3, <1>5, <2>1
<1>6. (pc[r] = "blocked" /\ clock'[r] = clock[r]) \/ ResumeCooling(r)
        \/ (ResumeInMemory(r) /\ pc'[r] = "blocked")
  BY <1>1 DEF Next, Step, Tick, Restart, Ask, Read, ResumeExpired, ResumeCooling,
     ResumeInMemory, Delete, Commit, Rollback, Finish, SetCooldown, Upsert, UpsertFails,
     Move, IInv, TypeOK
<1>7. CASE ResumeCooling(r)
  BY <1>5, <1>7 DEF ResumeCooling, IInv, CopiesCovered
<1>8. CASE ResumeInMemory(r) /\ pc'[r] = "blocked"
  <2>1. /\ clock' = clock /\ ~(clock[r] > cooldowns) /\ cooldowns # NoRow
        /\ cooldowns \in Nat /\ cooldowns \in Covered
    BY <1>8 DEF ResumeInMemory, Move, IInv, TypeOK, CopiesCovered
  <2>2. cooldowns > NoRow /\ clock[r] <= cooldowns
    BY <1>3, <2>1 DEF NoRow
  <2>3. QED
    BY <1>5, <2>1, <2>2
<1>9. QED
  BY <1>4, <1>6, <1>7, <1>8

\* The lock is given back when the transaction ends.
LEMMA LockStep == ASSUME IInv, Next PROVE LockHeld'
<1> USE DEF Move, Failure, NoRow, Failed
<1>1. CASE Tick
  BY <1>1 DEF Tick, IInv, TypeOK, LockHeld, InFlight, Ended
<1>2. CASE Restart
  BY <1>2 DEF Restart, IInv, TypeOK, LockHeld, InFlight, Ended
<1>3. ASSUME NEW r \in Attempts, Ask(r) PROVE LockHeld'
  BY <1>3 DEF Ask, IInv, TypeOK, LockHeld, InFlight, Ended
<1>4. ASSUME NEW r \in Attempts, Read(r) PROVE LockHeld'
  BY <1>4 DEF Read, IInv, TypeOK, LockHeld, InFlight, Ended
<1>5. ASSUME NEW r \in Attempts, ResumeExpired(r) PROVE LockHeld'
  BY <1>5 DEF ResumeExpired, IInv, TypeOK, LockHeld, InFlight, Ended
<1>6. ASSUME NEW r \in Attempts, ResumeCooling(r) PROVE LockHeld'
  BY <1>6 DEF ResumeCooling, IInv, TypeOK, LockHeld, InFlight, Ended
<1>7. ASSUME NEW r \in Attempts, ResumeInMemory(r) PROVE LockHeld'
  BY <1>7 DEF ResumeInMemory, IInv, TypeOK, LockHeld, InFlight, Ended
<1>8. ASSUME NEW r \in Attempts, Delete(r) PROVE LockHeld'
  BY <1>8 DEF Delete, IInv, TypeOK, LockHeld, InFlight, Ended
<1>9. ASSUME NEW r \in Attempts, Commit(r) PROVE LockHeld'
  BY <1>9 DEF Commit, IInv, TypeOK, LockHeld, InFlight, Ended
<1>10. ASSUME NEW r \in Attempts, Rollback(r) PROVE LockHeld'
  BY <1>10 DEF Rollback, IInv, TypeOK, LockHeld, InFlight, Ended
<1>11. ASSUME NEW r \in Attempts, Finish(r) PROVE LockHeld'
  BY <1>11 DEF Finish, IInv, TypeOK, LockHeld, InFlight, Ended
<1>12. ASSUME NEW r \in Attempts, SetCooldown(r) PROVE LockHeld'
  BY <1>12 DEF SetCooldown, IInv, TypeOK, LockHeld, InFlight, Ended
<1>13. ASSUME NEW r \in Attempts, Upsert(r) PROVE LockHeld'
  BY <1>13 DEF Upsert, IInv, TypeOK, LockHeld, InFlight, Ended
<1>14. ASSUME NEW r \in Attempts, UpsertFails(r) PROVE LockHeld'
  BY <1>14 DEF UpsertFails, IInv, TypeOK, LockHeld, InFlight, Ended
<1>15. QED
  BY <1>1, <1>2, <1>3, <1>4, <1>5, <1>6, <1>7, <1>8, <1>9, <1>10, <1>11, <1>12, <1>13,
     <1>14 DEF Next, Step

\* A second attempt under way is an overlap.
LEMMA AloneStep == ASSUME IInv, Next PROVE OneAtATime'
<1> USE DEF Move, Failure, NoRow, Failed
<1>1. CASE Tick
  BY <1>1 DEF Tick, IInv, TypeOK, OneAtATime, InFlight, Ended
<1>2. CASE Restart
  BY <1>2 DEF Restart, IInv, TypeOK, OneAtATime, InFlight, Ended
<1>3. ASSUME NEW r \in Attempts, Ask(r) PROVE OneAtATime'
  BY <1>3 DEF Ask, IInv, TypeOK, OneAtATime, InFlight, Ended
<1>4. ASSUME NEW r \in Attempts, Read(r) PROVE OneAtATime'
  BY <1>4 DEF Read, IInv, TypeOK, OneAtATime, InFlight, Ended
<1>5. ASSUME NEW r \in Attempts, ResumeExpired(r) PROVE OneAtATime'
  BY <1>5 DEF ResumeExpired, IInv, TypeOK, OneAtATime, InFlight, Ended
<1>6. ASSUME NEW r \in Attempts, ResumeCooling(r) PROVE OneAtATime'
  BY <1>6 DEF ResumeCooling, IInv, TypeOK, OneAtATime, InFlight, Ended
<1>7. ASSUME NEW r \in Attempts, ResumeInMemory(r) PROVE OneAtATime'
  BY <1>7 DEF ResumeInMemory, IInv, TypeOK, OneAtATime, InFlight, Ended
<1>8. ASSUME NEW r \in Attempts, Delete(r) PROVE OneAtATime'
  BY <1>8 DEF Delete, IInv, TypeOK, OneAtATime, InFlight, Ended
<1>9. ASSUME NEW r \in Attempts, Commit(r) PROVE OneAtATime'
  BY <1>9 DEF Commit, IInv, TypeOK, OneAtATime, InFlight, Ended
<1>10. ASSUME NEW r \in Attempts, Rollback(r) PROVE OneAtATime'
  BY <1>10 DEF Rollback, IInv, TypeOK, OneAtATime, InFlight, Ended
<1>11. ASSUME NEW r \in Attempts, Finish(r) PROVE OneAtATime'
  BY <1>11 DEF Finish, IInv, TypeOK, OneAtATime, InFlight, Ended
<1>12. ASSUME NEW r \in Attempts, SetCooldown(r) PROVE OneAtATime'
  BY <1>12 DEF SetCooldown, IInv, TypeOK, OneAtATime, InFlight, Ended
<1>13. ASSUME NEW r \in Attempts, Upsert(r) PROVE OneAtATime'
  BY <1>13 DEF Upsert, IInv, TypeOK, OneAtATime, InFlight, Ended
<1>14. ASSUME NEW r \in Attempts, UpsertFails(r) PROVE OneAtATime'
  BY <1>14 DEF UpsertFails, IInv, TypeOK, OneAtATime, InFlight, Ended
<1>15. QED
  BY <1>1, <1>2, <1>3, <1>4, <1>5, <1>6, <1>7, <1>8, <1>9, <1>10, <1>11, <1>12, <1>13,
     <1>14 DEF Next, Step

\* What one attempt at a time has read or set is not changed by another.
LEMMA CurrentStep == ASSUME IInv, Next PROVE ReadIsCurrent'
<1> USE DEF Move, Failure, NoRow, Failed
<1>1. CASE Tick
  BY <1>1 DEF Tick, IInv, TypeOK, OneAtATime, ReadIsCurrent, LockHeld, InFlight, Ended
<1>2. CASE Restart
  BY <1>2 DEF Restart, IInv, TypeOK, OneAtATime, ReadIsCurrent, LockHeld, InFlight,
     Ended
<1>3. ASSUME NEW r \in Attempts, Ask(r) PROVE ReadIsCurrent'
  BY <1>3 DEF Ask, IInv, TypeOK, OneAtATime, ReadIsCurrent, LockHeld, InFlight, Ended
<1>4. ASSUME NEW r \in Attempts, Read(r) PROVE ReadIsCurrent'
  BY <1>4 DEF Read, IInv, TypeOK, OneAtATime, ReadIsCurrent, LockHeld, InFlight, Ended
<1>5. ASSUME NEW r \in Attempts, ResumeExpired(r) PROVE ReadIsCurrent'
  BY <1>5 DEF ResumeExpired, IInv, TypeOK, OneAtATime, ReadIsCurrent, LockHeld,
     InFlight, Ended
<1>6. ASSUME NEW r \in Attempts, ResumeCooling(r) PROVE ReadIsCurrent'
  BY <1>6 DEF ResumeCooling, IInv, TypeOK, OneAtATime, ReadIsCurrent, LockHeld,
     InFlight, Ended
<1>7. ASSUME NEW r \in Attempts, ResumeInMemory(r) PROVE ReadIsCurrent'
  BY <1>7 DEF ResumeInMemory, IInv, TypeOK, OneAtATime, ReadIsCurrent, LockHeld,
     InFlight, Ended
<1>8. ASSUME NEW r \in Attempts, Delete(r) PROVE ReadIsCurrent'
  BY <1>8 DEF Delete, IInv, TypeOK, OneAtATime, ReadIsCurrent, LockHeld, InFlight, Ended
<1>9. ASSUME NEW r \in Attempts, Commit(r) PROVE ReadIsCurrent'
  BY <1>9 DEF Commit, IInv, TypeOK, OneAtATime, ReadIsCurrent, LockHeld, InFlight, Ended
<1>10. ASSUME NEW r \in Attempts, Rollback(r) PROVE ReadIsCurrent'
  BY <1>10 DEF Rollback, IInv, TypeOK, OneAtATime, ReadIsCurrent, LockHeld, InFlight,
     Ended
<1>11. ASSUME NEW r \in Attempts, Finish(r) PROVE ReadIsCurrent'
  BY <1>11 DEF Finish, IInv, TypeOK, OneAtATime, ReadIsCurrent, LockHeld, InFlight,
     Ended
<1>12. ASSUME NEW r \in Attempts, SetCooldown(r) PROVE ReadIsCurrent'
  BY <1>12 DEF SetCooldown, IInv, TypeOK, OneAtATime, ReadIsCurrent, LockHeld,
     InFlight, Ended
<1>13. ASSUME NEW r \in Attempts, Upsert(r) PROVE ReadIsCurrent'
  BY <1>13 DEF Upsert, IInv, TypeOK, OneAtATime, ReadIsCurrent, LockHeld, InFlight,
     Ended
<1>14. ASSUME NEW r \in Attempts, UpsertFails(r) PROVE ReadIsCurrent'
  BY <1>14 DEF UpsertFails, IInv, TypeOK, OneAtATime, ReadIsCurrent, LockHeld,
     InFlight, Ended
<1>15. QED
  BY <1>1, <1>2, <1>3, <1>4, <1>5, <1>6, <1>7, <1>8, <1>9, <1>10, <1>11, <1>12, <1>13,
     <1>14 DEF Next, Step

\* What stands after a step stood before it, unless it has just been saved.
LEMMA StandingBefore ==
    ASSUME IInv, Next, ~overlap', NEW s \in Attempts, Standing(s)'
    PROVE  Standing(s) \/ Upsert(s)
<1> USE DEF Move, Failure, NoRow, Failed
<1>1. /\ ~overlap /\ OneAtATime' /\ now' \in Nat /\ now \in Nat /\ now <= now'
      /\ \A r \in Attempts : clock[r] \in Nat /\ clock[r] <= now /\ expiry[r] \in Nat
  <2>1. ~overlap
    BY DEF Next, Step, Tick, Restart, Ask, Read, ResumeExpired, ResumeCooling,
       ResumeInMemory, Delete, Commit, Rollback, Finish, SetCooldown, Upsert,
       UpsertFails
  <2>2. now \in Nat /\ (now' = now \/ now' = now + 1)
    BY DEF Next, Step, Tick, Restart, Ask, Read, ResumeExpired, ResumeCooling,
       ResumeInMemory, Delete, Commit, Rollback, Finish, SetCooldown, Upsert,
       UpsertFails,
       IInv, TypeOK
  <2>3. QED
    BY <2>1, <2>2, AloneStep DEF IInv, TypeOK, AskedBefore
<1>2. SUFFICES ASSUME ~Upsert(s) PROVE Standing(s)
  OBVIOUS
<1>3. pc[s] = "done" /\ expiry[s] # NoRow /\ expiry'[s] = expiry[s]
  BY <1>2 DEF Next, Step, Tick, Restart, Ask, Read, ResumeExpired, ResumeCooling,
     ResumeInMemory, Delete, Commit, Rollback, Finish, SetCooldown, Upsert, UpsertFails,
     Standing, ExpirySetOnce, InFlight, Ended, IInv, TypeOK
<1>4. ASSUME InFlight = {} PROVE now <= expiry[s]
  <2>1. CASE InFlight' = {}
    BY <1>1, <1>3, <2>1 DEF Standing
  <2>2. CASE InFlight' # {}
    <3>1. PICK r \in Attempts : r \in InFlight'
      BY <2>2 DEF InFlight
    <3>2. clock'[r] = now
      BY <1>4, <3>1 DEF Next, Step, Tick, Restart, Ask, Read, ResumeExpired,
         ResumeCooling, ResumeInMemory, Delete, Commit, Rollback, Finish, SetCooldown,
         Upsert, UpsertFails, InFlight, Ended, IInv, TypeOK
    <3>3. QED
      BY <1>3, <3>1, <3>2 DEF Standing
  <2>3. QED
    BY <2>1, <2>2
<1>5. ASSUME NEW r \in InFlight PROVE clock[r] <= expiry[s]
  <2>1. clock'[r] = clock[r] /\ (r \in InFlight' \/ InFlight' = {})
    <3>1. \A q \in InFlight : q = r
      BY <1>1 DEF IInv, OneAtATime
    <3>2. \A q \in Attempts : q \in InFlight' => q \in InFlight \/ Ask(q)
      BY DEF Next, Step, Tick, Restart, Ask, Read, ResumeExpired,
         ResumeCooling, ResumeInMemory, Delete, Commit, Rollback, Finish, SetCooldown,
         Upsert, UpsertFails, InFlight, Ended, IInv, TypeOK
    <3>3. \A q \in Attempts : ~Ask(q)
      BY <1>5 DEF Ask
    <3>4. clock'[r] = clock[r]
      BY <3>3 DEF Next, Step, Tick, Restart, Read, ResumeExpired, ResumeCooling,
         ResumeInMemory, Delete, Commit, Rollback, Finish, SetCooldown, Upsert,
         UpsertFails
    <3>5. QED
      BY <3>1, <3>2, <3>3, <3>4 DEF InFlight
  <2>2. CASE r \in InFlight'
    BY <1>3, <2>1, <2>2 DEF Standing
  <2>3. CASE InFlight' = {}
    BY <1>1, <1>3, <1>5, <2>3 DEF Standing, InFlight
  <2>4. QED
    BY <2>1, <2>2, <2>3
<1>6. QED
  BY <1>3, <1>4, <1>5 DEF Standing

\* The two copies, for one expiry.
Keeps(s) ==
    /\ expiry[s] <= row
    /\ \/ expiry[s] <= cooldowns
       \/ failures = 1 /\ \A r \in Attempts : ~(pc[r] = "resume" /\ seen[r] = Failed)

LEMMA RowStep == ASSUME IInv, Next PROVE RowKeeps'
<1> USE DEF Move, Failure, NoRow, Failed
<1>1. SUFFICES ASSUME ~overlap', failures' <= 1, NEW s \in Attempts, Standing(s)'
               PROVE  Keeps(s)'
  BY DEF RowKeeps, Keeps
<1>2. /\ ~overlap /\ failures <= 1 /\ failures \in Nat /\ row \in Nat /\ cooldowns \in Nat
      /\ expiry[s] \in Nat /\ \A r \in Attempts : clock[r] \in Nat
  BY <1>1 DEF Next, Step, Tick, Restart, Ask, Read, ResumeExpired, ResumeCooling,
     ResumeInMemory, Delete, Commit, Rollback, Finish, SetCooldown, Upsert, UpsertFails,
     IInv, TypeOK
<1>3. CASE Upsert(s)
  <2>1. cooldowns = expiry[s]
    BY <1>2, <1>3 DEF Upsert, IInv, ReadIsCurrent
  <2>2. QED
    BY <1>2, <1>3, <2>1 DEF Upsert, Keeps
<1>4. CASE Standing(s) /\ ~Upsert(s)
  <2>1. Keeps(s) /\ expiry[s] > 0
    BY <1>2, <1>4 DEF IInv, RowKeeps, Keeps, Standing
  <2>2. \A r \in Attempts : pc[r] \notin {"delete", "free", "call", "upsert"}
    BY <1>2, <1>4 DEF IInv, FreeFoundNone
  <2>3. \A r \in InFlight : clock[r] <= expiry[s]
    BY <1>4 DEF Standing
  <2>4. pc[s] = "done" /\ expiry'[s] = expiry[s]
    BY <1>4, <2>2 DEF Standing, Next, Step, Tick, Restart, Ask, Read, ResumeExpired,
       ResumeCooling, ResumeInMemory, Delete, Commit, Rollback, Finish, SetCooldown,
       Upsert, UpsertFails, IInv, TypeOK
  <2>5. CASE Tick
    BY <2>1, <2>4, <2>5 DEF Tick, Keeps
  <2>6. CASE Restart
    BY <1>1, <1>2, <2>1, <2>4, <2>6 DEF Restart, Keeps, InFlight, Ended, IInv, TypeOK
  <2>7. ASSUME NEW r \in Attempts, Ask(r) PROVE Keeps(s)'
    BY <2>1, <2>4, <2>7 DEF Ask, Keeps, IInv, TypeOK
  <2>8. ASSUME NEW r \in Attempts, Read(r) PROVE Keeps(s)'
    BY <1>1, <1>2, <2>1, <2>4, <2>8 DEF Read, Keeps, IInv, TypeOK
  <2>9. ASSUME NEW r \in Attempts, ResumeExpired(r) PROVE FALSE
    <3>1. seen[r] = row /\ clock[r] > row /\ clock[r] <= expiry[s]
      BY <1>2, <2>3, <2>9 DEF ResumeExpired, IInv, ReadIsCurrent, InFlight, Ended
    <3>2. QED
      BY <1>2, <2>1, <3>1 DEF Keeps
  <2>10. ASSUME NEW r \in Attempts, ResumeCooling(r) PROVE Keeps(s)'
    <3>1. seen[r] = row
      BY <1>2, <2>10 DEF ResumeCooling, IInv, ReadIsCurrent
    <3>2. QED
      BY <1>2, <2>1, <2>4, <2>10, <3>1 DEF ResumeCooling, Keeps
  <2>11. ASSUME NEW r \in Attempts, ResumeInMemory(r) PROVE Keeps(s)'
    <3>1. clock[r] <= expiry[s]
      BY <2>3, <2>11 DEF ResumeInMemory, InFlight, Ended
    <3>2. seen[r] = Failed
      BY <1>2, <2>1, <2>11 DEF ResumeInMemory, IInv, ReadIsCurrent, Keeps
    <3>3. expiry[s] <= cooldowns
      BY <2>1, <2>11, <3>2 DEF ResumeInMemory, Keeps
    <3>4. UNCHANGED <<row, cooldowns>>
      BY <1>2, <2>11, <3>1, <3>3 DEF ResumeInMemory
    <3>5. QED
      BY <2>1, <2>4, <3>3, <3>4 DEF Keeps
  <2>12. ASSUME NEW r \in Attempts, Commit(r) \/ Rollback(r) PROVE Keeps(s)'
    <3>1. r \notin locker
      BY <2>2 DEF IInv, LockHeld, TypeOK
    <3>2. QED
      BY <2>1, <2>4, <2>12, <3>1 DEF Commit, Rollback, Keeps, IInv, TypeOK
  <2>13. ASSUME NEW r \in Attempts,
                Delete(r) \/ Finish(r) \/ SetCooldown(r) \/ Upsert(r) \/ UpsertFails(r)
         PROVE  FALSE
    BY <2>2, <2>13 DEF Delete, Finish, SetCooldown, Upsert, UpsertFails
  <2>14. QED
    BY <2>5, <2>6, <2>7, <2>8, <2>9, <2>10, <2>11, <2>12, <2>13 DEF Next, Step
<1>5. QED
  BY <1>1, <1>3, <1>4, StandingBefore

LEMMA FreeStep == ASSUME IInv, Next PROVE FreeFoundNone'
<1> USE DEF Move, Failure, NoRow, Failed
<1>1. SUFFICES ASSUME ~overlap', failures' <= 1, NEW r \in Attempts,
                      pc'[r] \in {"delete", "free", "call", "upsert"},
                      NEW s \in Attempts, Standing(s)'
               PROVE  FALSE
  BY DEF FreeFoundNone
<1>2. /\ ~overlap /\ failures <= 1 /\ failures \in Nat /\ row \in Nat /\ cooldowns \in Nat
      /\ expiry[s] \in Nat /\ \A q \in Attempts : clock[q] \in Nat
  BY <1>1 DEF Next, Step, Tick, Restart, Ask, Read, ResumeExpired, ResumeCooling,
     ResumeInMemory, Delete, Commit, Rollback, Finish, SetCooldown, Upsert, UpsertFails,
     IInv, TypeOK
<1>3. CASE Upsert(s)
  BY <1>1, <1>2, <1>3 DEF Upsert, IInv, TypeOK, OneAtATime, InFlight, Ended
<1>4. CASE Standing(s)
  <2>1. expiry[s] > 0 /\ Keeps(s)
    BY <1>2, <1>4 DEF IInv, RowKeeps, Keeps, Standing
  <2>2. pc[r] \notin {"delete", "free", "call", "upsert"}
    BY <1>2, <1>4 DEF IInv, FreeFoundNone
  <2>3. ResumeExpired(r) \/ (ResumeInMemory(r) /\ pc'[r] = "free")
    BY <1>1, <2>2 DEF Next, Step, Tick, Restart, Ask, Read, ResumeExpired,
       ResumeCooling,
       ResumeInMemory, Delete, Commit, Rollback, Finish, SetCooldown, Upsert,
       UpsertFails,
       IInv, TypeOK
  <2>4. clock[r] <= expiry[s] /\ (seen[r] # Failed => seen[r] = row)
    BY <1>2, <1>4, <2>3 DEF ResumeExpired, ResumeInMemory, Standing, InFlight, Ended,
       IInv,
       ReadIsCurrent
  <2>5. CASE ResumeExpired(r)
    BY <1>2, <2>1, <2>4, <2>5 DEF ResumeExpired, Keeps
  <2>6. CASE ResumeInMemory(r) /\ pc'[r] = "free"
    <3>1. seen[r] = Failed
      BY <1>2, <2>1, <2>4, <2>6 DEF ResumeInMemory, Keeps
    <3>2. expiry[s] <= cooldowns
      BY <2>1, <2>6, <3>1 DEF ResumeInMemory, Keeps
    <3>3. QED
      BY <1>2, <2>1, <2>4, <2>6, <3>2 DEF ResumeInMemory, IInv, TypeOK
  <2>7. QED
    BY <2>3, <2>5, <2>6
<1>5. QED
  BY <1>1, <1>3, <1>4, StandingBefore

-----------------------------------------------------------------------------
(* The theorems.                                                            *)

LEMMA InitInv == ASSUME Init PROVE IInv
<1> USE DEF NoRow, Failed
<1>1. TypeOK
  <2>1. IsFiniteSet(hits) /\ hits \subseteq Attempts \X Nat
    BY FS_EmptySet DEF Init
  <2>2. pc \in [Attempts -> Locations]
    BY DEF Init, Locations
  <2>3. {now, cooldowns, row, failures} \subseteq Nat /\ locker = {}
    BY DEF Init
  <2>4. /\ clock \in [Attempts -> Nat] /\ seen \in [Attempts -> Nat \cup {Failed}]
        /\ expiry \in [Attempts -> Nat]
    BY DEF Init
  <2>5. overlap \in BOOLEAN
    BY DEF Init
  <2>6. QED
    BY <2>1, <2>2, <2>3, <2>4, <2>5 DEF TypeOK
<1>2. ExpirySetOnce /\ AskedBefore /\ CopiesCovered /\ BlockedForCause /\ LockHeld
  BY DEF Init, ExpirySetOnce, AskedBefore, CopiesCovered, Covered, BlockedForCause,
     LockHeld
<1>3. OneAtATime /\ ReadIsCurrent /\ RowKeeps /\ FreeFoundNone
  BY DEF Init, OneAtATime, InFlight, ReadIsCurrent, RowKeeps, FreeFoundNone, Standing
<1>4. QED
  BY <1>1, <1>2, <1>3 DEF IInv

LEMMA StutterInv == ASSUME IInv, UNCHANGED vars PROVE IInv'
BY DEF IInv, vars, TypeOK, ExpirySetOnce, AskedBefore, CopiesCovered, Covered,
       BlockedForCause, LockHeld, OneAtATime, InFlight, ReadIsCurrent, RowKeeps,
       Standing,
       FreeFoundNone

LEMMA Invariance == Spec => []IInv
<1>1. IInv /\ [Next]_vars => IInv'
  BY TypeStep, ExpiryStep, CopiesStep, BlockedStep, LockStep, AloneStep, CurrentStep,
     RowStep, FreeStep, StutterInv DEF IInv
<1>2. QED
  BY InitInv, <1>1, PTL DEF Spec

\* The two copies, the attempts and their times are well typed.
THEOREM TypeCorrect == Spec => []TypeOK
<1>1. IInv => TypeOK
  BY DEF IInv
<1>2. QED
  BY Invariance, <1>1, PTL

\* No interleaving of the two copies revives a cooldown that has expired.
THEOREM BlockedOnlyForCause == Spec => []BlockedForCause
<1>1. IInv => BlockedForCause
  BY DEF IInv
<1>2. QED
  BY Invariance, <1>1, PTL

\* One attempt at a time and one failure: the key stays quarantined.
THEOREM CooldownIsKept == Spec => []CooldownKept
<1>1. ASSUME IInv PROVE CooldownKept
  <2>1. SUFFICES ASSUME ~overlap, failures <= 1, InFlight = {}, NEW r \in Attempts,
                        pc[r] = "done", expiry[r] >= now, expiry[r] # NoRow
                 PROVE  Effective >= expiry[r]
    BY <1>1 DEF CooldownKept, Effective, IInv, TypeOK, NoRow
  <2>2. expiry[r] \in Nat /\ row \in Nat /\ now \in Nat
    BY <1>1 DEF IInv, TypeOK
  <2>3. Standing(r)
    BY <2>1, <2>2 DEF Standing
  <2>4. expiry[r] <= row
    BY <1>1, <2>1, <2>3 DEF IInv, RowKeeps
  <2>5. QED
    BY <2>1, <2>2, <2>4 DEF Effective, NoRow
<1>2. QED
  BY Invariance, <1>1, PTL

=============================================================================
