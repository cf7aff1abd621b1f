--------------------------- MODULE RateLedgerProofs ---------------------------
(***************************************************************************)
(* Proofs about RateLedger, for every set of attempts, pool size, limit,    *)
(* window length and number of faults and restarts.                         *)
(*                                                                          *)
(* RequestOvershootBounded is not inductive: a COMMIT adds a row without    *)
(* looking at the counters again.  Overshoot counts, beside the committed   *)
(* rows, the transactions that have passed the check and may still commit.  *)
(***************************************************************************)
EXTENDS RateLedger, FiniteSetTheorems, TLAPS

\* Where a transaction stands once its check c of rpm or of rpd has passed.
Past(c) == {"tpm", "tpd", "insertRequest", "insertTokens", "commit"}
             \cup (IF c = "rpm" THEN {"rpd"} ELSE {})

\* Transactions that have passed a check and can still commit rows.
Passed(past) == {r \in Attempts : pc[r] \in past /\ r \notin aborted}

Overshoot(limit, length, past) ==
    limit # NoLimit
      => RequestsInWindow(length) + Cardinality(Passed(past))
           <= limit + (PoolMax - 1)

\* A transaction inserts one request row, when its checks are behind it.
OneRequest ==
    \A r \in Attempts :
        /\ \A x, y \in Requests(pending[r]) : x = y
        /\ Requests(pending[r]) # {}
             => pc[r] \in {"insertTokens", "commit"}
                  \/ (pc[r] = "insertRequest" /\ r \in pruning)

PoolInv == Cardinality(Open) <= PoolMax
ClockInv == \A r \in Attempts : clock[r] <= now
FiniteInv == IsFiniteSet(Requests(usage))

IInv ==
    /\ TypeOK
    /\ FiniteInv /\ ClockInv /\ PoolInv /\ OneRequest
    /\ \A c \in {"rpm", "rpd"} : Overshoot(Limit(c), WindowMs(c), Past(c))

-----------------------------------------------------------------------------
(* Typing.                                                                  *)

\* What recordRequest and recordTokens write is a row of the table.
LEMMA RowOfType ==
    ASSUME TypeOK, NEW r \in Attempts
    PROVE  RowOf(r) \in Rows
<1>1. est[r] \in Nat /\ charge[r] \in Nat /\ clock[r] \in Nat
  BY DEF TypeOK
<1>2. charge[r] - est[r] \in Int
  BY <1>1
<1> QED
  BY <1>1, <1>2 DEF RowOf, Rows, Kinds

\* The call of an attempt returns to a location of the program, and no attempt
\* but this one leaves a prune that is running.
LEMMA GoToType ==
    ASSUME TypeOK, NEW r \in Attempts, NEW l \in Locations, GoTo(r, l)
    PROVE  /\ pc' \in [Attempts -> Locations]
           /\ clock' \in [Attempts -> Nat]
           /\ \A s \in pruning \ {r} : pc'[s] \in Recordings
BY DEF TypeOK, GoTo

LEMMA FollowingType ==
    ASSUME NEW c \in Checks \cup Recordings
    PROVE  Following(c) \in Locations
BY DEF Following, Checks, Recordings, Locations

LEMMA InitType == Init => TypeOK
BY LimitAssumption, SizeAssumption
   DEF Init, TypeOK, Locations, Checks, Recordings

LEMMA NextType == TypeOK /\ [Next]_vars => TypeOK'
<1> SUFFICES ASSUME TypeOK, [Next]_vars PROVE TypeOK'
  OBVIOUS
<1>1. CASE Tick
  BY <1>1, SizeAssumption DEF TypeOK, Tick
<1>2. CASE Restart
  BY <1>2, SizeAssumption DEF TypeOK, Restart, Locations
<1>3. ASSUME NEW r \in Attempts, Begin(r) PROVE TypeOK'
  <2>1. GoTo(r, "rpm") /\ "rpm" \in Locations
    BY <1>3 DEF Begin, Locations, Checks
  <2>2. /\ pc' \in [Attempts -> Locations]
        /\ clock' \in [Attempts -> Nat]
        /\ \A s \in pruning \ {r} : pc'[s] \in Recordings
    BY <2>1, GoToType
  <2>3. est' \in [Attempts -> Nat]
    BY <1>3, TokenAssumption DEF Begin, TypeOK
  <2> QED
    BY <1>3, <2>2, <2>3 DEF Begin, TypeOK, Recordings
<1>4. ASSUME NEW r \in Attempts, SkipCheck(r) PROVE TypeOK'
  <2>1. GoTo(r, Following(pc[r])) /\ Following(pc[r]) \in Locations
    BY <1>4, FollowingType DEF SkipCheck
  <2>2. /\ pc' \in [Attempts -> Locations]
        /\ clock' \in [Attempts -> Nat]
        /\ \A s \in pruning \ {r} : pc'[s] \in Recordings
    BY <2>1, GoToType
  <2> QED
    BY <1>4, <2>2 DEF SkipCheck, TypeOK, Checks, Recordings
<1>5. ASSUME NEW r \in Attempts, NEW used, pc[r] \in Checks, Verdict(r, used)
      PROVE  /\ pc' \in [Attempts -> Locations]
             /\ clock' \in [Attempts -> Nat]
             /\ \A s \in pruning \ {r} : pc'[s] \in Recordings
  <2> DEFINE l == IF Admits(pc[r], r, used) THEN Following(pc[r]) ELSE "denied"
  <2>1. l \in Locations
    BY <1>5, FollowingType DEF Locations
  <2>2. GoTo(r, l)
    BY <1>5 DEF Verdict
  <2> QED
    BY <2>1, <2>2, GoToType
<1>6. ASSUME NEW r \in Attempts, Check(r) PROVE TypeOK'
  <2>1. /\ pc' \in [Attempts -> Locations]
        /\ clock' \in [Attempts -> Nat]
        /\ \A s \in pruning \ {r} : pc'[s] \in Recordings
    BY <1>5, <1>6 DEF Check
  <2> QED
    BY <1>6, <2>1 DEF Check, TypeOK, Checks, Recordings
<1>7. ASSUME NEW r \in Attempts, StatementFails(r)
      PROVE  faults' \in Nat /\ aborted' \subseteq Attempts
  BY <1>7 DEF StatementFails, TypeOK, InTransaction
<1>8. ASSUME NEW r \in Attempts, CheckInMemory(r) PROVE TypeOK'
  <2>1. /\ pc' \in [Attempts -> Locations]
        /\ clock' \in [Attempts -> Nat]
        /\ \A s \in pruning \ {r} : pc'[s] \in Recordings
    BY <1>5, <1>8 DEF CheckInMemory
  <2>2. windows' \in [Checks -> SUBSET Rows]
    BY <1>8 DEF CheckInMemory, TypeOK, Recent
  <2> QED
    BY <1>7, <1>8, <2>1, <2>2 DEF CheckInMemory, TypeOK, Checks, Recordings
<1>9. ASSUME NEW r \in Attempts, Leave(r) PROVE TypeOK'
  <2>1. /\ pc' \in [Attempts -> Locations]
        /\ clock' \in [Attempts -> Nat]
        /\ \A s \in pruning \ {r} : pc'[s] \in Recordings
    BY <1>9, GoToType DEF Leave, Locations
  <2> QED
    BY <1>9, <2>1 DEF Leave, TypeOK, Recordings
<1>10. ASSUME NEW r \in Attempts, pc[r] \in Recordings
       PROVE  Following(pc[r]) \in Locations
  BY <1>10, FollowingType
<1>11. ASSUME NEW r \in Attempts, Insert(r) PROVE TypeOK'
  <2>1. usage' \subseteq Rows /\ pending' \in [Attempts -> SUBSET Rows]
    BY <1>11, RowOfType DEF Insert, TypeOK
  <2>2. CASE PruneDue(r)
    BY <1>11, <2>1, <2>2 DEF Insert, TypeOK
  <2>3. CASE ~PruneDue(r)
    <3>1. GoTo(r, Following(pc[r])) /\ r \notin pruning /\ pruning' = pruning
      BY <1>11, <2>3 DEF Insert
    <3>2. /\ pc' \in [Attempts -> Locations]
          /\ clock' \in [Attempts -> Nat]
          /\ \A s \in pruning \ {r} : pc'[s] \in Recordings
      BY <1>10, <1>11, <3>1, GoToType DEF Insert
    <3> QED
      BY <1>11, <2>1, <3>1, <3>2 DEF Insert, TypeOK
  <2> QED
    BY <2>2, <2>3
<1>12. ASSUME NEW r \in Attempts, Prune(r) PROVE TypeOK'
  <2>1. /\ pc' \in [Attempts -> Locations]
        /\ clock' \in [Attempts -> Nat]
        /\ \A s \in pruning \ {r} : pc'[s] \in Recordings
    BY <1>10, <1>12, GoToType DEF Prune, TypeOK
  <2>2. usage' \subseteq Rows /\ doomed' \in [Attempts -> SUBSET Rows]
    BY <1>12 DEF Prune, TypeOK, Expired
  <2>3. lastPruneMs' \in Int
    BY <1>12 DEF Prune, TypeOK
  <2> QED
    BY <1>12, <2>1, <2>2, <2>3 DEF Prune, TypeOK
<1>13. ASSUME NEW r \in Attempts, RecordInMemory(r) PROVE TypeOK'
  <2>1. /\ pc' \in [Attempts -> Locations]
        /\ clock' \in [Attempts -> Nat]
        /\ \A s \in pruning \ {r} : pc'[s] \in Recordings
    BY <1>10, <1>13, GoToType DEF RecordInMemory
  <2>2. windows' \in [Checks -> SUBSET Rows]
    BY <1>13, RowOfType DEF RecordInMemory, TypeOK
  <2> QED
    BY <1>7, <1>13, <2>1, <2>2 DEF RecordInMemory, TypeOK
<1>14. ASSUME NEW r \in Attempts, EndTransaction(r)
       PROVE  /\ pending' \in [Attempts -> SUBSET Rows]
              /\ doomed' \in [Attempts -> SUBSET Rows]
              /\ aborted' \subseteq Attempts
  BY <1>14 DEF EndTransaction, TypeOK
<1>15. ASSUME NEW r \in Attempts
       PROVE  (usage \ doomed[r]) \cup pending[r] \subseteq Rows
  BY DEF TypeOK
<1>16. ASSUME NEW r \in Attempts, Commit(r) PROVE TypeOK'
  <2>1. /\ pc' \in [Attempts -> Locations]
        /\ clock' \in [Attempts -> Nat]
        /\ \A s \in pruning \ {r} : pc'[s] \in Recordings
    BY <1>16, GoToType DEF Commit, Locations
  <2>2. usage' \subseteq Rows /\ charge' \in [Attempts -> Nat]
    BY <1>15, <1>16 DEF Commit, TypeOK
  <2> QED
    BY <1>14, <1>16, <2>1, <2>2 DEF Commit, TypeOK, Recordings
<1>17. ASSUME NEW r \in Attempts, CommitFails(r) PROVE TypeOK'
  <2>1. /\ pc' \in [Attempts -> Locations]
        /\ clock' \in [Attempts -> Nat]
        /\ \A s \in pruning \ {r} : pc'[s] \in Recordings
    BY <1>17, GoToType DEF CommitFails, Locations
  <2>2. usage' \subseteq Rows
    BY <1>15, <1>17 DEF CommitFails, TypeOK
  <2> QED
    BY <1>14, <1>17, <2>1, <2>2 DEF CommitFails, TypeOK, Recordings
<1>18. ASSUME NEW r \in Attempts, NEW n \in Nat, NEW l \in Locations,
              Answered(r, n, l)
       PROVE  TypeOK'
  <2>1. /\ pc' \in [Attempts -> Locations]
        /\ clock' \in [Attempts -> Nat]
        /\ \A s \in pruning \ {r} : pc'[s] \in Recordings
    BY <1>18, GoToType DEF Answered
  <2> QED
    BY <1>18, <2>1 DEF Answered, TypeOK, Recordings
<1>19. ASSUME NEW r \in Attempts, Succeed(r) \/ Fail(r) \/ CutOff(r)
       PROVE  TypeOK'
  <2>1. {"settle", "done"} \subseteq Locations
    BY DEF Locations, Recordings
  <2>2. CASE Succeed(r)
    BY <1>18, <2>1, <2>2, TokenAssumption DEF Succeed
  <2>3. CASE Fail(r)
    BY <1>18, <2>1, <2>3 DEF Fail
  <2>4. CASE CutOff(r)
    BY <1>18, <2>1, <2>4 DEF CutOff, TypeOK
  <2> QED
    BY <1>19, <2>2, <2>3, <2>4
<1>20. CASE UNCHANGED vars
  BY <1>20 DEF vars, TypeOK
<1> QED
  BY <1>1, <1>2, <1>3, <1>4, <1>6, <1>8, <1>9, <1>11, <1>12, <1>13, <1>16,
     <1>17, <1>19, <1>20 DEF Next, Step

\* TypeOK holds in every reachable state, for every value of the constants.
THEOREM TypeCorrect == Spec => []TypeOK
BY InitType, NextType, PTL DEF Spec

-----------------------------------------------------------------------------
(* Counting requests in a window.                                           *)

LEMMA AddOne ==
    ASSUME NEW S, NEW x, IsFiniteSet(S)
    PROVE  /\ IsFiniteSet(S \cup {x})
           /\ Cardinality(S \cup {x}) \in Nat
           /\ Cardinality(S \cup {x}) <= Cardinality(S) + 1
<1>1. /\ IsFiniteSet(S \cup {x})
      /\ Cardinality(S \cup {x})
           = IF x \in S THEN Cardinality(S) ELSE Cardinality(S) + 1
  BY FS_AddElement
<1>2. Cardinality(S) \in Nat
  BY FS_CardinalityType
<1> QED
  BY <1>1, <1>2

\* Requests of a window are requests of the table.
LEMMA WindowFinite ==
    ASSUME FiniteInv, NEW length, NEW t
    PROVE  /\ IsFiniteSet(Requests(Recent(usage, length, t)))
           /\ Cardinality(Requests(Recent(usage, length, t))) \in Nat
<1>1. Requests(Recent(usage, length, t)) \subseteq Requests(usage)
  BY DEF Requests, Recent
<1> QED
  BY <1>1, FS_Subset, FS_CardinalityType DEF FiniteInv

LEMMA PassedFinite ==
    ASSUME NEW past
    PROVE  IsFiniteSet(Passed(past)) /\ Cardinality(Passed(past)) \in Nat
BY FS_Subset, FS_CardinalityType, SizeAssumption DEF Passed, SizeAssumption

\* A step that adds no request row and lets no transaction pass the check
\* keeps the bound: time only takes rows out of the window.
LEMMA NoAdmission ==
    ASSUME TypeOK, TypeOK', FiniteInv, FiniteInv',
           NEW limit \in Nat \cup {NoLimit}, NEW length \in Nat, NEW past,
           Overshoot(limit, length, past),
           Requests(usage') \subseteq Requests(usage),
           now' >= now,
           Passed(past)' \subseteq Passed(past)
    PROVE  Overshoot(limit, length, past)'
<1>1. Requests(Recent(usage', length, now'))
        \subseteq Requests(Recent(usage, length, now))
  <2> SUFFICES ASSUME NEW x \in Requests(usage'), x.at > now' - length
               PROVE  x \in Requests(usage) /\ x.at > now - length
    BY DEF Requests, Recent
  <2>1. x \in Rows
    BY DEF Requests, TypeOK
  <2>2. x.at \in Nat /\ now \in Nat /\ now' \in Nat
    BY <2>1 DEF Rows, TypeOK
  <2> QED
    BY <2>2
<1>2. RequestsInWindow(length)' <= RequestsInWindow(length)
  BY <1>1, WindowFinite, FS_Subset DEF RequestsInWindow
<1>3. Cardinality(Passed(past)') <= Cardinality(Passed(past))
  BY PassedFinite, FS_Subset
<1>4. /\ RequestsInWindow(length) \in Nat /\ Cardinality(Passed(past)) \in Nat
      /\ RequestsInWindow(length)' \in Nat /\ Cardinality(Passed(past)') \in Nat
  <2>1. RequestsInWindow(length) \in Nat /\ Cardinality(Passed(past)) \in Nat
    BY WindowFinite, PassedFinite DEF RequestsInWindow
  <2>2. IsFiniteSet(Passed(past)') /\ Cardinality(Passed(past)') \in Nat
    BY PassedFinite, FS_Subset, FS_CardinalityType
  <2>3. IsFiniteSet(Requests(Recent(usage', length, now')))
    BY <1>1, WindowFinite, FS_Subset
  <2>4. RequestsInWindow(length)' \in Nat
    BY <2>3, FS_CardinalityType DEF RequestsInWindow
  <2> QED
    BY <2>1, <2>2, <2>4
<1> QED
  BY <1>2, <1>3, <1>4, SizeAssumption DEF Overshoot, SizeAssumption

\* The step of a check that finds less than the limit: the window of the time
\* it captured holds at least the rows of the window of today, and no more
\* transactions can have passed than the pool has connections.
LEMMA Admission ==
    ASSUME TypeOK, FiniteInv, ClockInv, PoolInv',
           NEW limit \in Nat, NEW length \in Nat, NEW past,
           NEW r \in Attempts,
           Cardinality(Requests(Recent(usage, length, clock[r]))) < limit,
           usage' = usage, now' = now,
           Passed(past)' \subseteq Open'
    PROVE  Overshoot(limit, length, past)'
<1>1. Requests(Recent(usage, length, now))
        \subseteq Requests(Recent(usage, length, clock[r]))
  <2> SUFFICES ASSUME NEW x \in Requests(usage), x.at > now - length
               PROVE  x.at > clock[r] - length
    BY DEF Requests, Recent
  <2>1. x \in Rows
    BY DEF Requests, TypeOK
  <2>2. x.at \in Nat /\ now \in Nat /\ clock[r] \in Nat /\ clock[r] <= now
    BY <2>1 DEF Rows, TypeOK, ClockInv
  <2> QED
    BY <2>2
<1>2. RequestsInWindow(length) < limit /\ RequestsInWindow(length) \in Nat
  BY <1>1, WindowFinite, FS_Subset DEF RequestsInWindow
<1>3. RequestsInWindow(length)' = RequestsInWindow(length)
  BY DEF RequestsInWindow
<1>4. /\ Cardinality(Passed(past)') \in Nat
      /\ Cardinality(Passed(past)') <= PoolMax
  <2>1. Open' \subseteq Attempts
    BY DEF Open
  <2>2. IsFiniteSet(Open') /\ Cardinality(Open') \in Nat
    BY <2>1, FS_Subset, FS_CardinalityType, SizeAssumption DEF SizeAssumption
  <2>3. /\ IsFiniteSet(Passed(past)')
        /\ Cardinality(Passed(past)') <= Cardinality(Open')
    BY <2>2, FS_Subset
  <2>4. Cardinality(Passed(past)') \in Nat
    BY <2>3, FS_CardinalityType
  <2> QED
    BY <2>2, <2>3, <2>4, SizeAssumption DEF PoolInv, SizeAssumption
<1> QED
  BY <1>2, <1>3, <1>4, SizeAssumption DEF Overshoot, SizeAssumption

\* A COMMIT turns a transaction that has passed into at most one more row.
LEMMA Admitted ==
    ASSUME TypeOK, FiniteInv, OneRequest,
           NEW limit \in Nat \cup {NoLimit}, NEW length \in Nat, NEW past,
           NEW r \in Attempts,
           Overshoot(limit, length, past),
           r \in Passed(past), Passed(past)' = Passed(past) \ {r},
           Requests(usage') \subseteq Requests(usage) \cup Requests(pending[r]),
           now' = now
    PROVE  Overshoot(limit, length, past)'
<1> DEFINE W == Requests(Recent(usage, length, now))
<1> DEFINE V == Requests(Recent(usage', length, now))
<1>1. IsFiniteSet(W) /\ Cardinality(W) \in Nat
  BY WindowFinite
<1>2. PICK x : V \subseteq W \cup {x}
  <2>1. V \subseteq W \cup Requests(pending[r])
    BY DEF Requests, Recent
  <2>2. \A y, z \in Requests(pending[r]) : y = z
    BY DEF OneRequest
  <2>3. \E x : Requests(pending[r]) \subseteq {x}
    BY <2>2
  <2> QED
    BY <2>1, <2>3
<1>3. /\ IsFiniteSet(W \cup {x}) /\ Cardinality(W \cup {x}) \in Nat
      /\ Cardinality(W \cup {x}) <= Cardinality(W) + 1
  BY <1>1, AddOne
<1>4. IsFiniteSet(V) /\ Cardinality(V) <= Cardinality(W \cup {x})
  BY <1>2, <1>3, FS_Subset
<1>5. Cardinality(V) \in Nat
  BY <1>4, FS_CardinalityType
<1>6. /\ Cardinality(Passed(past)) \in Nat
      /\ Cardinality(Passed(past)') = Cardinality(Passed(past)) - 1
  BY PassedFinite, FS_RemoveElement
<1>7. /\ RequestsInWindow(length) = Cardinality(W)
      /\ RequestsInWindow(length)' = Cardinality(V)
  BY DEF RequestsInWindow
<1>8. CASE limit = NoLimit
  BY <1>8 DEF Overshoot
<1>9. CASE limit # NoLimit
  <2> HIDE DEF W, V
  <2>1. RequestsInWindow(length) + Cardinality(Passed(past))
          <= limit + (PoolMax - 1)
    BY <1>9 DEF Overshoot
  <2>2. limit \in Nat /\ PoolMax \in Nat
    BY <1>9, SizeAssumption DEF SizeAssumption
  <2>3. RequestsInWindow(length)' + Cardinality(Passed(past)')
          <= limit + (PoolMax - 1)
    BY <1>1, <1>3, <1>4, <1>5, <1>6, <1>7, <2>1, <2>2
  <2> QED
    BY <2>3 DEF Overshoot
<1> QED
  BY <1>8, <1>9

-----------------------------------------------------------------------------
(* The parts of the invariant that do not count requests.                    *)

\* A single attempt moving to another location.
LEMMA Move ==
    ASSUME TypeOK, NEW r \in Attempts, NEW l, GoTo(r, l)
    PROVE  /\ pc'[r] = l
           /\ \A s \in Attempts \ {r} : pc'[s] = pc[s]
           /\ clock'[r] \in {clock[r], now}
           /\ \A s \in Attempts \ {r} : clock'[s] = clock[s]
BY DEF TypeOK, GoTo

LEMMA ClockStep == TypeOK /\ ClockInv /\ [Next]_vars => ClockInv'
<1> SUFFICES ASSUME TypeOK, ClockInv, [Next]_vars PROVE ClockInv'
  OBVIOUS
<1>1. ASSUME NEW r \in Attempts, NEW l, GoTo(r, l), now' = now PROVE ClockInv'
  <2>1. now \in Nat
    BY DEF TypeOK
  <2> QED
    BY <1>1, <2>1, Move DEF ClockInv
<1>2. CASE Tick
  <2>1. now \in Nat /\ \A r \in Attempts : clock[r] \in Nat
    BY DEF TypeOK
  <2> QED
    BY <1>2, <2>1 DEF Tick, ClockInv
<1>3. CASE Restart \/ UNCHANGED vars
  BY <1>3 DEF Restart, ClockInv, vars
<1>4. ASSUME NEW r \in Attempts, Step(r) PROVE ClockInv'
  <2>1. CASE \E l : GoTo(r, l) /\ now' = now
    BY <1>1, <2>1
  <2>2. CASE clock' = clock /\ now' = now
    BY <2>2 DEF ClockInv
  <2>3. CASE Begin(r) \/ SkipCheck(r) \/ Leave(r)
    BY <2>1, <2>3 DEF Begin, SkipCheck, Leave
  <2>4. CASE Check(r) \/ CheckInMemory(r)
    BY <2>1, <2>4 DEF Check, CheckInMemory, Verdict
  <2>5. CASE Insert(r)
    BY <2>1, <2>2, <2>5 DEF Insert
  <2>6. CASE Prune(r) \/ RecordInMemory(r)
    BY <2>1, <2>6 DEF Prune, RecordInMemory
  <2>7. CASE Commit(r) \/ CommitFails(r)
    BY <2>1, <2>7 DEF Commit, CommitFails
  <2>8. CASE Succeed(r) \/ Fail(r) \/ CutOff(r)
    BY <2>1, <2>8 DEF Succeed, Fail, CutOff, Answered
  <2> QED
    BY <1>4, <2>3, <2>4, <2>5, <2>6, <2>7, <2>8 DEF Step
<1> QED
  BY <1>2, <1>3, <1>4 DEF Next

\* Only Begin opens a transaction, and only while a connection is free.
LEMMA PoolStep == TypeOK /\ PoolInv /\ [Next]_vars => PoolInv'
<1> SUFFICES ASSUME TypeOK, PoolInv, [Next]_vars PROVE PoolInv'
  OBVIOUS
<1>1. IsFiniteSet(Open) /\ Cardinality(Open) \in Nat
  BY FS_Subset, FS_CardinalityType, SizeAssumption DEF Open, SizeAssumption
<1>2. ASSUME Open' \subseteq Open PROVE PoolInv'
  <2>1. Cardinality(Open') <= Cardinality(Open) /\ Cardinality(Open') \in Nat
    BY <1>1, <1>2, FS_Subset, FS_CardinalityType
  <2> QED
    BY <1>1, <2>1, SizeAssumption DEF PoolInv, SizeAssumption
<1>3. ASSUME NEW r \in Attempts, NEW l, GoTo(r, l),
             l \notin Checks \cup {"denied", "insertRequest", "insertTokens", "commit"}
               \/ r \in Open
      PROVE  PoolInv'
  <2>1. Open' \subseteq Open
    BY <1>3, Move DEF Open, InTransaction
  <2> QED
    BY <1>2, <2>1
<1>4. CASE Tick \/ Restart \/ UNCHANGED vars
  <2>1. Open' \subseteq Open
    BY <1>4 DEF Tick, Restart, vars, Open, InTransaction, Checks
  <2> QED
    BY <1>2, <2>1
<1>5. ASSUME NEW r \in Attempts, Step(r) PROVE PoolInv'
  <2>1. CASE Begin(r)
    <3>1. GoTo(r, "rpm") /\ Cardinality(Open) < PoolMax
      BY <2>1 DEF Begin, FreeClient
    <3>2. Open' \subseteq Open \cup {r}
      BY <3>1, Move DEF Open, InTransaction
    <3>3. /\ IsFiniteSet(Open \cup {r})
          /\ Cardinality(Open \cup {r}) <= Cardinality(Open) + 1
          /\ Cardinality(Open \cup {r}) \in Nat
      BY <1>1, AddOne
    <3>4. /\ Cardinality(Open') <= Cardinality(Open \cup {r})
          /\ Cardinality(Open') \in Nat
      BY <3>2, <3>3, FS_Subset, FS_CardinalityType
    <3> QED
      BY <1>1, <3>1, <3>3, <3>4, SizeAssumption DEF PoolInv, SizeAssumption
  <2>2. CASE SkipCheck(r) \/ Check(r) \/ CheckInMemory(r)
    BY <1>3, <2>2
    DEF SkipCheck, Check, CheckInMemory, Verdict, Open, InTransaction
  <2>3. CASE Leave(r)
    BY <1>3, <2>3 DEF Leave, Checks
  <2>4. ASSUME pc[r] \in Recordings, GoTo(r, Following(pc[r])) PROVE PoolInv'
    <3>1. CASE pc[r] = "settle"
      BY <1>3, <2>4, <3>1 DEF Following, Checks
    <3>2. CASE pc[r] # "settle"
      BY <1>3, <2>4, <3>2 DEF Recordings, Open, InTransaction
    <3> QED
      BY <3>1, <3>2
  <2>5. CASE Insert(r)
    <3>1. CASE PruneDue(r)
      <4>1. pc' = pc
        BY <2>5, <3>1 DEF Insert
      <4> QED
        BY <1>2, <4>1 DEF Open, InTransaction
    <3>2. CASE ~PruneDue(r)
      BY <2>4, <2>5, <3>2 DEF Insert
    <3> QED
      BY <3>1, <3>2
  <2>6. CASE Prune(r) \/ RecordInMemory(r)
    BY <2>4, <2>6 DEF Prune, RecordInMemory, TypeOK
  <2>7. CASE Commit(r) \/ CommitFails(r)
    BY <1>3, <2>7 DEF Commit, CommitFails, Checks
  <2>8. CASE Succeed(r) \/ Fail(r) \/ CutOff(r)
    BY <1>3, <2>8 DEF Succeed, Fail, CutOff, Answered, Checks
  <2> QED
    BY <1>5, <2>1, <2>2, <2>3, <2>5, <2>6, <2>7, <2>8 DEF Step
<1> QED
  BY <1>4, <1>5 DEF Next

\* The request rows of an open transaction: at most one, inserted at
\* "insertRequest" and gone with the COMMIT.
LEMMA OneRequestStep == TypeOK /\ OneRequest /\ [Next]_vars => OneRequest'
<1> SUFFICES ASSUME TypeOK, OneRequest, [Next]_vars PROVE OneRequest'
  OBVIOUS
<1> DEFINE One(r) ==
      /\ \A x, y \in Requests(pending[r]) : x = y
      /\ Requests(pending[r]) # {}
           => pc[r] \in {"insertTokens", "commit"}
                \/ (pc[r] = "insertRequest" /\ r \in pruning)
<1>1. \A r \in Attempts : One(r)
  BY DEF OneRequest
<1>2. ASSUME NEW r \in Attempts, NEW l, GoTo(r, l),
             \A s \in Attempts \ {r} :
                pending'[s] = pending[s] /\ (s \in pruning <=> s \in pruning'),
             One(r)'
      PROVE  OneRequest'
  BY <1>1, <1>2, Move DEF OneRequest
<1>3. CASE Tick \/ UNCHANGED vars
  BY <1>3 DEF Tick, vars, OneRequest
<1>4. CASE Restart
  BY <1>4 DEF Restart, OneRequest, Requests
<1>5. ASSUME NEW r \in Attempts, Step(r) PROVE OneRequest'
  <2>1. ASSUME NEW l, GoTo(r, l), pending' = pending, pruning' = pruning,
               pc[r] \notin {"insertRequest", "insertTokens", "commit"}
        PROVE  OneRequest'
    <3>1. One(r)'
      BY <1>1, <2>1
    <3> QED
      BY <1>2, <2>1, <3>1
  <2>2. CASE Begin(r) \/ SkipCheck(r) \/ Leave(r)
    BY <2>1, <2>2 DEF Begin, SkipCheck, Leave, Checks
  <2>3. CASE Check(r) \/ CheckInMemory(r)
    BY <2>1, <2>3 DEF Check, CheckInMemory, Verdict, Checks
  <2>4. CASE Succeed(r) \/ Fail(r) \/ CutOff(r)
    BY <2>1, <2>4 DEF Succeed, Fail, CutOff, Answered
  <2>5. CASE Commit(r) \/ CommitFails(r)
    <3>1. \E l : GoTo(r, l)
      BY <2>5 DEF Commit, CommitFails
    <3>2. /\ pending' = [pending EXCEPT ![r] = {}]
          /\ pruning' = pruning
      BY <2>5 DEF Commit, CommitFails, EndTransaction
    <3>3. pending'[r] = {} /\ \A s \in Attempts \ {r} : pending'[s] = pending[s]
      BY <3>2 DEF TypeOK
    <3>4. One(r)'
      BY <3>3 DEF Requests
    <3> QED
      BY <1>2, <3>1, <3>2, <3>3, <3>4
  <2>6. CASE Insert(r)
    <3>1. /\ pc[r] \in Recordings /\ r \notin pruning
          /\ pending'[r] \in {pending[r], pending[r] \cup {RowOf(r)}}
          /\ \A s \in Attempts \ {r} : pending'[s] = pending[s]
      BY <2>6 DEF Insert, TypeOK
    <3>2. pc[r] # "insertRequest" => RowOf(r).kind # "request"
      BY <3>1 DEF RowOf, Recordings
    <3>3. pc[r] # "insertRequest" => Requests(pending'[r]) = Requests(pending[r])
      BY <3>1, <3>2 DEF Requests
    <3>4. pc[r] = "insertRequest" => Requests(pending'[r]) \subseteq {RowOf(r)}
      <4>1. pc[r] = "insertRequest" => Requests(pending[r]) = {}
        BY <1>1, <3>1
      <4> QED
        BY <3>1, <4>1 DEF Requests
    <3>5. pc[r] = "settle" => Requests(pending'[r]) = {}
      BY <1>1, <3>1, <3>3
    <3>6. \A x, y \in Requests(pending'[r]) : x = y
      BY <1>1, <3>3, <3>4
    <3>7. CASE PruneDue(r)
      <4>1. pc' = pc /\ pruning' = pruning \cup {r}
        BY <2>6, <3>7 DEF Insert
      <4>2. One(r)'
        BY <3>1, <3>5, <3>6, <4>1 DEF Recordings
      <4> QED
        BY <1>1, <3>1, <4>1, <4>2 DEF OneRequest
    <3>8. CASE ~PruneDue(r)
      <4>1. GoTo(r, Following(pc[r])) /\ pruning' = pruning
        BY <2>6, <3>8 DEF Insert
      <4>2. pc'[r] = Following(pc[r])
        BY <4>1, Move
      <4>3. pc[r] # "settle" => pc'[r] \in {"insertTokens", "commit"}
        BY <3>1, <4>2 DEF Following, Recordings
      <4>4. One(r)'
        BY <3>5, <3>6, <4>3
      <4> QED
        BY <1>2, <3>1, <4>1, <4>4
    <3> QED
      BY <3>7, <3>8
  <2>7. CASE Prune(r) \/ RecordInMemory(r)
    <3>1. /\ pc[r] \in Recordings /\ pending' = pending
          /\ pruning' = pruning \ {r} /\ GoTo(r, Following(pc[r]))
      BY <2>7 DEF Prune, RecordInMemory, TypeOK
    <3>2. pc'[r] = Following(pc[r])
      BY <3>1, Move
    <3>3. pc[r] # "settle" => pc'[r] \in {"insertTokens", "commit"}
      BY <3>1, <3>2 DEF Following, Recordings
    <3>4. One(r)'
      BY <1>1, <3>1, <3>3
    <3> QED
      BY <1>2, <3>1, <3>4
  <2> QED
    BY <1>5, <2>2, <2>3, <2>4, <2>5, <2>6, <2>7 DEF Step
<1> QED
  BY <1>3, <1>4, <1>5 DEF Next

-----------------------------------------------------------------------------
(* The bound on the requests of a window.                                   *)

\* Only the COMMIT of a transaction that was not aborted adds request rows.
LEMMA RequestRows ==
    ASSUME TypeOK, [Next]_vars
    PROVE  \/ Requests(usage') \subseteq Requests(usage)
           \/ \E r \in Attempts :
                /\ Commit(r) \/ CommitFails(r)
                /\ pc[r] = "commit" /\ r \notin aborted
                /\ Requests(usage')
                     \subseteq Requests(usage) \cup Requests(pending[r])
<1> USE DEF Requests
<1>1. CASE Tick \/ Restart \/ UNCHANGED vars
  BY <1>1 DEF Tick, Restart, vars
<1>2. ASSUME NEW r \in Attempts, Insert(r)
      PROVE  Requests(usage') \subseteq Requests(usage)
  <2>1. CASE InTransaction(r)
    BY <1>2, <2>1 DEF Insert
  <2>2. CASE ~InTransaction(r)
    <3>1. RowOf(r).kind = "settle"
      BY <1>2, <2>2 DEF Insert, InTransaction, RowOf, Recordings
    <3> QED
      BY <1>2, <2>2, <3>1 DEF Insert
  <2> QED
    BY <2>1, <2>2
<1>3. ASSUME NEW r \in Attempts, Prune(r)
      PROVE  Requests(usage') \subseteq Requests(usage)
  BY <1>3 DEF Prune
<1>4. ASSUME NEW r \in Attempts, Commit(r) \/ CommitFails(r)
      PROVE  \/ Requests(usage') \subseteq Requests(usage)
             \/ /\ pc[r] = "commit" /\ r \notin aborted
                /\ Requests(usage')
                     \subseteq Requests(usage) \cup Requests(pending[r])
  BY <1>4 DEF Commit, CommitFails
<1>5. ASSUME NEW r \in Attempts, Step(r), ~Insert(r), ~Prune(r),
             ~Commit(r), ~CommitFails(r)
      PROVE  usage' = usage
  BY <1>5 DEF Step, Begin, SkipCheck, Check, CheckInMemory, Leave,
     RecordInMemory, Succeed, Fail, CutOff, Answered
<1> QED
  BY <1>1, <1>2, <1>3, <1>4, <1>5 DEF Next

LEMMA FiniteStep ==
    TypeOK /\ FiniteInv /\ OneRequest /\ [Next]_vars => FiniteInv'
<1> SUFFICES ASSUME TypeOK, FiniteInv, OneRequest, [Next]_vars
             PROVE  FiniteInv'
  OBVIOUS
<1>1. CASE Requests(usage') \subseteq Requests(usage)
  BY <1>1, FS_Subset DEF FiniteInv
<1>2. ASSUME NEW r \in Attempts,
             Requests(usage') \subseteq Requests(usage) \cup Requests(pending[r])
      PROVE  FiniteInv'
  <2>1. \A y, z \in Requests(pending[r]) : y = z
    BY DEF OneRequest
  <2>2. PICK x : Requests(pending[r]) \subseteq {x}
    BY <2>1
  <2>3. Requests(usage') \subseteq Requests(usage) \cup {x}
    BY <1>2, <2>2
  <2>4. IsFiniteSet(Requests(usage) \cup {x})
    BY AddOne DEF FiniteInv
  <2> QED
    BY <2>3, <2>4, FS_Subset DEF FiniteInv
<1> QED
  BY <1>1, <1>2, RequestRows

LEMMA OvershootStep ==
    ASSUME IInv, TypeOK', FiniteInv', PoolInv', [Next]_vars,
           NEW c \in {"rpm", "rpd"}
    PROVE  Overshoot(Limit(c), WindowMs(c), Past(c))'
<1> DEFINE limit == Limit(c)
           length == WindowMs(c)
           past == Past(c)
<1>1. /\ TypeOK /\ FiniteInv /\ ClockInv /\ PoolInv /\ OneRequest
      /\ Overshoot(limit, length, past)
  BY DEF IInv
<1>2. limit \in Nat \cup {NoLimit} /\ length \in Nat
  BY LimitAssumption, SizeAssumption
  DEF Limit, WindowMs, LimitAssumption, SizeAssumption
<1>3. ASSUME Requests(usage') \subseteq Requests(usage), now' \in {now, now + 1},
             Passed(past)' \subseteq Passed(past)
      PROVE  Overshoot(limit, length, past)'
  <2>1. now' >= now
    BY <1>1, <1>3 DEF TypeOK
  <2> HIDE DEF limit, length, past
  <2> QED
    BY <1>1, <1>2, <1>3, <2>1, NoAdmission
<1>4. ASSUME NEW r \in Attempts, NEW l, GoTo(r, l), now' = now,
             Requests(usage') \subseteq Requests(usage),
             aborted \ {r} \subseteq aborted',
             l \notin past \/ r \in aborted'
               \/ (pc[r] \in past /\ (r \in aborted => r \in aborted'))
      PROVE  Overshoot(limit, length, past)'
  <2>1. Passed(past)' \subseteq Passed(past)
    <3> HIDE DEF past
    <3> QED
      BY <1>1, <1>4, Move DEF Passed
  <2> QED
    BY <1>3, <1>4, <2>1
<1>5. CASE Tick \/ UNCHANGED vars
  <2>1. Passed(past)' = Passed(past)
    BY <1>5 DEF Tick, vars, Passed
  <2> QED
    BY <1>3, <1>5, <2>1 DEF Tick, vars
<1>6. CASE Restart
  <2>1. Passed(past)' = {}
    BY <1>6 DEF Restart, Passed, Past
  <2> QED
    BY <1>3, <1>6, <2>1 DEF Restart
<1>7. ASSUME NEW r \in Attempts, Commit(r) \/ CommitFails(r)
      PROVE  Overshoot(limit, length, past)'
  <2>1. /\ pc[r] = "commit" /\ now' = now /\ aborted' = aborted \ {r}
        /\ \E l \in {"call", "done"} : GoTo(r, l)
    BY <1>7 DEF Commit, CommitFails, EndTransaction
  <2>2. "call" \notin past /\ "done" \notin past /\ "commit" \in past
    BY DEF Past
  <2>3. CASE Requests(usage') \subseteq Requests(usage)
    BY <1>4, <2>1, <2>2, <2>3
  <2>4. CASE /\ r \notin aborted
             /\ Requests(usage')
                  \subseteq Requests(usage) \cup Requests(pending[r])
    <3>1. pc'[r] \in {"call", "done"} /\ \A s \in Attempts \ {r} : pc'[s] = pc[s]
      BY <1>1, <2>1, Move
    <3>2. r \in Passed(past) /\ Passed(past)' = Passed(past) \ {r}
      <4> HIDE DEF past
      <4> QED
        BY <2>1, <2>2, <2>4, <3>1 DEF Passed
    <3> HIDE DEF limit, length, past
    <3> QED
      BY <1>1, <1>2, <2>1, <2>4, <3>2, Admitted
  <2>5. \/ Requests(usage') \subseteq Requests(usage)
        \/ /\ r \notin aborted
           /\ Requests(usage')
                \subseteq Requests(usage) \cup Requests(pending[r])
    BY <1>7 DEF Commit, CommitFails, Requests
  <2> QED
    BY <2>3, <2>4, <2>5
<1>8. ASSUME NEW r \in Attempts, Step(r), ~Commit(r), ~CommitFails(r)
      PROVE  Requests(usage') \subseteq Requests(usage) /\ now' = now
  <2>1. Requests(usage') \subseteq Requests(usage)
    <3>1. ASSUME NEW s \in Attempts, Commit(s) \/ CommitFails(s), s # r
          PROVE  FALSE
      <4>1. \E l \in {"call", "done"} : GoTo(s, l) /\ pc[s] = "commit"
        BY <3>1 DEF Commit, CommitFails
      <4>2. pc'[s] # pc[s]
        BY <1>1, <4>1, Move
      <4>3. (\E l : GoTo(r, l)) \/ pc' = pc
        BY <1>8 DEF Step, Begin, SkipCheck, Check, CheckInMemory, Verdict,
           Leave, Insert, Prune, RecordInMemory, Succeed, Fail, CutOff, Answered
      <4> QED
        BY <1>1, <3>1, <4>2, <4>3, Move
    <3> QED
      BY <1>1, <1>8, <3>1, RequestRows
  <2>2. now' = now
    BY <1>8 DEF Step, Begin, SkipCheck, Check, CheckInMemory,
       Leave, Insert, Prune, RecordInMemory, Succeed, Fail, CutOff, Answered
  <2> QED
    BY <2>1, <2>2
<1>9. ASSUME NEW r \in Attempts, Step(r), ~Commit(r), ~CommitFails(r)
      PROVE  Overshoot(limit, length, past)'
  <2> Requests(usage') \subseteq Requests(usage) /\ now' = now
    BY <1>8, <1>9
  <2>1. CASE Begin(r)
    BY <1>4, <2>1 DEF Begin, Past
  <2>2. CASE SkipCheck(r)
    <3>1. CASE limit = NoLimit
      BY <3>1 DEF Overshoot
    <3>2. CASE limit # NoLimit
      <4>1. /\ GoTo(r, Following(pc[r])) /\ aborted' = aborted
            /\ pc[r] \in Checks /\ pc[r] # c
        BY <2>2, <3>2 DEF SkipCheck
      <4>2. Following(pc[r]) \in past => pc[r] \in past
        BY <4>1 DEF Following, Checks, Past
      <4> QED
        BY <1>4, <4>1, <4>2
    <3> QED
      BY <3>1, <3>2
  <2>3. CASE Check(r)
    <3>1. /\ pc[r] \in Checks /\ r \notin aborted /\ aborted' = aborted
          /\ usage' = usage
          /\ Limit(pc[r]) # NoLimit
          /\ Verdict(r, Used(pc[r], r, usage))
      BY <2>3 DEF Check
    <3>2. CASE /\ pc[r] = c
               /\ Admits(c, r, Used(c, r, usage))
      <4>1. /\ limit \in Nat
            /\ Cardinality(Requests(Recent(usage, length, clock[r]))) < limit
        BY <1>2, <3>1, <3>2 DEF Admits, Used
      <4>2. PICK l : GoTo(r, l) /\ l = Following(c)
        BY <3>1, <3>2 DEF Verdict
      <4>3. Passed(past)' \subseteq Open'
        BY <1>1, <4>2 DEF Passed, Open, InTransaction, Past, Checks
      <4> HIDE DEF limit, length, past
      <4> QED
        BY <1>1, <1>2, <3>1, <4>1, <4>3, Admission
    <3>3. CASE pc[r] # c
      <4>1. PICK l : GoTo(r, l) /\ l \in {Following(pc[r]), "denied"}
        BY <3>1 DEF Verdict
      <4>2. l \in past => pc[r] \in past
        BY <3>1, <3>3, <4>1 DEF Following, Checks, Past
      <4> QED
        BY <1>4, <3>1, <4>1, <4>2
    <3>4. CASE pc[r] = c /\ ~Admits(c, r, Used(c, r, usage))
      <4>1. GoTo(r, "denied") /\ "denied" \notin past
        BY <3>1, <3>4 DEF Verdict, Past
      <4> QED
        BY <1>4, <3>1, <4>1
    <3> QED
      BY <3>2, <3>3, <3>4
  <2>4. CASE CheckInMemory(r)
    <3>1. r \in aborted' /\ aborted \subseteq aborted'
      BY <2>4 DEF CheckInMemory, StatementFails, InTransaction
    <3>2. \E l : GoTo(r, l)
      BY <2>4 DEF CheckInMemory, Verdict
    <3> QED
      BY <1>4, <3>1, <3>2
  <2>5. CASE Leave(r)
    BY <1>4, <2>5 DEF Leave, Past
  <2>6. ASSUME pc[r] \in Recordings, GoTo(r, Following(pc[r])),
               aborted \subseteq aborted'
        PROVE  Overshoot(limit, length, past)'
    <3>1. Following(pc[r]) \in past => pc[r] \in past
      BY <2>6 DEF Following, Recordings, Past
    <3> QED
      BY <1>4, <2>6, <3>1
  <2>7. CASE Insert(r)
    <3>1. CASE PruneDue(r)
      <4>1. pc' = pc /\ aborted' = aborted
        BY <2>7, <3>1 DEF Insert
      <4>2. Passed(past)' = Passed(past)
        BY <4>1 DEF Passed
      <4> QED
        BY <1>3, <4>2
    <3>2. CASE ~PruneDue(r)
      BY <2>6, <2>7, <3>2 DEF Insert
    <3> QED
      BY <3>1, <3>2
  <2>8. CASE Prune(r)
    BY <1>1, <2>6, <2>8 DEF Prune, TypeOK
  <2>9. CASE RecordInMemory(r)
    BY <2>6, <2>9 DEF RecordInMemory, StatementFails
  <2>10. CASE Succeed(r) \/ Fail(r) \/ CutOff(r)
    <3>1. aborted' = aborted /\ \E l \in {"settle", "done"} : GoTo(r, l)
      BY <2>10 DEF Succeed, Fail, CutOff, Answered
    <3>2. "settle" \notin past /\ "done" \notin past
      BY DEF Past
    <3> QED
      BY <1>4, <3>1, <3>2
  <2> QED
    BY <1>9, <2>1, <2>2, <2>3, <2>4, <2>5, <2>7, <2>8, <2>9, <2>10 DEF Step
<1>10. Overshoot(limit, length, past)'
  BY <1>5, <1>6, <1>7, <1>9 DEF Next
<1> QED
  BY <1>10 DEF Limit, WindowMs, Past

-----------------------------------------------------------------------------
LEMMA InitInvariant == Init => IInv
<1> SUFFICES ASSUME Init PROVE IInv
  OBVIOUS
<1>1. TypeOK
  BY InitType
<1>2. FiniteInv /\ ClockInv /\ OneRequest
  BY FS_EmptySet, SizeAssumption
  DEF Init, FiniteInv, ClockInv, OneRequest, Requests
<1>3. Open = {} /\ \A c \in {"rpm", "rpd"} : Passed(Past(c)) = {}
  BY DEF Init, Open, Passed, Past, InTransaction, Checks
<1>4. PoolInv
  BY <1>3, FS_EmptySet, SizeAssumption DEF PoolInv, SizeAssumption
<1>5. ASSUME NEW c \in {"rpm", "rpd"}
      PROVE  Overshoot(Limit(c), WindowMs(c), Past(c))
  <2>1. Requests(Recent(usage, WindowMs(c), now)) = {}
    BY DEF Init, Requests, Recent
  <2>2. Limit(c) \in Nat \cup {NoLimit} /\ PoolMax \in Nat \ {0}
    BY LimitAssumption, SizeAssumption DEF Limit, LimitAssumption, SizeAssumption
  <2> QED
    BY <1>3, <2>1, <2>2, FS_EmptySet DEF Overshoot, RequestsInWindow
<1> QED
  BY <1>1, <1>2, <1>4, <1>5 DEF IInv

LEMMA NextInvariant == IInv /\ [Next]_vars => IInv'
<1> SUFFICES ASSUME IInv, [Next]_vars PROVE IInv'
  OBVIOUS
<1>1. TypeOK'
  BY NextType DEF IInv
<1>2. FiniteInv' /\ ClockInv' /\ PoolInv' /\ OneRequest'
  BY FiniteStep, ClockStep, PoolStep, OneRequestStep DEF IInv
<1>3. \A c \in {"rpm", "rpd"} : Overshoot(Limit(c), WindowMs(c), Past(c))'
  BY <1>1, <1>2, OvershootStep
<1> QED
  BY <1>1, <1>2, <1>3 DEF IInv

LEMMA InvariantImplies == IInv => RequestOvershootBounded
<1> SUFFICES ASSUME IInv PROVE RequestOvershootBounded
  OBVIOUS
<1>1. ASSUME NEW c \in {"rpm", "rpd"}
      PROVE  RequestsWithin(Limit(c), WindowMs(c), PoolMax - 1)
  <2>1. Overshoot(Limit(c), WindowMs(c), Past(c)) /\ FiniteInv
    BY DEF IInv
  <2>2. /\ Cardinality(Passed(Past(c))) \in Nat
        /\ RequestsInWindow(WindowMs(c)) \in Nat
    BY <2>1, PassedFinite, WindowFinite DEF RequestsInWindow
  <2>3. Limit(c) \in Nat \cup {NoLimit} /\ PoolMax \in Nat
    BY LimitAssumption, SizeAssumption DEF Limit, LimitAssumption, SizeAssumption
  <2> QED
    BY <2>1, <2>2, <2>3 DEF Overshoot, RequestsWithin
<1> QED
  BY <1>1 DEF RequestOvershootBounded, Limit, WindowMs

\* The reservation transactions of the proxy overshoot rpm and rpd by less than
\* the size of the connection pool, for any number of attempts, any limits and
\* windows, and whatever statements, COMMITs and processes fail.
THEOREM RequestOvershoot == Spec => []RequestOvershootBounded
<1>1. Spec => []IInv
  BY InitInvariant, NextInvariant, PTL DEF Spec
<1> QED
  BY <1>1, InvariantImplies, PTL

-----------------------------------------------------------------------------
(***************************************************************************)
(* The rows of one attempt: the prune takes expired rows only, a request    *)
(* row is never without its token reservation, and a finished attempt is    *)
(* charged what it came to.                                                 *)
(*                                                                          *)
(* All are about rows that several transactions touch.  A transaction       *)
(* commits its two rows together unless it was aborted, and the reservation *)
(* is never older than the request; so whatever deletes old rows deletes    *)
(* the request with the reservation, even when the deletion was decided     *)
(* long before it is committed.                                             *)
(***************************************************************************)

\* What open transactions have deleted had expired.
DoomedInv == \A r \in Attempts : \A x \in doomed[r] : x.at <= now - Day

\* Attempts that have not committed yet.
Before == Checks \cup {"idle", "denied", "insertRequest", "insertTokens", "commit"}

\* A transaction writes rows of its own attempt, none from its future.
OwnInv ==
    \A r \in Attempts : \A x \in pending[r] : x.owner = r /\ x.at <= clock[r]

\* Before its COMMIT an attempt has no row in the table, and nobody deletes one.
FreshInv ==
    \A r \in Attempts : pc[r] \in Before =>
        /\ \A x \in usage : x.owner # r
        /\ \A s \in Attempts : \A x \in doomed[s] : x.owner # r

Covers(y, x) == y.owner = x.owner /\ y.kind = "reserve" /\ y.at >= x.at

\* A transaction that has inserted its tokens and may commit covers its request.
Reserving(r) ==
    \/ pc[r] = "commit" /\ r \notin aborted
    \/ pc[r] = "insertTokens" /\ r \in pruning
TokensInv ==
    \A r \in Attempts : Reserving(r) =>
        \A x \in Requests(pending[r]) : \E y \in pending[r] : Covers(y, x)

CoveredInv == \A x \in Requests(usage) : \E y \in usage : Covers(y, x)

\* Whoever deletes a reservation deletes the request it covers.
ClosedInv ==
    \A s \in Attempts : \A y \in doomed[s] : \A x \in Requests(usage) :
        Covers(y, x) => x \in doomed[s]

AInv ==
    /\ TypeOK /\ ClockInv /\ DoomedInv /\ OwnInv /\ FreshInv
    /\ TokensInv /\ CoveredInv /\ ClosedInv

-----------------------------------------------------------------------------
(* What a step does to the rows.                                            *)

\* An attempt that is beyond the INSERT of its correction, if it needs one.
Settled(r) == pc[r] = "done" \/ (pc[r] = "settle" /\ r \in pruning)

UsageStep ==
    \/ usage' = usage
    \/ \E r \in Attempts : usage' = usage \ Expired(usage, clock[r])
    \/ \E r \in Attempts :
         /\ pc[r] = "settle" /\ ~Settled(r) /\ Settled(r)'
         /\ usage' = usage \cup {RowOf(r)}
    \/ \E r \in Attempts :
         /\ pc[r] = "commit" /\ r \notin aborted /\ pc'[r] \notin Before
         /\ usage' = (usage \ doomed[r]) \cup pending[r]

DoomedStep(s) ==
    \/ doomed'[s] = doomed[s]
    \/ doomed'[s] = {}
    \/ usage' = usage /\ doomed'[s] = doomed[s] \cup Expired(usage, clock[s])

PendingStep(s) ==
    \/ pending'[s] = pending[s]
    \/ pending'[s] = {}
    \/ pending'[s] = pending[s] \cup {RowOf(s)}

Effects ==
    /\ now' \in Nat /\ now' >= now
    /\ UsageStep
    /\ \A s \in Attempts :
         /\ pc'[s] \in Before => pc[s] \in Before
         /\ clock'[s] >= clock[s]
         /\ DoomedStep(s) /\ PendingStep(s)

\* One attempt moves, and none back to before its COMMIT.
LEMMA MoveEffects ==
    ASSUME TypeOK, ClockInv, NEW r \in Attempts, NEW l, GoTo(r, l), now' = now,
           l \in Before => pc[r] \in Before
    PROVE  /\ now' \in Nat /\ now' >= now
           /\ \A s \in Attempts : /\ pc'[s] \in Before => pc[s] \in Before
                                  /\ clock'[s] >= clock[s]
<1>1. now \in Nat /\ \A s \in Attempts : clock[s] \in Nat /\ clock[s] <= now
  BY DEF TypeOK, ClockInv
<1>2. /\ pc'[r] = l
      /\ \A s \in Attempts \ {r} : pc'[s] = pc[s] /\ clock'[s] = clock[s]
      /\ clock'[r] \in {clock[r], now}
  BY Move
<1> QED
  BY <1>1, <1>2

\* A step that touches no row.
LEMMA QuietEffects ==
    ASSUME TypeOK, ClockInv, NEW r \in Attempts, NEW l, GoTo(r, l), now' = now,
           l \in Before => pc[r] \in Before,
           usage' = usage, doomed' = doomed, pending' = pending
    PROVE  Effects
BY MoveEffects DEF Effects, UsageStep, DoomedStep, PendingStep

LEMMA FollowingBefore ==
    ASSUME NEW c \in Checks \cup Recordings
    PROVE  Following(c) \in Before => c \in Before
BY DEF Following, Checks, Recordings, Before

LEMMA StepEffects == TypeOK /\ ClockInv /\ [Next]_vars => Effects
<1> SUFFICES ASSUME TypeOK, ClockInv, [Next]_vars PROVE Effects
  OBVIOUS
<1>1. now \in Nat /\ \A s \in Attempts : clock[s] \in Nat
  BY DEF TypeOK
<1>2. CASE Tick
  BY <1>1, <1>2 DEF Tick, Effects, UsageStep, DoomedStep, PendingStep
<1>3. CASE Restart
  <2>1. \A s \in Attempts : /\ pc'[s] \in {"idle", "done"}
                            /\ pc'[s] = "idle" => pc[s] = "idle"
                            /\ doomed'[s] = {} /\ pending'[s] = {}
                            /\ clock'[s] = clock[s]
    BY <1>3 DEF Restart
  <2>2. now' = now /\ usage' = usage
    BY <1>3 DEF Restart
  <2> QED
    BY <1>1, <2>1, <2>2
    DEF Effects, UsageStep, DoomedStep, PendingStep, Before, Checks
<1>4. CASE UNCHANGED vars
  BY <1>1, <1>4 DEF vars, Effects, UsageStep, DoomedStep, PendingStep
<1>5. ASSUME NEW r \in Attempts, Begin(r) \/ Leave(r) PROVE Effects
  <2>1. PICK l \in {"rpm", "done"} :
          GoTo(r, l) /\ (l = "rpm" => pc[r] = "idle")
    BY <1>5 DEF Begin, Leave
  <2> QED
    BY <1>5, <2>1, QuietEffects DEF Begin, Leave, Before, Checks
<1>6. ASSUME NEW r \in Attempts, SkipCheck(r) PROVE Effects
  BY <1>6, FollowingBefore, QuietEffects DEF SkipCheck
<1>7. ASSUME NEW r \in Attempts, Check(r) \/ CheckInMemory(r) PROVE Effects
  <2>1. pc[r] \in Before /\ \E l : GoTo(r, l)
    BY <1>7 DEF Check, CheckInMemory, Verdict, Before
  <2> QED
    BY <1>7, <2>1, QuietEffects DEF Check, CheckInMemory
<1>8. ASSUME NEW r \in Attempts, Insert(r) PROVE Effects
  <2>1. /\ now' \in Nat /\ now' >= now
        /\ \A s \in Attempts : /\ pc'[s] \in Before => pc[s] \in Before
                               /\ clock'[s] >= clock[s]
    <3>1. CASE PruneDue(r)
      BY <1>1, <1>8, <3>1 DEF Insert
    <3>2. CASE ~PruneDue(r)
      BY <1>8, <3>2, FollowingBefore, MoveEffects DEF Insert
    <3> QED
      BY <3>1, <3>2
  <2>2. \A s \in Attempts : DoomedStep(s)
    BY <1>8 DEF Insert, DoomedStep
  <2>3. UsageStep /\ \A s \in Attempts : PendingStep(s)
    <3>1. CASE InTransaction(r)
      BY <1>8, <3>1 DEF Insert, TypeOK, UsageStep, PendingStep
    <3>2. CASE ~InTransaction(r)
      <4>1. pc[r] = "settle"
        BY <1>8, <3>2 DEF Insert, InTransaction, Recordings
      <4>2. ~Settled(r) /\ Settled(r)'
        <5>1. CASE PruneDue(r)
          BY <1>8, <4>1, <5>1 DEF Insert, Settled
        <5>2. CASE ~PruneDue(r)
          BY <1>8, <4>1, <5>2, Move DEF Insert, Settled, Following
        <5> QED
          BY <5>1, <5>2
      <4> QED
        BY <1>8, <3>2, <4>1, <4>2 DEF Insert, UsageStep, PendingStep
    <3> QED
      BY <3>1, <3>2
  <2> QED
    BY <2>1, <2>2, <2>3 DEF Effects
<1>9. ASSUME NEW r \in Attempts, Prune(r) PROVE Effects
  <2>1. /\ now' \in Nat /\ now' >= now
        /\ \A s \in Attempts : /\ pc'[s] \in Before => pc[s] \in Before
                               /\ clock'[s] >= clock[s]
    BY <1>9, FollowingBefore, MoveEffects DEF Prune, TypeOK
  <2>2. \A s \in Attempts : PendingStep(s)
    BY <1>9 DEF Prune, PendingStep
  <2>3. UsageStep /\ \A s \in Attempts : DoomedStep(s)
    BY <1>9 DEF Prune, TypeOK, UsageStep, DoomedStep
  <2> QED
    BY <2>1, <2>2, <2>3 DEF Effects
<1>10. ASSUME NEW r \in Attempts, RecordInMemory(r) PROVE Effects
  BY <1>10, FollowingBefore, QuietEffects DEF RecordInMemory
<1>11. ASSUME NEW r \in Attempts, Commit(r) \/ CommitFails(r) PROVE Effects
  <2>1. PICK l \in {"call", "done"} : GoTo(r, l)
    BY <1>11 DEF Commit, CommitFails
  <2>2. l \notin Before /\ pc'[r] = l
    BY <2>1, Move DEF Before, Checks
  <2>3. pc[r] = "commit" /\ EndTransaction(r) /\ now' = now
    BY <1>11 DEF Commit, CommitFails
  <2>4. /\ now' \in Nat /\ now' >= now
        /\ \A s \in Attempts : /\ pc'[s] \in Before => pc[s] \in Before
                               /\ clock'[s] >= clock[s]
    BY <2>1, <2>2, <2>3, MoveEffects
  <2>5. \A s \in Attempts : DoomedStep(s) /\ PendingStep(s)
    BY <2>3 DEF EndTransaction, TypeOK, DoomedStep, PendingStep
  <2>6. UsageStep
    BY <1>11, <2>2, <2>3 DEF Commit, CommitFails, UsageStep
  <2> QED
    BY <2>4, <2>5, <2>6 DEF Effects
<1>12. ASSUME NEW r \in Attempts, Succeed(r) \/ Fail(r) \/ CutOff(r)
       PROVE  Effects
  <2>1. PICK l \in {"settle", "done"} : GoTo(r, l)
    BY <1>12 DEF Succeed, Fail, CutOff, Answered
  <2>2. /\ now' = now /\ usage' = usage /\ doomed' = doomed
        /\ pending' = pending
    BY <1>12 DEF Succeed, Fail, CutOff, Answered
  <2> QED
    BY <2>1, <2>2, QuietEffects DEF Before, Checks
<1> QED
  BY <1>2, <1>3, <1>4, <1>5, <1>6, <1>7, <1>8, <1>9, <1>10, <1>11, <1>12
  DEF Next, Step

-----------------------------------------------------------------------------
(* The invariant, conjunct by conjunct.                                     *)

LEMMA RowTypes ==
    ASSUME TypeOK
    PROVE  /\ now \in Nat
           /\ \A x \in usage : x.at \in Nat
           /\ \A r \in Attempts : /\ clock[r] \in Nat
                                  /\ \A x \in pending[r] : x.at \in Nat
                                  /\ \A x \in doomed[r] : x.at \in Nat
BY DEF TypeOK, Rows

LEMMA InitAInv == Init => AInv
<1> SUFFICES ASSUME Init PROVE AInv
  OBVIOUS
<1>1. TypeOK
  BY InitType
<1>2. usage = {} /\ \A r \in Attempts : pending[r] = {} /\ doomed[r] = {}
  BY DEF Init
<1>3. ClockInv
  BY DEF Init, ClockInv
<1> QED
  BY <1>1, <1>2, <1>3
  DEF AInv, DoomedInv, OwnInv, FreshInv, TokensInv, CoveredInv, ClosedInv, Requests

LEMMA NextDoomed ==
    ASSUME TypeOK, ClockInv, DoomedInv, Effects
    PROVE  DoomedInv'
<1> SUFFICES ASSUME NEW r \in Attempts, NEW x \in doomed'[r]
             PROVE  x.at <= now' - Day
  BY DEF DoomedInv
<1>1. x \in doomed[r] \/ x \in Expired(usage, clock[r])
  BY DEF Effects, DoomedStep
<1>2. x.at \in Nat /\ x.at <= now - Day
  BY <1>1, RowTypes, SizeAssumption
  DEF DoomedInv, ClockInv, Expired, SizeAssumption
<1> QED
  BY <1>2, RowTypes, SizeAssumption DEF Effects, SizeAssumption

LEMMA NextOwn ==
    ASSUME TypeOK, TypeOK', OwnInv, Effects
    PROVE  OwnInv'
<1> SUFFICES ASSUME NEW r \in Attempts, NEW x \in pending'[r]
             PROVE  x.owner = r /\ x.at <= clock'[r]
  BY DEF OwnInv
<1>1. clock[r] \in Nat /\ clock'[r] \in Nat /\ clock'[r] >= clock[r]
  BY DEF TypeOK, Effects
<1>2. CASE x \in pending[r]
  BY <1>1, <1>2, RowTypes DEF OwnInv
<1>3. CASE x = RowOf(r)
  BY <1>1, <1>3 DEF RowOf
<1> QED
  BY <1>2, <1>3 DEF Effects, PendingStep

LEMMA NextFresh ==
    ASSUME OwnInv, FreshInv, Effects
    PROVE  FreshInv'
<1> SUFFICES ASSUME NEW r \in Attempts, pc'[r] \in Before
             PROVE  /\ \A x \in usage' : x.owner # r
                    /\ \A s \in Attempts : \A x \in doomed'[s] : x.owner # r
  BY DEF FreshInv
<1>1. /\ pc[r] \in Before
      /\ \A x \in usage : x.owner # r
      /\ \A s \in Attempts : \A x \in doomed[s] : x.owner # r
  BY DEF Effects, FreshInv
<1>2. ASSUME NEW x \in usage' PROVE x.owner # r
  <2>1. CASE \E q \in Attempts : pc[q] = "settle" /\ x = RowOf(q)
    BY <1>1, <2>1 DEF RowOf, Before, Checks
  <2>2. CASE \E q \in Attempts : pc'[q] \notin Before /\ x \in pending[q]
    BY <2>2 DEF OwnInv
  <2>3. CASE x \in usage
    BY <1>1, <2>3
  <2> QED
    BY <1>2, <2>1, <2>2, <2>3 DEF Effects, UsageStep
<1>3. ASSUME NEW s \in Attempts, NEW x \in doomed'[s] PROVE x.owner # r
  BY <1>1, <1>3 DEF Effects, DoomedStep, Expired
<1> QED
  BY <1>2, <1>3

LEMMA NextClosed ==
    ASSUME TypeOK, OwnInv, FreshInv, ClosedInv, Effects
    PROVE  ClosedInv'
<1> SUFFICES ASSUME NEW s \in Attempts, NEW y \in doomed'[s],
                    NEW x \in Requests(usage'), Covers(y, x)
             PROVE  x \in doomed'[s]
  BY DEF ClosedInv
<1>1. CASE x \in usage
  <2>1. x \in Requests(usage)
    BY <1>1 DEF Requests
  <2>2. CASE y \in doomed[s]
    BY <2>1, <2>2 DEF ClosedInv, Effects, DoomedStep
  <2>3. CASE y \notin doomed[s]
    <3>1. /\ doomed'[s] = doomed[s] \cup Expired(usage, clock[s])
          /\ y \in Expired(usage, clock[s])
      BY <2>3 DEF Effects, DoomedStep
    <3>2. /\ x.at \in Nat /\ y.at \in Nat /\ clock[s] \in Nat
          /\ x.at <= y.at /\ y.at <= clock[s] - Day
      BY <1>1, <3>1, RowTypes DEF Expired, Covers
    <3>3. x.at <= clock[s] - Day
      BY <3>2, SizeAssumption DEF SizeAssumption
    <3> QED
      BY <1>1, <3>1, <3>3 DEF Expired
  <2> QED
    BY <2>2, <2>3
<1>2. CASE x \notin usage
  <2>1. y \in doomed[s]
    BY <1>2 DEF Effects, DoomedStep, Requests
  <2>2. x.kind = "request" /\ x \in usage'
    BY DEF Requests
  <2>3. ASSUME NEW r \in Attempts, pc[r] = "settle" PROVE x # RowOf(r)
    BY <2>2, <2>3 DEF RowOf
  <2>4. PICK r \in Attempts : pc[r] = "commit" /\ x \in pending[r]
    BY <1>2, <2>2, <2>3 DEF Effects, UsageStep
  <2>5. y.owner = r
    BY <2>4 DEF OwnInv, Covers
  <2> QED
    BY <2>1, <2>4, <2>5 DEF FreshInv, Before
<1> QED
  BY <1>1, <1>2

LEMMA NextCovered ==
    ASSUME TypeOK, TokensInv, CoveredInv, ClosedInv, Effects
    PROVE  CoveredInv'
<1> SUFFICES ASSUME NEW x \in Requests(usage')
             PROVE  \E y \in usage' : Covers(y, x)
  BY DEF CoveredInv
<1>1. CASE usage' = usage
  BY <1>1 DEF CoveredInv
<1>2. ASSUME NEW r \in Attempts, usage' = usage \ Expired(usage, clock[r])
      PROVE  \E y \in usage' : Covers(y, x)
  <2>1. x \in Requests(usage) /\ x \in usage /\ ~(x.at <= clock[r] - Day)
    BY <1>2 DEF Requests, Expired
  <2>2. PICK y \in usage : Covers(y, x)
    BY <2>1 DEF CoveredInv
  <2>3. ~(y.at <= clock[r] - Day)
    BY <2>1, <2>2, RowTypes, SizeAssumption DEF Covers, SizeAssumption
  <2> QED
    BY <1>2, <2>2, <2>3 DEF Expired
<1>3. ASSUME NEW r \in Attempts, pc[r] = "settle",
             usage' = usage \cup {RowOf(r)}
      PROVE  \E y \in usage' : Covers(y, x)
  <2>1. x \in Requests(usage)
    BY <1>3 DEF Requests, RowOf
  <2> QED
    BY <1>3, <2>1 DEF CoveredInv
<1>4. ASSUME NEW r \in Attempts, pc[r] = "commit", r \notin aborted,
             usage' = (usage \ doomed[r]) \cup pending[r]
      PROVE  \E y \in usage' : Covers(y, x)
  <2>1. CASE x \in pending[r]
    <3>1. x \in Requests(pending[r]) /\ Reserving(r)
      BY <1>4, <2>1 DEF Requests, Reserving
    <3> QED
      BY <1>4, <3>1 DEF TokensInv
  <2>2. CASE x \in usage /\ x \notin doomed[r]
    <3>1. x \in Requests(usage)
      BY <2>2 DEF Requests
    <3>2. PICK y \in usage : Covers(y, x)
      BY <3>1 DEF CoveredInv
    <3>3. y \notin doomed[r]
      BY <2>2, <3>1, <3>2 DEF ClosedInv
    <3> QED
      BY <1>4, <3>2, <3>3
  <2> QED
    BY <1>4, <2>1, <2>2 DEF Requests
<1> QED
  BY <1>1, <1>2, <1>3, <1>4 DEF Effects, UsageStep

\* An attempt that moves without inserting its tokens covers what it covered.
LEMMA TokensFrame ==
    ASSUME TokensInv, NEW r \in Attempts,
           \A s \in Attempts \ {r} :
               /\ pc'[s] = pc[s] /\ pending'[s] = pending[s]
               /\ s \in aborted' <=> s \in aborted
               /\ s \in pruning' <=> s \in pruning,
           Reserving(r)' => Reserving(r) /\ pending'[r] = pending[r]
    PROVE  TokensInv'
<1> SUFFICES ASSUME NEW s \in Attempts, Reserving(s)'
             PROVE  \A x \in Requests(pending'[s]) :
                        \E y \in pending'[s] : Covers(y, x)
  BY DEF TokensInv
<1>1. Reserving(s) /\ pending'[s] = pending[s]
  BY DEF Reserving
<1> QED
  BY <1>1 DEF TokensInv

LEMMA NextTokens ==
    ASSUME TypeOK, ClockInv, OwnInv, TokensInv, [Next]_vars
    PROVE  TokensInv'
<1>1. CASE Tick \/ UNCHANGED vars
  BY <1>1 DEF Tick, vars, TokensInv, Reserving, Requests, Covers
<1>2. CASE Restart
  BY <1>2 DEF Restart, TokensInv, Reserving
<1>3. ASSUME NEW r \in Attempts, Begin(r) \/ Leave(r) PROVE TokensInv'
  <2>1. PICK l \in {"rpm", "done"} : GoTo(r, l)
    BY <1>3 DEF Begin, Leave
  <2>2. ~Reserving(r)' /\ \A s \in Attempts \ {r} : pc'[s] = pc[s]
    BY <2>1, Move DEF Reserving
  <2> QED
    BY <1>3, <2>2, TokensFrame DEF Begin, Leave
<1>4. ASSUME NEW r \in Attempts,
             SkipCheck(r) \/ Check(r) \/ CheckInMemory(r)
      PROVE  TokensInv'
  <2>1. pc[r] \in Checks
    BY <1>4 DEF SkipCheck, Check, CheckInMemory
  <2>2. PICK l \in {Following(pc[r]), "denied"} : GoTo(r, l)
    BY <1>4 DEF SkipCheck, Check, CheckInMemory, Verdict
  <2>3. l \notin {"insertTokens", "commit"}
    BY <2>1, <2>2 DEF Following, Checks
  <2>4. ~Reserving(r)' /\ \A s \in Attempts \ {r} : pc'[s] = pc[s]
    BY <2>2, <2>3, Move DEF Reserving
  <2>5. /\ pending' = pending /\ pruning' = pruning
        /\ \A s \in Attempts \ {r} : s \in aborted' <=> s \in aborted
    BY <1>4 DEF SkipCheck, Check, CheckInMemory, StatementFails
  <2> QED
    BY <2>4, <2>5, TokensFrame
<1>5. ASSUME NEW r \in Attempts, Insert(r) PROVE TokensInv'
  <2>1. /\ pc[r] \in Recordings /\ r \notin pruning /\ aborted' = aborted
        /\ \A s \in Attempts \ {r} : s \in pruning' <=> s \in pruning
        /\ \A s \in Attempts \ {r} : pending'[s] = pending[s]
    BY <1>5 DEF Insert, TypeOK
  <2>2. \A s \in Attempts \ {r} : pc'[s] = pc[s]
    BY <1>5, Move DEF Insert
  <2>3. CASE pc[r] = "insertTokens"
    <3>1. pending'[r] = pending[r] \cup {RowOf(r)}
      BY <1>5, <2>3 DEF Insert, InTransaction, TypeOK
    <3>2. /\ RowOf(r).owner = r /\ RowOf(r).kind = "reserve"
          /\ RowOf(r).at = clock[r]
      BY <2>3 DEF RowOf
    <3>3. ASSUME NEW x \in Requests(pending'[r])
          PROVE  \E y \in pending'[r] : Covers(y, x)
      <4>1. x \in pending[r]
        BY <3>1, <3>2 DEF Requests
      <4>2. x.owner = r /\ x.at <= clock[r]
        BY <4>1 DEF OwnInv
      <4>3. clock[r] >= x.at
        BY <4>1, <4>2, RowTypes
      <4> QED
        BY <3>1, <3>2, <4>2, <4>3 DEF Covers
    <3>4. ASSUME NEW s \in Attempts \ {r}, Reserving(s)'
          PROVE  \A x \in Requests(pending'[s]) :
                     \E y \in pending'[s] : Covers(y, x)
      BY <2>1, <2>2, <3>4 DEF Reserving, TokensInv
    <3> QED
      BY <3>3, <3>4 DEF TokensInv
  <2>4. CASE pc[r] # "insertTokens"
    <3>1. pc[r] \in {"insertRequest", "settle"}
      BY <2>1, <2>4 DEF Recordings
    <3>2. CASE PruneDue(r)
      <4>1. ~Reserving(r)'
        BY <1>5, <3>1, <3>2 DEF Insert, Reserving
      <4> QED
        BY <2>1, <2>2, <4>1, TokensFrame
    <3>3. CASE ~PruneDue(r)
      <4>1. pc'[r] = Following(pc[r]) /\ r \notin pruning'
        BY <1>5, <3>3, Move DEF Insert
      <4>2. ~Reserving(r)'
        BY <3>1, <4>1 DEF Following, Reserving
      <4> QED
        BY <2>1, <2>2, <4>2, TokensFrame
    <3> QED
      BY <3>2, <3>3
  <2> QED
    BY <2>3, <2>4
<1>6. ASSUME NEW r \in Attempts, Prune(r) PROVE TokensInv'
  <2>1. /\ r \in pruning /\ pc[r] \in Recordings /\ pruning' = pruning \ {r}
        /\ aborted' = aborted /\ pending' = pending
    BY <1>6 DEF Prune, TypeOK
  <2>2. /\ pc'[r] = Following(pc[r])
        /\ \A s \in Attempts \ {r} : pc'[s] = pc[s]
    BY <1>6, Move DEF Prune
  <2>3. Reserving(r)' => Reserving(r)
    BY <2>1, <2>2 DEF Reserving, Following, Recordings
  <2> QED
    BY <2>1, <2>2, <2>3, TokensFrame
<1>7. ASSUME NEW r \in Attempts, RecordInMemory(r) PROVE TokensInv'
  <2>1. /\ pc[r] \in Recordings /\ pruning' = pruning \ {r}
        /\ pending' = pending /\ StatementFails(r)
    BY <1>7 DEF RecordInMemory
  <2>2. /\ pc'[r] = Following(pc[r])
        /\ \A s \in Attempts \ {r} : pc'[s] = pc[s]
    BY <1>7, Move DEF RecordInMemory
  <2>3. /\ \A s \in Attempts \ {r} : s \in aborted' <=> s \in aborted
        /\ InTransaction(r) => r \in aborted'
    BY <2>1 DEF StatementFails
  <2>4. ~Reserving(r)'
    BY <2>1, <2>2, <2>3 DEF Reserving, Following, Recordings, InTransaction
  <2> QED
    BY <2>1, <2>2, <2>3, <2>4, TokensFrame
<1>8. ASSUME NEW r \in Attempts, Commit(r) \/ CommitFails(r) PROVE TokensInv'
  <2>1. PICK l \in {"call", "done"} : GoTo(r, l)
    BY <1>8 DEF Commit, CommitFails
  <2>2. ~Reserving(r)' /\ \A s \in Attempts \ {r} : pc'[s] = pc[s]
    BY <2>1, Move DEF Reserving
  <2>3. /\ pruning' = pruning
        /\ \A s \in Attempts \ {r} : /\ pending'[s] = pending[s]
                                     /\ s \in aborted' <=> s \in aborted
    BY <1>8 DEF Commit, CommitFails, EndTransaction, TypeOK
  <2> QED
    BY <2>2, <2>3, TokensFrame
<1>9. ASSUME NEW r \in Attempts, Succeed(r) \/ Fail(r) \/ CutOff(r)
      PROVE  TokensInv'
  <2>1. PICK l \in {"settle", "done"} : GoTo(r, l)
    BY <1>9 DEF Succeed, Fail, CutOff, Answered
  <2>2. ~Reserving(r)' /\ \A s \in Attempts \ {r} : pc'[s] = pc[s]
    BY <2>1, Move DEF Reserving
  <2>3. pending' = pending /\ pruning' = pruning /\ aborted' = aborted
    BY <1>9 DEF Succeed, Fail, CutOff, Answered
  <2> QED
    BY <2>2, <2>3, TokensFrame
<1> QED
  BY <1>1, <1>2, <1>3, <1>4, <1>5, <1>6, <1>7, <1>8, <1>9 DEF Next, Step

-----------------------------------------------------------------------------
(* What an attempt is charged.                                              *)

NoneFailed == faults = 0 /\ crashes = 0

\* An open transaction that has inserted its reservation.
Reserved(r) == pc[r] = "commit" \/ (pc[r] = "insertTokens" /\ r \in pruning)

\* A transaction inserts one reservation, of the estimate, and no correction.
OneReservation ==
    \A r \in Attempts : \A x \in pending[r] :
        /\ x.kind # "settle"
        /\ x.kind = "reserve" =>
             /\ Reserved(r) /\ x.tokens = est[r]
             /\ \A y \in pending[r] : y.kind = "reserve" => y = x

\* So does the table hold one, which no correction precedes.
ReserveInv ==
    \A x \in usage : x.kind = "reserve" =>
        /\ x.tokens = est[x.owner]
        /\ \A y \in usage : y.owner = x.owner /\ y.kind = "reserve" => y = x
SettleInv ==
    /\ \A x \in usage : x.kind = "settle" =>
         /\ Settled(x.owner) /\ x.tokens = charge[x.owner] - est[x.owner]
         /\ \A y \in usage : y.owner = x.owner =>
              /\ y.kind = "settle" => y = x
              /\ y.kind = "reserve" => y.at <= x.at
    /\ \A s \in Attempts : \A x \in doomed[s] : x.kind = "settle" => Settled(x.owner)
PastInv == \A x \in usage : x.at <= now
SettlingInv ==
    \A r \in Attempts : pc[r] = "settle" =>
        \A x \in usage : x.owner = r => x.at <= clock[r]

\* Whoever deletes a correction deletes the reservation.
TogetherInv ==
    \A s \in Attempts : \A x \in doomed[s] : \A y \in usage :
        x.kind = "settle" /\ y.kind = "reserve" /\ y.owner = x.owner => y \in doomed[s]

\* As long as nothing fails, a reservation that is not what it came to is corrected.
CorrectedInv ==
    NoneFailed =>
        /\ aborted = {}
        /\ \A y \in usage : y.kind = "reserve" /\ Settled(y.owner) =>
             \/ charge[y.owner] = est[y.owner]
             \/ \E x \in usage : x.owner = y.owner /\ x.kind = "settle"

LInv ==
    /\ OneReservation /\ ReserveInv /\ SettleInv /\ PastInv /\ SettlingInv
    /\ TogetherInv /\ CorrectedInv

\* What a step does to one attempt.
EstimateKept(s) ==
    /\ est'[s] = est[s] \/ pc[s] = "idle"
    /\ charge'[s] = charge[s] \/ pc[s] \in {"commit", "call"}
    /\ Settled(s) => Settled(s)'
ClockAtSettlement(s) ==
    pc'[s] = "settle" => \/ pc[s] = "settle" /\ clock'[s] = clock[s]
                         \/ clock'[s] = now /\ usage' = usage
RowsWritten(s) ==
    \/ pending'[s] = pending[s] /\ (Reserved(s) => Reserved(s)')
    \/ pending'[s] = {}
    \/ /\ pc[s] \in {"insertRequest", "insertTokens"} /\ ~Reserved(s)
       /\ pending'[s] = pending[s] \cup {RowOf(s)}
       /\ pc[s] = "insertTokens" => Reserved(s)'
Corrected(s) ==
    Settled(s)' => \/ Settled(s) \/ pc[s] = "denied"
                   \/ charge'[s] = est'[s]
                   \/ pc[s] = "settle" /\ RowOf(s) \in usage'
Fate(s) ==
    /\ EstimateKept(s) /\ ClockAtSettlement(s) /\ RowsWritten(s)
    /\ NoneFailed' /\ aborted = {} => Corrected(s)
Failures ==
    /\ NoneFailed' => NoneFailed
    /\ NoneFailed' /\ aborted = {} => aborted' = {}

\* An attempt that does not move.
LEMMA FateFrame ==
    ASSUME NEW s, pc'[s] = pc[s], clock'[s] = clock[s], est'[s] = est[s],
           charge'[s] = charge[s], pending'[s] = pending[s],
           s \in pruning' <=> s \in pruning
    PROVE  Fate(s)
BY DEF Fate, EstimateKept, ClockAtSettlement, RowsWritten, Corrected, Settled, Reserved

\* Of the others, a step of r changes nothing.
LEMMA OthersFate ==
    ASSUME TypeOK, NEW r \in Attempts, Step(r), NEW s \in Attempts \ {r}
    PROVE  Fate(s)
<1>1. s \in pruning' <=> s \in pruning
  BY DEF Step, Begin, SkipCheck, Check, CheckInMemory, Leave, Insert, Prune,
     RecordInMemory,
         Commit, CommitFails, Succeed, Fail, CutOff, Answered
<1>2. est'[s] = est[s] /\ charge'[s] = charge[s]
  BY DEF TypeOK, Step, Begin, SkipCheck, Check, CheckInMemory, Leave, Insert, Prune,
         RecordInMemory, Commit, CommitFails, Succeed, Fail, CutOff, Answered
<1>3. pending'[s] = pending[s]
  BY DEF TypeOK, Step, Begin, SkipCheck, Check, CheckInMemory, Leave, Insert, Prune,
         RecordInMemory, Commit, CommitFails, Succeed, Fail, CutOff, Answered,
         EndTransaction
<1>4. pc'[s] = pc[s] /\ clock'[s] = clock[s]
  <2>1. (\E l : GoTo(r, l)) \/ (pc' = pc /\ clock' = clock)
    BY DEF Step, Begin, SkipCheck, Check, CheckInMemory, Leave, Insert, Prune,
           RecordInMemory, Commit, CommitFails, Succeed, Fail, CutOff, Answered, Verdict
  <2> QED
    BY <2>1, Move
<1> QED
  BY <1>1, <1>2, <1>3, <1>4, FateFrame

LEMMA OwnFate ==
    ASSUME TypeOK, NEW r \in Attempts, Step(r)
    PROVE  Fate(r)
<1> USE DEF Fate, EstimateKept, ClockAtSettlement, RowsWritten, Corrected, Settled, Reserved
<1>1. CASE Begin(r)
  <2>1. pc[r] = "idle" /\ pc'[r] = "rpm"
    BY <1>1, Move DEF Begin
  <2>2. pending' = pending /\ charge' = charge
    BY <1>1 DEF Begin
  <2> QED
    BY <2>1, <2>2
<1>2. CASE SkipCheck(r) \/ Check(r) \/ CheckInMemory(r)
  <2>1. pc[r] \in Checks /\ UNCHANGED <<est, charge, pending>>
    BY <1>2 DEF SkipCheck, Check, CheckInMemory
  <2>2. PICK l \in {Following(pc[r]), "denied"} : GoTo(r, l)
    BY <1>2 DEF SkipCheck, Check, CheckInMemory, Verdict
  <2>3. pc'[r] = l /\ l \notin {"settle", "done"}
    BY <2>1, <2>2, Move DEF Following, Checks
  <2> QED
    BY <2>1, <2>3 DEF Checks
<1>3. CASE Leave(r)
  <2>1. pc[r] = "denied" /\ pc'[r] = "done" /\ UNCHANGED <<est, charge, pending>>
    BY <1>3, Move DEF Leave
  <2> QED
    BY <2>1
<1>4. CASE Insert(r)
  <2>1. /\ pc[r] \in Recordings /\ r \notin pruning /\ UNCHANGED <<est, charge>>
        /\ InTransaction(r) <=> pc[r] # "settle"
    BY <1>4 DEF Insert, Recordings, InTransaction, Checks
  <2>2. \/ pc'[r] = pc[r] /\ clock'[r] = clock[r] /\ r \in pruning'
        \/ pc'[r] = Following(pc[r])
    <3>1. CASE PruneDue(r)
      BY <1>4, <3>1 DEF Insert
    <3>2. CASE ~PruneDue(r)
      BY <1>4, <3>2, Move DEF Insert
    <3> QED
      BY <3>1, <3>2
  <2>3. CASE pc[r] = "settle"
    <3>1. usage' = usage \cup {RowOf(r)} /\ pending' = pending
      BY <1>4, <2>1, <2>3 DEF Insert
    <3> QED
      BY <2>1, <2>2, <2>3, <3>1 DEF Following
  <2>4. CASE pc[r] \in {"insertRequest", "insertTokens"}
    <3>1. pending'[r] = pending[r] \cup {RowOf(r)}
      BY <1>4, <2>1, <2>4 DEF Insert, TypeOK
    <3>2. pc'[r] \notin {"settle", "done"} /\ (pc[r] = "insertTokens" => Reserved(r)')
      BY <2>2, <2>4 DEF Following
    <3> QED
      BY <2>1, <2>4, <3>1, <3>2
  <2> QED
    BY <2>1, <2>3, <2>4 DEF Recordings
<1>5. CASE Prune(r) \/ RecordInMemory(r)
  <2>1. pc[r] \in Recordings /\ UNCHANGED <<est, charge, pending>>
    BY <1>5 DEF Prune, RecordInMemory, TypeOK
  <2>2. pc'[r] = Following(pc[r])
    BY <1>5, Move DEF Prune, RecordInMemory
  <2>3. pc[r] = "settle" => pc'[r] = "done"
    BY <2>2 DEF Following
  <2>4. pc[r] = "insertTokens" => pc'[r] = "commit"
    BY <2>2 DEF Following
  <2>5. pc[r] # "settle" => pc'[r] \notin {"settle", "done"}
    BY <2>1, <2>2 DEF Following, Recordings
  <2>6. NoneFailed' /\ aborted = {} => r \in pruning
    BY <1>5 DEF Prune, RecordInMemory, StatementFails, NoneFailed, TypeOK
  <2> QED
    BY <2>1, <2>3, <2>4, <2>5, <2>6 DEF Recordings
<1>6. CASE Commit(r)
  <2>1. pc[r] = "commit" /\ pc'[r] = "call" /\ est' = est
    BY <1>6, Move DEF Commit
  <2>2. pending'[r] = {}
    BY <1>6 DEF Commit, EndTransaction, TypeOK
  <2> QED
    BY <2>1, <2>2
<1>7. CASE CommitFails(r)
  <2>1. pc[r] = "commit" /\ pc'[r] = "done" /\ UNCHANGED <<est, charge>>
    BY <1>7, Move DEF CommitFails
  <2>2. pending'[r] = {} /\ ~NoneFailed'
    BY <1>7 DEF CommitFails, EndTransaction, TypeOK, NoneFailed
  <2> QED
    BY <2>1, <2>2
<1>8. ASSUME NEW n, NEW l \in {"settle", "done"}, Answered(r, n, l),
             l = "done" => n = est[r]
      PROVE  Fate(r)
  <2>1. /\ pc[r] = "call" /\ pc'[r] = l
        /\ UNCHANGED <<est, pending, usage>> /\ pruning' = pruning
    BY <1>8, Move DEF Answered
  <2>2. charge'[r] = n
    BY <1>8 DEF Answered, TypeOK
  <2>3. l = "settle" => clock'[r] = now
    BY <1>8 DEF Answered, GoTo, TypeOK
  <2>4. r \notin pruning
    BY <2>1 DEF TypeOK, Recordings
  <2> QED
    BY <1>8, <2>1, <2>2, <2>3, <2>4
<1>9. CASE Succeed(r) \/ Fail(r) \/ CutOff(r)
  <2>1. \E n : \E l \in {"settle", "done"} : Answered(r, n, l) /\ (l = "done" => n = est[r])
    BY <1>9 DEF Succeed, Fail, CutOff
  <2> QED
    BY <1>8, <2>1
<1> QED
  BY <1>1, <1>2, <1>3, <1>4, <1>5, <1>6, <1>7, <1>9 DEF Step

LEMMA StepFate ==
    ASSUME TypeOK, [Next]_vars
    PROVE  Failures /\ \A s \in Attempts : Fate(s)
<1>1. CASE Tick \/ UNCHANGED vars
  <2>1. UNCHANGED <<usage, pc, clock, est, charge, pending, pruning, aborted, faults,
                    crashes>>
    BY <1>1 DEF Tick, vars
  <2> QED
    BY <2>1, FateFrame DEF Failures, NoneFailed
<1>2. CASE Restart
  <2>1. ~NoneFailed'
    BY <1>2 DEF Restart, NoneFailed, TypeOK
  <2>2. ASSUME NEW s \in Attempts PROVE Fate(s)
    <3>1. /\ pc'[s] = IF pc[s] = "idle" THEN "idle" ELSE "done"
          /\ pending'[s] = {} /\ UNCHANGED <<est, charge>>
      BY <1>2 DEF Restart
    <3> QED
      BY <2>1, <3>1 DEF Fate, EstimateKept, ClockAtSettlement, RowsWritten, Settled
  <2> QED
    BY <2>1, <2>2 DEF Failures
<1>3. ASSUME NEW r \in Attempts, Step(r)
      PROVE  Failures /\ \A s \in Attempts : Fate(s)
  <2>1. Failures
    <3>1. crashes' = crashes /\ (faults' = faults \/ faults' = faults + 1)
      BY <1>3 DEF Step, Begin, SkipCheck, Check, CheckInMemory, Leave, Insert, Prune,
         RecordInMemory, Commit, CommitFails, Succeed, Fail, CutOff, Answered,
         StatementFails
    <3>2. aborted' \subseteq aborted \/ faults' = faults + 1
      BY <1>3 DEF Step, Begin, SkipCheck, Check, CheckInMemory, Leave, Insert, Prune,
         RecordInMemory, Commit, CommitFails, Succeed, Fail, CutOff, Answered,
         StatementFails,
         EndTransaction
    <3>3. faults \in Nat
      BY DEF TypeOK
    <3> QED
      BY <3>1, <3>2, <3>3 DEF Failures, NoneFailed
  <2> QED
    BY <1>3, <2>1, OwnFate, OthersFate
<1> QED
  BY <1>1, <1>2, <1>3 DEF Next

\* What reaches the table: rows that one attempt commits, or a correction.
LEMMA NewRow ==
    ASSUME TypeOK, OwnInv, OneReservation, Effects, NEW x \in usage', x \notin usage
    PROVE  \/ /\ x.kind # "settle" /\ pc[x.owner] = "commit" /\ x \in pending[x.owner]
              /\ x.owner \in Attempts
              /\ usage' \subseteq usage \cup pending[x.owner]
           \/ /\ x.owner \in Attempts /\ x = RowOf(x.owner) /\ x.kind = "settle"
              /\ x.tokens = charge[x.owner] - est[x.owner] /\ x.at = clock[x.owner]
              /\ pc[x.owner] = "settle" /\ ~Settled(x.owner) /\ Settled(x.owner)'
              /\ usage' = usage \cup {x}
<1>1. CASE \E r \in Attempts : pc[r] = "settle" /\ ~Settled(r) /\ Settled(r)'
                               /\ usage' = usage \cup {RowOf(r)}
  <2>1. PICK r \in Attempts : pc[r] = "settle" /\ ~Settled(r) /\ Settled(r)'
                              /\ usage' = usage \cup {RowOf(r)}
    BY <1>1
  <2>2. x = RowOf(r)
    BY <2>1
  <2>3. x.owner = r /\ x.kind = "settle" /\ x.tokens = charge[r] - est[r] /\ x.at = clock[r]
    BY <2>1, <2>2 DEF RowOf
  <2> QED
    BY <2>1, <2>2, <2>3
<1>2. CASE \E r \in Attempts :
             pc[r] = "commit" /\ usage' = (usage \ doomed[r]) \cup pending[r]
  <2>1. PICK r \in Attempts :
             pc[r] = "commit" /\ usage' = (usage \ doomed[r]) \cup pending[r]
    BY <1>2
  <2>2. x \in pending[r]
    BY <2>1
  <2>3. x.owner = r /\ x.kind # "settle"
    BY <2>2 DEF OwnInv, OneReservation
  <2> QED
    BY <2>1, <2>2, <2>3
<1> QED
  BY <1>1, <1>2 DEF Effects, UsageStep

LEMMA OwnersTyped ==
    ASSUME TypeOK
    PROVE  /\ \A x \in usage : x.owner \in Attempts /\ x.at \in Nat /\ x.tokens \in Int
           /\ \A s \in Attempts : \A x \in doomed[s] : x.owner \in Attempts
           /\ \A s \in Attempts : est[s] \in Nat /\ charge[s] \in Nat /\ clock[s] \in Nat
BY DEF TypeOK, Rows

LEMMA NextOneReservation ==
    ASSUME TypeOK, OwnInv, OneReservation, \A s \in Attempts : Fate(s)
    PROVE  OneReservation'
<1> SUFFICES ASSUME NEW r \in Attempts
             PROVE  \A x \in pending'[r] :
                      /\ x.kind # "settle"
                      /\ x.kind = "reserve" =>
                           /\ Reserved(r)' /\ x.tokens = est'[r]
                           /\ \A y \in pending'[r] : y.kind = "reserve" => y = x
  BY DEF OneReservation
<1>1. CASE pending'[r] = pending[r] /\ (Reserved(r) => Reserved(r)')
  <2>1. Reserved(r) => est'[r] = est[r]
    BY DEF Fate, EstimateKept, Reserved
  <2> QED
    BY <1>1, <2>1 DEF OneReservation
<1>2. CASE pending'[r] = {}
  BY <1>2
<1>3. CASE /\ pc[r] \in {"insertRequest", "insertTokens"} /\ ~Reserved(r)
           /\ pending'[r] = pending[r] \cup {RowOf(r)}
           /\ pc[r] = "insertTokens" => Reserved(r)'
  <2>1. \A x \in pending[r] : x.kind \notin {"settle", "reserve"}
    BY <1>3 DEF OneReservation
  <2>2. RowOf(r).kind \in {"request", "reserve"}
    BY <1>3 DEF RowOf
  <2>3. RowOf(r).kind = "reserve" => pc[r] = "insertTokens" /\ RowOf(r).tokens = est[r]
    BY <1>3 DEF RowOf
  <2>4. est'[r] = est[r]
    BY <1>3 DEF Fate, EstimateKept
  <2> QED
    BY <1>3, <2>1, <2>2, <2>3, <2>4
<1> QED
  BY <1>1, <1>2, <1>3 DEF Fate, RowsWritten

LEMMA NextReserve ==
    ASSUME TypeOK, OwnInv, FreshInv, OneReservation, ReserveInv, Effects,
           \A s \in Attempts : Fate(s)
    PROVE  ReserveInv'
<1> SUFFICES ASSUME NEW x \in usage', x.kind = "reserve"
             PROVE  /\ x.tokens = est'[x.owner]
                    /\ \A y \in usage' : y.owner = x.owner /\ y.kind = "reserve" => y = x
  BY DEF ReserveInv
<1>1. CASE x \in usage
  <2>1. x.owner \in Attempts /\ pc[x.owner] \notin Before
    BY <1>1, OwnersTyped DEF FreshInv
  <2>2. est'[x.owner] = est[x.owner]
    BY <2>1 DEF Fate, EstimateKept, Before
  <2>3. ASSUME NEW y \in usage', y.owner = x.owner, y.kind = "reserve" PROVE y \in usage
    BY <2>1, <2>3, NewRow DEF Before
  <2> QED
    BY <1>1, <2>2, <2>3 DEF ReserveInv
<1>2. CASE x \notin usage
  <2>1. /\ pc[x.owner] = "commit" /\ x \in pending[x.owner] /\ x.owner \in Attempts
        /\ usage' \subseteq usage \cup pending[x.owner]
    BY <1>2, NewRow
  <2>2. est'[x.owner] = est[x.owner] /\ x.tokens = est[x.owner]
    BY <2>1 DEF Fate, EstimateKept, OneReservation
  <2>3. ASSUME NEW y \in usage', y.owner = x.owner, y.kind = "reserve" PROVE y = x
    <3>1. y \notin usage
      BY <2>1, <2>3 DEF FreshInv, Before
    <3> QED
      BY <2>1, <2>3, <3>1 DEF OneReservation
  <2> QED
    BY <2>2, <2>3
<1> QED
  BY <1>1, <1>2

LEMMA NextSettle ==
    ASSUME TypeOK, OwnInv, FreshInv, OneReservation, SettleInv, SettlingInv, Effects,
           \A s \in Attempts : Fate(s)
    PROVE  SettleInv'
<1>1. ASSUME NEW s \in Attempts, NEW x \in doomed'[s], x.kind = "settle"
      PROVE  Settled(x.owner)'
  <2>1. x \in doomed[s] \/ x \in usage
    BY <1>1 DEF Effects, DoomedStep, Expired
  <2>2. x.owner \in Attempts /\ Settled(x.owner)
    BY <1>1, <2>1, OwnersTyped DEF SettleInv
  <2> QED
    BY <2>2 DEF Fate, EstimateKept
<1>2. ASSUME NEW x \in usage', x.kind = "settle"
      PROVE  /\ Settled(x.owner)' /\ x.tokens = charge'[x.owner] - est'[x.owner]
             /\ \A y \in usage' : y.owner = x.owner =>
                  /\ y.kind = "settle" => y = x
                  /\ y.kind = "reserve" => y.at <= x.at
  <2>1. CASE x \in usage
    <3>1. x.owner \in Attempts /\ Settled(x.owner)
      BY <1>2, <2>1, OwnersTyped DEF SettleInv
    <3>2. pc[x.owner] \in {"settle", "done"}
      BY <3>1 DEF Settled
    <3>3. /\ Settled(x.owner)' /\ charge'[x.owner] = charge[x.owner]
          /\ est'[x.owner] = est[x.owner]
      BY <3>1, <3>2 DEF Fate, EstimateKept
    <3>4. ASSUME NEW y \in usage', y.owner = x.owner PROVE y \in usage
      BY <3>1, <3>2, <3>4, NewRow
    <3> QED
      BY <1>2, <2>1, <3>3, <3>4 DEF SettleInv
  <2>2. CASE x \notin usage
    <3>1. /\ x.owner \in Attempts /\ x.tokens = charge[x.owner] - est[x.owner]
          /\ x.at = clock[x.owner] /\ pc[x.owner] = "settle"
          /\ ~Settled(x.owner) /\ Settled(x.owner)' /\ usage' = usage \cup {x}
      BY <1>2, <2>2, NewRow
    <3>2. charge'[x.owner] = charge[x.owner] /\ est'[x.owner] = est[x.owner]
      BY <3>1 DEF Fate, EstimateKept
    <3>3. ASSUME NEW y \in usage', y.owner = x.owner
          PROVE  (y.kind = "settle" => y = x) /\ (y.kind = "reserve" => y.at <= x.at)
      <4>1. CASE y = x
        BY <1>2, <4>1
      <4>2. CASE y \in usage
        BY <3>1, <3>3, <4>2 DEF SettleInv, SettlingInv
      <4> QED
        BY <3>1, <4>1, <4>2
    <3> QED
      BY <3>1, <3>2, <3>3
  <2> QED
    BY <2>1, <2>2
<1> QED
  BY <1>1, <1>2 DEF SettleInv

LEMMA NextPast ==
    ASSUME TypeOK, ClockInv, OwnInv, OneReservation, PastInv, Effects
    PROVE  PastInv'
<1> SUFFICES ASSUME NEW x \in usage' PROVE x.at <= now'
  BY DEF PastInv
<1>1. now \in Nat /\ now' \in Nat /\ now' >= now
  BY DEF TypeOK, Effects
<1>2. CASE x \in usage
  BY <1>1, <1>2, OwnersTyped DEF PastInv
<1>3. CASE x \notin usage
  <2>1. x.owner \in Attempts /\ x.at <= clock[x.owner] /\ x.at \in Nat
    BY <1>3, NewRow, OwnersTyped, RowTypes DEF OwnInv
  <2>2. clock[x.owner] \in Nat /\ clock[x.owner] <= now
    BY <2>1, OwnersTyped DEF ClockInv
  <2> QED
    BY <1>1, <2>1, <2>2
<1> QED
  BY <1>2, <1>3

LEMMA NextSettling ==
    ASSUME TypeOK, ClockInv, ClockInv', OwnInv, OneReservation, SettlingInv, Effects,
           PastInv, \A s \in Attempts : Fate(s)
    PROVE  SettlingInv'
<1> SUFFICES ASSUME NEW r \in Attempts, pc'[r] = "settle", NEW x \in usage', x.owner = r
             PROVE  x.at <= clock'[r]
  BY DEF SettlingInv
<1>1. CASE clock'[r] = now /\ usage' = usage
  BY <1>1 DEF PastInv
<1>2. CASE pc[r] = "settle" /\ clock'[r] = clock[r]
  <2>1. CASE x \in usage
    BY <1>2, <2>1 DEF SettlingInv
  <2>2. CASE x \notin usage
    <3>1. x.at = clock[r]
      BY <1>2, <2>2, NewRow
    <3> QED
      BY <1>2, <3>1, OwnersTyped
  <2> QED
    BY <2>1, <2>2
<1> QED
  BY <1>1, <1>2 DEF Fate, ClockAtSettlement

LEMMA NextTogether ==
    ASSUME TypeOK, OwnInv, FreshInv, OneReservation, SettleInv, TogetherInv, Effects
    PROVE  TogetherInv'
<1> SUFFICES ASSUME NEW s \in Attempts, NEW x \in doomed'[s], NEW y \in usage',
                    x.kind = "settle", y.kind = "reserve", y.owner = x.owner
             PROVE  y \in doomed'[s]
  BY DEF TogetherInv
<1>1. CASE y \in usage
  <2>1. CASE doomed'[s] = doomed[s]
    BY <1>1, <2>1 DEF TogetherInv
  <2>2. CASE doomed'[s] = doomed[s] \cup Expired(usage, clock[s])
    <3>1. CASE x \in doomed[s]
      BY <1>1, <2>2, <3>1 DEF TogetherInv
    <3>2. CASE x \in Expired(usage, clock[s])
      <4>1. x \in usage /\ x.at <= clock[s] - Day
        BY <3>2 DEF Expired
      <4>2. y.at <= x.at
        BY <1>1, <4>1 DEF SettleInv
      <4>3. y.at <= clock[s] - Day
        BY <1>1, <4>1, <4>2, OwnersTyped, SizeAssumption
      <4> QED
        BY <1>1, <2>2, <4>3 DEF Expired
    <3> QED
      BY <2>2, <3>1, <3>2
  <2> QED
    BY <2>1, <2>2 DEF Effects, DoomedStep
<1>2. CASE y \notin usage
  <2>1. y.owner \in Attempts /\ pc[y.owner] = "commit" /\ usage' # usage
    BY <1>2, NewRow
  <2>2. x \in doomed[s]
    BY <2>1 DEF Effects, DoomedStep
  <2> QED
    BY <2>1, <2>2 DEF SettleInv, Settled
<1> QED
  BY <1>1, <1>2

LEMMA NextCorrected ==
    ASSUME TypeOK, OwnInv, FreshInv, OneReservation, SettleInv, TogetherInv,
    CorrectedInv,
           Effects, Failures, \A s \in Attempts : Fate(s)
    PROVE  CorrectedInv'
<1> SUFFICES ASSUME NoneFailed'
             PROVE  /\ aborted' = {}
                    /\ \A y \in usage' : y.kind = "reserve" /\ Settled(y.owner)' =>
                         \/ charge'[y.owner] = est'[y.owner]
                         \/ \E x \in usage' : x.owner = y.owner /\ x.kind = "settle"
  BY DEF CorrectedInv
<1>1. NoneFailed /\ aborted = {} /\ aborted' = {}
  BY DEF Failures, CorrectedInv
<1>2. ASSUME NEW y \in usage', y.kind = "reserve", Settled(y.owner)',
             charge'[y.owner] # est'[y.owner]
      PROVE  \E x \in usage' : x.owner = y.owner /\ x.kind = "settle"
  <2>1. y.owner \in Attempts
    BY <1>2, OwnersTyped, NewRow
  <2>2. Settled(y.owner) \/ pc[y.owner] = "denied"
        \/ (pc[y.owner] = "settle" /\ RowOf(y.owner) \in usage')
    BY <1>1, <1>2, <2>1 DEF Fate, Corrected
  <2>3. pc[y.owner] # "commit"
    <3>1. CASE pc[y.owner] = "commit"
      BY <2>2, <3>1 DEF Settled
    <3> QED
      BY <3>1
  <2>4. y \in usage
    BY <1>2, <2>3, NewRow
  <2>5. CASE pc[y.owner] = "denied"
    BY <2>1, <2>4, <2>5 DEF FreshInv, Before
  <2>6. CASE pc[y.owner] = "settle" /\ RowOf(y.owner) \in usage'
    BY <2>6 DEF RowOf
  <2>7. CASE Settled(y.owner)
    <3>1. charge'[y.owner] = charge[y.owner] /\ est'[y.owner] = est[y.owner]
      BY <2>1, <2>7 DEF Fate, EstimateKept, Settled
    <3>2. PICK x \in usage : x.owner = y.owner /\ x.kind = "settle"
      BY <1>1, <1>2, <2>4, <2>7, <3>1 DEF CorrectedInv
    <3>3. y.at <= x.at
      BY <1>2, <2>4, <3>2 DEF SettleInv
    <3>4. x \in usage'
      <4>1. ASSUME NEW r \in Attempts, usage' = usage \ Expired(usage, clock[r])
            PROVE  x \in usage'
        <5>1. ~(y.at <= clock[r] - Day)
          BY <2>4, <4>1 DEF Expired
        <5>2. ~(x.at <= clock[r] - Day)
          BY <2>4, <3>2, <3>3, <5>1, OwnersTyped, SizeAssumption
        <5> QED
          BY <3>2, <4>1, <5>2 DEF Expired
      <4>2. ASSUME NEW r \in Attempts, pc[r] = "commit",
                   usage' = (usage \ doomed[r]) \cup pending[r]
            PROVE  x \in usage'
        <5>1. y \notin pending[r]
          BY <2>3, <4>2 DEF OwnInv
        <5>2. y \notin doomed[r]
          BY <1>2, <4>2, <5>1
        <5>3. x \notin doomed[r]
          BY <1>2, <2>4, <3>2, <5>2 DEF TogetherInv
        <5> QED
          BY <3>2, <4>2, <5>3
      <4> QED
        BY <3>2, <4>1, <4>2 DEF Effects, UsageStep
    <3> QED
      BY <3>2, <3>4
  <2> QED
    BY <2>2, <2>5, <2>6, <2>7
<1> QED
  BY <1>1, <1>2

LEMMA InitLInv == Init => LInv
<1> SUFFICES ASSUME Init PROVE LInv
  OBVIOUS
<1>1. usage = {} /\ aborted = {} /\ \A r \in Attempts : pending[r] = {} /\ doomed[r] = {}
  BY DEF Init
<1>2. \A r \in Attempts : pc[r] = "idle"
  BY DEF Init
<1> QED
  BY <1>1, <1>2 DEF LInv, OneReservation, ReserveInv, SettleInv, PastInv, SettlingInv,
     TogetherInv, CorrectedInv

LEMMA NextLInv ==
    ASSUME AInv, AInv', LInv, [Next]_vars
    PROVE  LInv'
<1>1. /\ TypeOK /\ ClockInv /\ ClockInv' /\ OwnInv /\ FreshInv
      /\ Effects /\ Failures /\ \A s \in Attempts : Fate(s)
  BY StepEffects, StepFate DEF AInv
<1> QED
  BY <1>1, NextOneReservation, NextReserve, NextSettle, NextPast, NextSettling,
     NextTogether,
     NextCorrected DEF LInv

-----------------------------------------------------------------------------
(* The sum of the tokens of one row, and of two.                            *)

\* One step of the fold, at each subset of S.
Folded(S, g) ==
    [s \in SUBSET S |->
        IF s = {} THEN 0 ELSE LET z == CHOOSE a \in s : TRUE IN z.tokens + g[s \ {z}]]

IsFold(S, g) == g = Folded(S, g)

\* TokenSum is the fold, if there is one.
LEMMA Unfold ==
    ASSUME NEW S, NEW h, IsFold(S, h)
    PROVE  \E g : IsFold(S, g) /\ TokenSum(S) = g[S]
<1> DEFINE it == CHOOSE g : g = Folded(S, g)
<1>1. TokenSum(S) = it[S]
  BY DEF TokenSum, MapThenSumSet, MapThenFoldSet, Folded
<1>2. it = Folded(S, it)
  BY DEF IsFold
<1> HIDE DEF it
<1> QED
  BY <1>1, <1>2 DEF IsFold

\* The fold at the subsets of two rows, which need not differ.
LEMMA FoldedValues ==
    ASSUME NEW x, NEW y, NEW g, IsFold({x, y}, g)
    PROVE  /\ g[{}] = 0
           /\ g[{x}] = x.tokens + 0 /\ g[{y}] = y.tokens + 0
           /\ x # y => \/ g[{x, y}] = x.tokens + g[{y}]
                       \/ g[{x, y}] = y.tokens + g[{x}]
<1> DEFINE S == {x, y}
<1>1. \A s \in SUBSET S :
        g[s] = IF s = {} THEN 0 ELSE LET z == CHOOSE a \in s : TRUE IN z.tokens + g[s \ {z}]
  BY DEF IsFold, Folded
<1>2. g[{}] = 0
  BY <1>1
<1>3. ASSUME NEW v \in S PROVE g[{v}] = v.tokens + 0
  <2> DEFINE z == CHOOSE a \in {v} : TRUE
  <2>1. {v} \in SUBSET S /\ {v} # {}
    OBVIOUS
  <2>2. g[{v}] = z.tokens + g[{v} \ {z}]
    BY <1>1, <2>1
  <2>3. z = v /\ {v} \ {z} = {}
    OBVIOUS
  <2> HIDE DEF z
  <2> QED
    BY <1>2, <2>2, <2>3
<1>4. ASSUME x # y
      PROVE  g[S] = x.tokens + g[{y}] \/ g[S] = y.tokens + g[{x}]
  <2> DEFINE z == CHOOSE a \in S : TRUE
  <2>1. g[S] = z.tokens + g[S \ {z}]
    BY <1>1
  <2>2. z = x \/ z = y
    OBVIOUS
  <2> HIDE DEF z
  <2>3. CASE z = x
    <3>1. S \ {z} = {y}
      BY <1>4, <2>3
    <3> QED
      BY <2>1, <2>3, <3>1
  <2>4. CASE z = y
    <3>1. S \ {z} = {x}
      BY <1>4, <2>4
    <3> QED
      BY <2>1, <2>4, <3>1
  <2> QED
    BY <2>2, <2>3, <2>4
<1> QED
  BY <1>2, <1>3, <1>4

\* There is one.
LEMMA FoldExists ==
    ASSUME NEW x, NEW y, x.tokens \in Int, y.tokens \in Int
    PROVE  \E h : IsFold({x, y}, h)
<1> DEFINE S == {x, y}
           w == [s \in SUBSET S |->
                    IF s = {} THEN 0 ELSE IF s = {x} THEN x.tokens
                    ELSE IF s = {y} THEN y.tokens ELSE x.tokens + y.tokens]
<1>1. \A s \in SUBSET S : s \in {{}, {x}, {y}, S}
  OBVIOUS
<1>2. w[{}] = 0 /\ w[{x}] = x.tokens /\ w[{y}] = y.tokens
  OBVIOUS
<1>3. S # {x} /\ S # {y} => w[S] = x.tokens + y.tokens
  OBVIOUS
<1>4. ASSUME NEW s \in SUBSET S, s # {}
      PROVE  w[s] = LET z == CHOOSE a \in s : TRUE IN z.tokens + w[s \ {z}]
  <2> DEFINE z == CHOOSE a \in s : TRUE
  <2> SUFFICES w[s] = z.tokens + w[s \ {z}]
    OBVIOUS
  <2>1. z \in s
    BY <1>4
  <2> HIDE DEF z, w
  <2>2. ASSUME NEW v \in S, s = {v}, v.tokens \in Int, w[{v}] = v.tokens
        PROVE  w[s] = z.tokens + w[s \ {z}]
    <3>1. z = v /\ s \ {z} = {}
      BY <2>1, <2>2
    <3>2. z.tokens + w[s \ {z}] = v.tokens + 0
      BY <1>2, <3>1
    <3> QED
      BY <2>2, <3>2
  <2>3. CASE s = S /\ S # {x} /\ S # {y}
    <3>1. CASE z = x
      <4>1. s \ {z} = {y}
        BY <2>3, <3>1
      <4>2. z.tokens + w[s \ {z}] = x.tokens + y.tokens
        BY <1>2, <3>1, <4>1
      <4> QED
        BY <1>3, <2>3, <4>2
    <3>2. CASE z = y
      <4>1. s \ {z} = {x}
        BY <2>3, <3>2
      <4>2. z.tokens + w[s \ {z}] = y.tokens + x.tokens
        BY <1>2, <3>2, <4>1
      <4> QED
        BY <1>3, <2>3, <4>2
    <3> QED
      BY <2>1, <2>3, <3>1, <3>2
  <2> QED
    BY <1>1, <1>2, <1>4, <2>2, <2>3
<1>5. IsFold(S, w)
  BY <1>4 DEF IsFold, Folded
<1> QED
  BY <1>5

LEMMA SumOfRows ==
    ASSUME NEW x, NEW y, x.tokens \in Int, y.tokens \in Int
    PROVE  /\ TokenSum({x}) = x.tokens
           /\ x # y => TokenSum({x, y}) = x.tokens + y.tokens
<1>1. TokenSum({x}) = x.tokens
  <2>1. {x} = {x, x}
    OBVIOUS
  <2>2. PICK g : IsFold({x, x}, g) /\ TokenSum({x, x}) = g[{x, x}]
    BY FoldExists, Unfold
  <2>3. g[{x}] = x.tokens + 0
    BY <2>2, FoldedValues
  <2>4. TokenSum({x}) = g[{x}]
    BY <2>1, <2>2
  <2>5. x.tokens + 0 = x.tokens
    OBVIOUS
  <2> QED
    BY <2>3, <2>4, <2>5
<1>2. ASSUME x # y PROVE TokenSum({x, y}) = x.tokens + y.tokens
  <2>1. PICK g : IsFold({x, y}, g) /\ TokenSum({x, y}) = g[{x, y}]
    BY FoldExists, Unfold
  <2>2. /\ g[{}] = 0
        /\ g[{x}] = x.tokens + 0 /\ g[{y}] = y.tokens + 0
        /\ x # y => \/ g[{x, y}] = x.tokens + g[{y}]
                    \/ g[{x, y}] = y.tokens + g[{x}]
    BY <2>1, FoldedValues
  <2>3. g[{x}] = x.tokens /\ g[{y}] = y.tokens
    BY <2>2
  <2>4. g[{x, y}] = x.tokens + g[{y}] \/ g[{x, y}] = y.tokens + g[{x}]
    BY <1>2, <2>2
  <2>5. g[{x, y}] = x.tokens + y.tokens \/ g[{x, y}] = y.tokens + x.tokens
    BY <2>3, <2>4
  <2> QED
    BY <2>1, <2>5
<1> QED
  BY <1>1, <1>2

\* The rows of a finished attempt are its reservation and, if it has one, its
\* correction.
LEMMA NetOfAttempt ==
    ASSUME TypeOK, LInv, NEW r \in Attempts,
           NEW y \in usage, y.owner = r, y.kind = "reserve",
           pc[r] = "done", NoneFailed
    PROVE  Net(r) = charge[r]
<1> DEFINE rows == {x \in Tokens(usage) : x.owner = r}
<1>1. Net(r) = TokenSum(rows)
  BY DEF Net
<1>2. y.tokens = est[r] /\ est[r] \in Int /\ charge[r] \in Int
  BY OwnersTyped DEF LInv, ReserveInv
<1>3. \A x \in rows : x = y \/ (x \in usage /\ x.owner = r /\ x.kind = "settle")
  BY DEF Tokens, TypeOK, Rows, Kinds, LInv, ReserveInv
<1>4. CASE \E x \in usage : x.owner = r /\ x.kind = "settle"
  <2>1. PICK x \in usage : x.owner = r /\ x.kind = "settle"
    BY <1>4
  <2>2. x.tokens = charge[r] - est[r]
    BY <2>1 DEF LInv, SettleInv
  <2>3. rows = {x, y} /\ x # y
    BY <1>3, <2>1 DEF Tokens, LInv, SettleInv
  <2>4. x.tokens \in Int /\ y.tokens \in Int
    BY OwnersTyped
  <2>5. TokenSum(rows) = x.tokens + y.tokens
    BY <2>3, <2>4, SumOfRows
  <2>6. x.tokens + y.tokens = charge[r]
    BY <1>2, <2>2
  <2> QED
    BY <1>1, <2>5, <2>6
<1>5. CASE ~\E x \in usage : x.owner = r /\ x.kind = "settle"
  <2>1. rows = {y}
    BY <1>3, <1>5 DEF Tokens
  <2>2. charge[r] = est[r]
    BY <1>5 DEF LInv, CorrectedInv, Settled
  <2>3. TokenSum({y}) = y.tokens
    BY <1>2, SumOfRows
  <2> QED
    BY <1>1, <1>2, <2>1, <2>2, <2>3
<1> QED
  BY <1>4, <1>5

-----------------------------------------------------------------------------
(* The theorems.                                                            *)

LEMMA NextAInv == AInv /\ [Next]_vars => AInv'
<1> SUFFICES ASSUME AInv, [Next]_vars PROVE AInv'
  OBVIOUS
<1>1. TypeOK' /\ ClockInv' /\ Effects
  BY NextType, ClockStep, StepEffects DEF AInv
<1> QED
  BY <1>1, NextDoomed, NextOwn, NextFresh, NextTokens, NextClosed, NextCovered
  DEF AInv

\* Rows leave the table when their deletion is committed, and had expired when
\* it was decided.
LEMMA StepPrunes ==
    ASSUME AInv, [Next]_vars, NEW x \in usage, x \notin usage'
    PROVE  x.at <= now - Day
<1>1. Effects /\ TypeOK /\ ClockInv /\ DoomedInv
  BY StepEffects DEF AInv
<1>2. PICK r \in Attempts : x \in doomed[r] \/ x \in Expired(usage, clock[r])
  BY <1>1 DEF Effects, UsageStep
<1>3. CASE x \in doomed[r]
  BY <1>1, <1>3 DEF DoomedInv
<1>4. CASE x \in Expired(usage, clock[r])
  BY <1>1, <1>4, RowTypes, SizeAssumption
  DEF ClockInv, Expired, SizeAssumption
<1> QED
  BY <1>2, <1>3, <1>4

\* PruneOnlyExpired: whatever else is under way, the clean-up that rides on
\* recordUsage deletes no row the day window of any later check would count.
THEOREM PruneOnlyExpiredHolds == Spec => PruneOnlyExpired
<1>1. AInv /\ [Next]_vars => [\A x \in usage \ usage' : x.at <= now - Day]_vars
  BY StepPrunes
<1> QED
  BY <1>1, InitAInv, NextAInv, PTL DEF Spec, PruneOnlyExpired

\* ReservationAtomic: routes/proxy.ts never leaves a request row without the
\* token row of the same attempt, whichever statement, COMMIT or process fails
\* and whichever transaction prunes.
THEOREM ReservationIsAtomic == Spec => []ReservationAtomic
<1>1. AInv => ReservationAtomic
  BY DEF AInv, CoveredInv, ReservationAtomic, Covers
<1> QED
  BY <1>1, InitAInv, NextAInv, PTL DEF Spec

\* SettledExactly: as long as no statement fails and the process goes on, a finished
\* attempt whose reservation is kept is charged what it came to, however the rows of
\* others, their clean-ups and the correction interleave: routes/proxy.ts with
\* recordTokens.
THEOREM SettlementIsExact == Spec => []SettledExactly
<1>1. AInv /\ LInv => SettledExactly
  BY NetOfAttempt DEF AInv, SettledExactly, NoneFailed
<1>2. AInv /\ LInv /\ [Next]_vars => (AInv /\ LInv)'
  BY NextAInv, NextLInv
<1>3. Init => AInv /\ LInv
  BY InitAInv, InitLInv
<1> QED
  BY <1>1, <1>2, <1>3, PTL DEF Spec

=============================================================================
