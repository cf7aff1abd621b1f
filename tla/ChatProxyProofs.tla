---------------------------- MODULE ChatProxyProofs ----------------------------
(* Proofs about routes/proxy.ts.  Of ChatProxy: what the retry loop of one   *)
(* request keeps, and what the requests together leave in the ledger.  Of    *)
(* StickySessions: what steers the turns of a conversation.                  *)
EXTENDS ChatProxy, StickySessions, SequenceTheorems, FiniteSetTheorems, TLAPS

-----------------------------------------------------------------------------
(* The inductive invariant.                                                 *)

Routed == {"commit", "call", "settle", "retry", "fail", "cooldown"}

\* A pass in its transaction has not used up the retries.
PassLeft(r) ==
    pc[r] \in {"models", "keys", "mark", "commit"} => attempt[r] < MaxRetries

\* A pass looks at keys of the first of the models it has left.
AtModel(r) ==
    pc[r] \in {"keys", "mark"} => /\ modelsLeft[r] # <<>>
                                  /\ keysLeft[r] \subseteq KeysOf[Head(modelsLeft[r])]

\* It serves from that model.
AtRoute(r) ==
    pc[r] \in Routed => /\ route[r] \in Pairs
                        /\ modelsLeft[r] # <<>>
                        /\ route[r][1] = Head(modelsLeft[r])

\* Only a transaction waits for a lock, and it is never aborted while no one is open.
OwnTransaction(r) ==
    /\ wants[r] # {} => pc[r] = "mark"
    /\ aborted[r] => pc[r] \in {"models", "keys", "mark", "commit"}

\* A preferred model that is still in the chain is the first of it.
PreferredFirst(r) ==
    /\ pc[r] = "idle" => modelsLeft[r] = <<>>
    /\ \A i \in 1..Len(modelsLeft[r]) : modelsLeft[r][i] = preferred[r] => i = 1

\* Chunks are those of the pass under way, and they end the loop.
SentNow(r) ==
    /\ sentBy[r] \subseteq {attempt[r]}
    /\ sentBy[r] # {} => pc[r] \in {"call", "settle", "done"}

\* An answer is the last thing but for the end of a stream that was served.
AnswerLast(r) ==
    answer[r] # "none" =>
        pc[r] = "done" \/ (pc[r] = "settle" /\ answer[r] = "served")

PassOK == \A r \in Requests :
    PassLeft(r) /\ AtModel(r) /\ AtRoute(r) /\ OwnTransaction(r) /\ PreferredFirst(r)
AnswerOK == \A r \in Requests : SentNow(r) /\ AnswerLast(r)

IInv == TypeOK /\ PassOK /\ AnswerOK /\ LedgerBalanced

-----------------------------------------------------------------------------

LEMMA PairParts ==
    ASSUME NEW p \in Pairs PROVE p[1] \in Models /\ p[2] \in Keys /\ p = <<p[1], p[2]>>
BY DEF Pairs

\* The sorted chain is a sequence of models, the preferred one first.
LEMMA ChainIsSorted ==
    ASSUME TypeOK, NEW r \in Requests, NEW o \in Orders, NEW chain \in Chains(r, o)
    PROVE  /\ chain \in Seq(Models)
           /\ \A i \in 1..Len(chain) : chain[i] = preferred[r] => i = 1
<1>1. PICK n \in Nat : o \in [1..n -> Models]
  BY CatalogAssumption
<1>2. DOMAIN o = 1..n /\ \A i \in 1..n : o[i] \in Models
  BY <1>1
<1>3. PICK f \in Bijection(1..n, 1..n) :
        /\ chain = [i \in 1..n |-> o[f[i]]]
        /\ \A i, j \in 1..n : i < j =>
              \/ Priority(r, o, f[i]) < Priority(r, o, f[j])
              \/ Priority(r, o, f[i]) = Priority(r, o, f[j]) /\ f[i] < f[j]
  BY <1>2 DEF Chains
<1>4. f \in [1..n -> 1..n]
  BY <1>3 DEF Bijection, Injection
<1>5. chain \in [1..n -> Models]
  BY <1>2, <1>3, <1>4
<1>6. chain \in Seq(Models) /\ Len(chain) = n
  BY <1>5
<1>7. ASSUME NEW i \in 1..Len(chain), chain[i] = preferred[r] PROVE i = 1
  <2>1. i \in 1..n /\ f[i] \in 1..n /\ f[1] \in 1..n
    BY <1>4, <1>6
  <2>2. Priority(r, o, f[i]) = 0
    BY <1>3, <1>6, <1>7, <2>1 DEF Priority
  <2>3. SUFFICES ASSUME 1 < i PROVE FALSE
    BY <2>1
  <2>4. \/ Priority(r, o, f[1]) < 0
        \/ Priority(r, o, f[1]) = 0 /\ f[1] < f[i]
    BY <1>3, <2>1, <2>2, <2>3
  <2>5. penalty[o[f[1]]] \in Nat
    BY <1>2, <2>1, NumberAssumption DEF TypeOK
  <2>6. Priority(r, o, f[1]) = 0 /\ o[f[1]] = preferred[r]
    BY <2>1, <2>4, <2>5 DEF Priority
  <2>7. o[f[i]] = preferred[r]
    BY <1>3, <1>6, <1>7, <2>1
  <2>8. f[1] = f[i]
    BY <1>2, <2>1, <2>6, <2>7, CatalogAssumption DEF IsInjective
  <2>9. QED
    BY <2>1, <2>4, <2>8, <2>6
<1>8. QED
  BY <1>6, <1>7

\* A key of the model at hand makes a pair with it.
LEMMA HeadPair ==
    ASSUME IInv, NEW r \in Requests, pc[r] = "keys", NEW k \in keysLeft[r]
    PROVE  <<Head(modelsLeft[r]), k>> \in Pairs
<1>1. Head(modelsLeft[r]) \in Models /\ k \in KeysOf[Head(modelsLeft[r])]
  BY HeadTailProperties DEF IInv, TypeOK, PassOK, AtModel
<1>2. QED
  BY <1>1, CatalogAssumption DEF Pairs

\* What TakeKey does of the pair that it chooses: recorded in the transaction, or in memory.
Take(r, p) ==
    /\ route' = [route EXCEPT ![r] = p]
    /\ \/ ~aborted[r] /\ UNCHANGED <<aborted, marks, window>>
       \/ /\ aborted' = [aborted EXCEPT ![r] = TRUE]
          /\ marks' = [marks EXCEPT ![r] = {}]
          /\ window' = [window EXCEPT ![p] = @ + 1]

LEMMA TakeCases ==
    ASSUME NEW r \in Requests, TakeKey(r)
    PROVE  \E k \in keysLeft[r] \ BadKeys : Take(r, <<Head(modelsLeft[r]), k>>)
BY DEF TakeKey, Take, Set

\* A transaction that throws before its COMMIT is open, or has not begun.
LEMMA ThrowCases ==
    ASSUME IInv, NEW r \in Requests,
           NoKeyLeft(r) \/ StatementFails(r) \/ BreakDeadlock(r)
    PROVE  /\ Throw(r) /\ UNCHANGED <<keyStatus, ledger, misjudged>>
           /\ pc[r] \in {"begin", "models", "mark"}
<1>1. BreakDeadlock(r) => pc[r] = "mark"
  BY DEF BreakDeadlock, WaitsFor, IInv, PassOK, OwnTransaction
<1>2. QED
  BY <1>1 DEF NoKeyLeft, StatementFails, BreakDeadlock, MayBegin

LEMMA ApplyTyped ==
    ASSUME IInv, NEW r \in Requests, pc[r] = "commit", Apply(r)
    PROVE  ledger' \in [Pairs -> Int] /\ keyStatus' \in [Keys -> {"ok", "error"}]
<1>1. route[r] \in Pairs
  BY DEF IInv, PassOK, AtRoute, Routed
<1>2. [ledger EXCEPT ![route[r]] = @ + 1] \in [Pairs -> Int]
  BY <1>1 DEF IInv, TypeOK
<1>3. QED
  BY <1>2 DEF Apply, IInv, TypeOK

LEMMA RefundTyped ==
    ASSUME TypeOK, NEW r \in Requests, route[r] \in Pairs, RefundTokens(r)
    PROVE  /\ ledger' \in [Pairs -> Int] /\ window' \in [Pairs -> Int]
           /\ misjudged' \subseteq Pairs
BY DEF RefundTokens, TypeOK

-----------------------------------------------------------------------------
(* Every step keeps each part of the invariant.                             *)

\* The variables keep their types.
LEMMA TypeStep == ASSUME IInv, Next PROVE TypeOK'
<1> USE DEF Set, Respond, requestVars, serverVars, wishVars, loopVars, walkVars, txVars,
           usageVars
<1>1. CASE Environment
  <2>1. cooling' \subseteq Pairs
    BY <1>1 DEF Environment, IInv, TypeOK
  <2>2. ASSUME NEW m \in Models, penalty[m] > 0,
               penalty' = [penalty EXCEPT ![m] = @ - 1]
        PROVE  penalty' \in [Models -> 0..MaxPenalty]
    BY <2>2, NumberAssumption DEF IInv, TypeOK
  <2>3. penalty' \in [Models -> 0..MaxPenalty]
    BY <1>1, <2>2 DEF Environment, IInv, TypeOK
  <2>4. QED
    BY <1>1, <2>1, <2>3 DEF Environment, IInv, TypeOK
<1>2. ASSUME NEW r \in Requests, Reject(r) PROVE TypeOK'
  <2>1. PICK a \in Answers : Respond(r, a)
    BY <1>2 DEF Reject, Answers
  <2> QED
    BY <1>2, <2>1 DEF Reject, IInv, TypeOK, Locations
<1>3. ASSUME NEW r \in Requests, Accept(r) PROVE TypeOK'
  BY <1>3, CatalogAssumption DEF Accept, CatalogAssumption, IInv, TypeOK, Locations, Answers
<1>4. ASSUME NEW r \in Requests, Begin(r) PROVE TypeOK'
  <2>1. PICK o \in Orders : \E c \in Chains(r, o) : modelsLeft' = Set(modelsLeft, r, c)
    BY <1>4 DEF Begin
  <2>2. PICK chain \in Chains(r, o) : modelsLeft' = Set(modelsLeft, r, chain)
    BY <2>1
  <2>3. chain \in Seq(Models)
    BY ChainIsSorted DEF IInv
  <2>4. QED
    BY <1>4, <2>2, <2>3 DEF Begin, MayBegin, IInv, TypeOK, Locations
<1>5. ASSUME NEW r \in Requests, LoadKeys(r) PROVE TypeOK'
  <2>1. Head(modelsLeft[r]) \in Models
    BY <1>5, HeadTailProperties DEF LoadKeys, IInv, TypeOK
  <2>2. KeysOf[Head(modelsLeft[r])] \subseteq Keys
    BY <2>1, CatalogAssumption
  <2>3. keysLeft' \in [Requests -> SUBSET Keys]
    BY <1>5, <2>2 DEF LoadKeys, IInv, TypeOK
  <2>4. QED
    BY <1>5, <2>3 DEF LoadKeys, IInv, TypeOK, Locations
<1>6. ASSUME NEW r \in Requests, NextModel(r) PROVE TypeOK'
  <2>1. Tail(modelsLeft[r]) \in Seq(Models)
    BY <1>6, HeadTailProperties DEF NextModel, IInv, TypeOK, PassOK, AtModel
  <2>2. QED
    BY <1>6, <2>1 DEF NextModel, IInv, TypeOK, Locations
<1>7. ASSUME NEW r \in Requests, PassKey(r) PROVE TypeOK'
  BY <1>7 DEF PassKey, IInv, TypeOK, Locations, Answers
<1>8. ASSUME NEW r \in Requests, MarkKey(r) PROVE TypeOK'
  BY <1>8 DEF MarkKey, IInv, TypeOK, Locations, Answers
<1>9. ASSUME NEW r \in Requests, TakeKey(r) PROVE TypeOK'
  <2>1. PICK k \in keysLeft[r] \ BadKeys : Take(r, <<Head(modelsLeft[r]), k>>)
    BY <1>9, TakeCases
  <2>2. <<Head(modelsLeft[r]), k>> \in Pairs
    BY <1>9, <2>1, HeadPair DEF TakeKey
  <2>3. PICK p \in Pairs : p = <<Head(modelsLeft[r]), k>>
    BY <2>2
  <2>4. route' = [route EXCEPT ![r] = p]
    BY <2>1, <2>3 DEF Take
  <2>5. window' \in [Pairs -> Int]
    <3>1. CASE window' = window
      BY <3>1 DEF IInv, TypeOK
    <3>2. CASE window' = [window EXCEPT ![p] = @ + 1]
      BY <3>2 DEF IInv, TypeOK
    <3> QED
      BY <2>1, <2>3, <3>1, <3>2 DEF Take
  <2>6. aborted' \in [Requests -> BOOLEAN] /\ marks' \in [Requests -> SUBSET BadKeys]
    BY <2>1 DEF Take, IInv, TypeOK
  <2> QED
    BY <1>9, <2>3, <2>4, <2>5, <2>6 DEF TakeKey, IInv, TypeOK, Locations
<1>10. ASSUME NEW r \in Requests, Commit(r) PROVE TypeOK'
  <2>1. attempt[r] + 1 \in 0..MaxRetries
    BY <1>10, NumberAssumption DEF Commit, IInv, TypeOK, PassOK, PassLeft
  <2>2. attempt' \in [Requests -> 0..MaxRetries]
    BY <1>10, <2>1 DEF Commit, IInv, TypeOK
  <2>3. ledger' \in [Pairs -> Int] /\ keyStatus' \in [Keys -> {"ok", "error"}]
    BY <1>10, ApplyTyped DEF Commit
  <2> QED
    BY <1>10, <2>2, <2>3 DEF Commit, IInv, TypeOK, Locations
<1>11. ASSUME NEW r \in Requests, NoKeyLeft(r) \/ StatementFails(r) \/ BreakDeadlock(r)
       PROVE  TypeOK'
  <2>1. /\ Throw(r) /\ UNCHANGED <<keyStatus, ledger, misjudged>>
        /\ pc[r] \in {"begin", "models", "mark"}
    BY <1>11, ThrowCases
  <2> QED
    BY <2>1 DEF Throw, IInv, TypeOK, Locations, Answers
<1>12. ASSUME NEW r \in Requests, CommitFails(r) PROVE TypeOK'
  <2>1. Throw(r) /\ route[r] \in Pairs
    BY <1>12 DEF CommitFails, IInv, PassOK, AtRoute, Routed
  <2>2. ledger' \in [Pairs -> Int] /\ keyStatus' \in [Keys -> {"ok", "error"}]
    BY <1>12, ApplyTyped DEF CommitFails, IInv, TypeOK
  <2>3. misjudged' \subseteq Pairs
    BY <1>12, <2>1 DEF CommitFails, IInv, TypeOK
  <2> QED
    BY <2>1, <2>2, <2>3 DEF Throw, IInv, TypeOK, Locations, Answers
<1>13. ASSUME NEW r \in Requests, Exhausted(r) PROVE TypeOK'
  BY <1>13 DEF Exhausted, IInv, TypeOK, Locations, Answers
<1>14. ASSUME NEW r \in Requests, Succeed(r) PROVE TypeOK'
  BY <1>14 DEF Succeed, IInv, TypeOK, Locations, Answers
<1>15. ASSUME NEW r \in Requests, Settle(r) PROVE TypeOK'
  <2>1. route[r][1] \in Models
    BY <1>15, PairParts DEF Settle, IInv, TypeOK, PassOK, AtRoute, Routed
  <2>2. penalty' \in [Models -> 0..MaxPenalty]
    BY <1>15, <2>1, NumberAssumption DEF Settle, IInv, TypeOK
  <2>3. QED
    BY <1>15, <2>2 DEF Settle, IInv, TypeOK, Locations, Answers
<1>16. ASSUME NEW r \in Requests, Interrupt(r) PROVE TypeOK'
  BY <1>16 DEF Interrupt, Started, IInv, TypeOK, Locations, Answers
<1>17. ASSUME NEW r \in Requests, Fail(r) PROVE TypeOK'
  BY <1>17 DEF Fail, Started, IInv, TypeOK, Locations, Answers
<1>18. ASSUME NEW r \in Requests, Retry(r) PROVE TypeOK'
  <2>1. RefundTokens(r) /\ route[r] \in Pairs
    BY <1>18 DEF Retry, IInv, PassOK, AtRoute, Routed
  <2>2. /\ ledger' \in [Pairs -> Int] /\ window' \in [Pairs -> Int]
        /\ misjudged' \subseteq Pairs
    BY <2>1, RefundTyped DEF IInv
  <2> QED
    BY <1>18, <2>1, <2>2 DEF Retry, IInv, TypeOK, Locations, Answers
<1>19. ASSUME NEW r \in Requests, Refuse(r) PROVE TypeOK'
  <2>1. RefundTokens(r) /\ route[r] \in Pairs
    BY <1>19 DEF Refuse, IInv, PassOK, AtRoute, Routed
  <2>2. /\ ledger' \in [Pairs -> Int] /\ window' \in [Pairs -> Int]
        /\ misjudged' \subseteq Pairs
    BY <2>1, RefundTyped DEF IInv
  <2> QED
    BY <1>19, <2>1, <2>2 DEF Refuse, IInv, TypeOK, Locations, Answers
<1>20. ASSUME NEW r \in Requests, Penalise(r) PROVE TypeOK'
  <2>1. route[r][1] \in Models
    BY <1>20, PairParts DEF Penalise, IInv, TypeOK, PassOK, AtRoute, Routed
  <2>2. penalty' \in [Models -> 0..MaxPenalty]
    BY <1>20, <2>1, NumberAssumption DEF Penalise, Raised, IInv, TypeOK
  <2>3. QED
    BY <1>20, <2>2 DEF Penalise, IInv, TypeOK, Locations
<1>21. ASSUME NEW r \in Requests, Chunk(r) PROVE TypeOK'
  BY <1>21 DEF Chunk, IInv, TypeOK, Locations, Answers
<1>22. ASSUME NEW r \in Requests, CheckFails(r) PROVE TypeOK'
  BY <1>22 DEF CheckFails, IInv, TypeOK, Locations, Answers
<1>23. ASSUME NEW r \in Requests, FindBad(r) PROVE TypeOK'
  BY <1>23 DEF FindBad, IInv, TypeOK, Locations, Answers
<1> QED
  BY <1>1, <1>2, <1>3, <1>4, <1>5, <1>6, <1>7, <1>8, <1>9, <1>10, <1>11, <1>12, <1>13,
     <1>14, <1>15, <1>16, <1>17, <1>18, <1>19, <1>20, <1>21, <1>22, <1>23 DEF Next, Step

\* A pass keeps to its chain and away from the pairs that failed.
LEMMA PassStep == ASSUME IInv, Next PROVE PassOK'
<1> USE DEF Set, Respond, requestVars, serverVars, wishVars, loopVars, walkVars, txVars,
           usageVars
<1>1. CASE Environment
  BY <1>1 DEF Environment, IInv, TypeOK, PassOK, PassLeft, AtModel, AtRoute,
     OwnTransaction, PreferredFirst, Routed
<1>2. ASSUME NEW r \in Requests, Reject(r) PROVE PassOK'
  <2>1. /\ pc' = [pc EXCEPT ![r] = "done"] /\ pc[r] = "idle"
        /\ UNCHANGED <<wishVars, loopVars, walkVars, txVars, route>>
    BY <1>2 DEF Reject
  <2>2. \A s \in Requests : PreferredFirst(s)'
    BY <2>1 DEF IInv, TypeOK, PassOK, PreferredFirst
  <2>3. \A s \in Requests : PassLeft(s)' /\ AtModel(s)' /\ AtRoute(s)'
    BY <2>1 DEF IInv, TypeOK, PassOK, PassLeft, AtModel, AtRoute, Routed
  <2>4. \A s \in Requests : OwnTransaction(s)'
    BY <2>1 DEF IInv, TypeOK, PassOK, OwnTransaction
  <2> QED
    BY <2>2, <2>3, <2>4 DEF PassOK
<1>3. ASSUME NEW r \in Requests, Accept(r) PROVE PassOK'
  <2>1. /\ pc' = [pc EXCEPT ![r] = "begin"] /\ pc[r] = "idle"
        /\ UNCHANGED <<loopVars, walkVars, txVars, route>>
        /\ \E m \in Preferences : preferred' = [preferred EXCEPT ![r] = m]
    BY <1>3 DEF Accept
  <2>2. \A s \in Requests : PreferredFirst(s)'
    BY <2>1 DEF IInv, TypeOK, PassOK, PreferredFirst
  <2>3. \A s \in Requests : PassLeft(s)' /\ AtModel(s)' /\ AtRoute(s)'
    BY <2>1 DEF IInv, TypeOK, PassOK, PassLeft, AtModel, AtRoute, Routed
  <2>4. \A s \in Requests : OwnTransaction(s)'
    BY <2>1 DEF IInv, TypeOK, PassOK, OwnTransaction
  <2> QED
    BY <2>2, <2>3, <2>4 DEF PassOK
<1>4. ASSUME NEW r \in Requests, Begin(r) PROVE PassOK'
  <2>1. PICK o \in Orders : \E c \in Chains(r, o) : modelsLeft' = Set(modelsLeft, r, c)
    BY <1>4 DEF Begin
  <2>2. PICK chain \in Chains(r, o) : modelsLeft' = Set(modelsLeft, r, chain)
    BY <2>1
  <2>3. \A i \in 1..Len(chain) : chain[i] = preferred[r] => i = 1
    BY ChainIsSorted DEF IInv
  <2>4. \A s \in Requests : PreferredFirst(s)'
    BY <1>4, <2>2, <2>3 DEF Begin, MayBegin, IInv, TypeOK, PassOK, PreferredFirst
  <2>5. QED
    BY <1>4, <2>4 DEF Begin, MayBegin, IInv, TypeOK, PassOK, PassLeft, AtModel,
       AtRoute, OwnTransaction, Routed
<1>5. ASSUME NEW r \in Requests, LoadKeys(r) PROVE PassOK'
  BY <1>5 DEF LoadKeys, IInv, TypeOK, PassOK, PassLeft, AtModel, AtRoute,
     OwnTransaction,
     PreferredFirst, Routed
<1>6. ASSUME NEW r \in Requests, NextModel(r) PROVE PassOK'
  BY <1>6 DEF NextModel, IInv, TypeOK, PassOK, PassLeft, AtModel, AtRoute,
     OwnTransaction,
     PreferredFirst, Routed
<1>7. ASSUME NEW r \in Requests, PassKey(r) PROVE PassOK'
  BY <1>7 DEF PassKey, IInv, TypeOK, PassOK, PassLeft, AtModel, AtRoute, OwnTransaction,
     PreferredFirst, Routed
<1>8. ASSUME NEW r \in Requests, MarkKey(r) PROVE PassOK'
  BY <1>8 DEF MarkKey, IInv, TypeOK, PassOK, PassLeft, AtModel, AtRoute, OwnTransaction,
     PreferredFirst, Routed
<1>9. ASSUME NEW r \in Requests, TakeKey(r) PROVE PassOK'
  <2>1. PICK k \in keysLeft[r] \ BadKeys : Take(r, <<Head(modelsLeft[r]), k>>)
    BY <1>9, TakeCases
  <2>2. <<Head(modelsLeft[r]), k>> \in Pairs /\ modelsLeft[r] # <<>>
    BY <1>9, <2>1, HeadPair DEF TakeKey, IInv, PassOK, AtModel
  <2>3. pc' = [pc EXCEPT ![r] = "commit"] /\ modelsLeft' = modelsLeft
        /\ preferred' = preferred /\ attempt' = attempt /\ wants' = wants
        /\ keysLeft' = [keysLeft EXCEPT ![r] = {}]
    BY <1>9 DEF TakeKey
  <2>4. AtRoute(r)'
    BY <2>1, <2>2, <2>3 DEF Take, IInv, TypeOK, AtRoute
  <2>5. \A s \in Requests : s # r => AtRoute(s)'
    BY <2>1, <2>3 DEF Take, IInv, TypeOK, PassOK, AtRoute, Routed
  <2>6. \A s \in Requests : PassLeft(s)' /\ AtModel(s)' /\ PreferredFirst(s)'
    BY <1>9, <2>3 DEF TakeKey, IInv, TypeOK, PassOK, PassLeft, AtModel, PreferredFirst
  <2>7. \A s \in Requests : OwnTransaction(s)'
    <3>1. pc[r] = "keys"
      BY <1>9 DEF TakeKey
    <3> QED
      BY <2>1, <2>3, <3>1 DEF Take, IInv, TypeOK, PassOK, OwnTransaction
  <2> QED
    BY <2>4, <2>5, <2>6, <2>7 DEF PassOK
<1>10. ASSUME NEW r \in Requests, Commit(r) PROVE PassOK'
  BY <1>10 DEF Commit, IInv, TypeOK, PassOK, PassLeft, AtModel, AtRoute, OwnTransaction,
     PreferredFirst, Routed
<1>11. ASSUME NEW r \in Requests, NoKeyLeft(r) \/ StatementFails(r) \/ BreakDeadlock(r)
       PROVE  PassOK'
  <2>1. /\ Throw(r) /\ UNCHANGED <<keyStatus, ledger, misjudged>>
        /\ pc[r] \in {"begin", "models", "mark"}
    BY <1>11, ThrowCases
  <2> QED
    BY <2>1 DEF Throw, IInv, TypeOK, PassOK, PassLeft, AtModel, AtRoute, OwnTransaction,
     PreferredFirst, Routed
<1>12. ASSUME NEW r \in Requests, CommitFails(r) PROVE PassOK'
  <2>1. Throw(r) /\ pc[r] = "commit"
    BY <1>12 DEF CommitFails
  <2> QED
    BY <2>1 DEF Throw, IInv, TypeOK, PassOK, PassLeft, AtModel, AtRoute, OwnTransaction,
     PreferredFirst, Routed
<1>13. ASSUME NEW r \in Requests, Exhausted(r) PROVE PassOK'
  BY <1>13 DEF Exhausted, IInv, TypeOK, PassOK, PassLeft, AtModel, AtRoute,
     OwnTransaction, PreferredFirst, Routed
<1>14. ASSUME NEW r \in Requests, Succeed(r) PROVE PassOK'
  BY <1>14 DEF Succeed, IInv, TypeOK, PassOK, PassLeft, AtModel, AtRoute,
     OwnTransaction,
     PreferredFirst, Routed
<1>15. ASSUME NEW r \in Requests, Settle(r) PROVE PassOK'
  BY <1>15 DEF Settle, IInv, TypeOK, PassOK, PassLeft, AtModel, AtRoute, OwnTransaction,
     PreferredFirst, Routed
<1>16. ASSUME NEW r \in Requests, Interrupt(r) PROVE PassOK'
  BY <1>16 DEF Interrupt, Started, IInv, TypeOK, PassOK, PassLeft, AtModel, AtRoute,
     OwnTransaction, PreferredFirst, Routed
<1>17. ASSUME NEW r \in Requests, Fail(r) PROVE PassOK'
  BY <1>17 DEF Fail, Started, IInv, TypeOK, PassOK, PassLeft, AtModel, AtRoute,
     OwnTransaction, PreferredFirst, Routed
<1>18. ASSUME NEW r \in Requests, Retry(r) PROVE PassOK'
  BY <1>18 DEF Retry, IInv, TypeOK, PassOK, PassLeft, AtModel, AtRoute,
     OwnTransaction, PreferredFirst, Routed
<1>19. ASSUME NEW r \in Requests, Refuse(r) PROVE PassOK'
  BY <1>19 DEF Refuse, IInv, TypeOK, PassOK, PassLeft, AtModel, AtRoute,
     OwnTransaction, PreferredFirst, Routed
<1>20. ASSUME NEW r \in Requests, Penalise(r) PROVE PassOK'
  BY <1>20 DEF Penalise, Raised, IInv, TypeOK, PassOK, PassLeft, AtModel, AtRoute,
     OwnTransaction, PreferredFirst, Routed
<1>21. ASSUME NEW r \in Requests, Chunk(r) PROVE PassOK'
  BY <1>21 DEF Chunk, IInv, TypeOK, PassOK, PassLeft, AtModel, AtRoute, OwnTransaction,
     PreferredFirst, Routed
<1>22. ASSUME NEW r \in Requests, CheckFails(r) PROVE PassOK'
  BY <1>22 DEF CheckFails, IInv, TypeOK, PassOK, PassLeft, AtModel, AtRoute,
     OwnTransaction,
     PreferredFirst, Routed
<1>23. ASSUME NEW r \in Requests, FindBad(r) PROVE PassOK'
  BY <1>23 DEF FindBad, IInv, TypeOK, PassOK, PassLeft, AtModel, AtRoute,
     OwnTransaction,
     PreferredFirst, Routed
<1> QED
  BY <1>1, <1>2, <1>3, <1>4, <1>5, <1>6, <1>7, <1>8, <1>9, <1>10, <1>11, <1>12, <1>13,
     <1>14, <1>15, <1>16, <1>17, <1>18, <1>19, <1>20, <1>21, <1>22, <1>23 DEF Next, Step

\* One provider call writes to the client, and one answer is given.
LEMMA AnswerStep == ASSUME IInv, Next PROVE AnswerOK'
<1> USE DEF Set, Respond, requestVars, serverVars, wishVars, loopVars, walkVars, txVars,
           usageVars
<1>1. CASE Environment
  BY <1>1 DEF Environment, IInv, TypeOK, AnswerOK, SentNow, AnswerLast
<1>2. ASSUME NEW r \in Requests, Reject(r) PROVE AnswerOK'
  <2>1. PICK a \in Answers : Respond(r, a)
    BY <1>2 DEF Reject, Answers
  <2>2. pc[r] = "idle" /\ UNCHANGED <<attempt, sentBy>>
    BY <1>2 DEF Reject
  <2> QED
    BY <2>1, <2>2 DEF IInv, TypeOK, AnswerOK, SentNow, AnswerLast
<1>3. ASSUME NEW r \in Requests, Accept(r) PROVE AnswerOK'
  BY <1>3 DEF Accept, IInv, TypeOK, AnswerOK, SentNow, AnswerLast
<1>4. ASSUME NEW r \in Requests, Begin(r) PROVE AnswerOK'
  BY <1>4 DEF Begin, MayBegin, IInv, TypeOK, AnswerOK, SentNow, AnswerLast
<1>5. ASSUME NEW r \in Requests, LoadKeys(r) PROVE AnswerOK'
  BY <1>5 DEF LoadKeys, IInv, TypeOK, AnswerOK, SentNow, AnswerLast
<1>6. ASSUME NEW r \in Requests, NextModel(r) PROVE AnswerOK'
  BY <1>6 DEF NextModel, IInv, TypeOK, AnswerOK, SentNow, AnswerLast
<1>7. ASSUME NEW r \in Requests, PassKey(r) PROVE AnswerOK'
  BY <1>7 DEF PassKey, IInv, TypeOK, AnswerOK, SentNow, AnswerLast
<1>8. ASSUME NEW r \in Requests, MarkKey(r) PROVE AnswerOK'
  BY <1>8 DEF MarkKey, IInv, TypeOK, AnswerOK, SentNow, AnswerLast
<1>9. ASSUME NEW r \in Requests, TakeKey(r) PROVE AnswerOK'
  BY <1>9 DEF TakeKey, IInv, TypeOK, AnswerOK, SentNow, AnswerLast
<1>10. ASSUME NEW r \in Requests, Commit(r) PROVE AnswerOK'
  BY <1>10 DEF Commit, IInv, TypeOK, AnswerOK, SentNow, AnswerLast
<1>11. ASSUME NEW r \in Requests, NoKeyLeft(r) \/ StatementFails(r) \/ BreakDeadlock(r)
       PROVE  AnswerOK'
  <2>1. /\ Throw(r) /\ UNCHANGED <<keyStatus, ledger, misjudged>>
        /\ pc[r] \in {"begin", "models", "mark"}
    BY <1>11, ThrowCases
  <2> QED
    BY <2>1 DEF Throw, IInv, TypeOK, AnswerOK, SentNow, AnswerLast
<1>12. ASSUME NEW r \in Requests, CommitFails(r) PROVE AnswerOK'
  <2>1. Throw(r) /\ pc[r] = "commit"
    BY <1>12 DEF CommitFails
  <2> QED
    BY <2>1 DEF Throw, IInv, TypeOK, AnswerOK, SentNow, AnswerLast
<1>13. ASSUME NEW r \in Requests, Exhausted(r) PROVE AnswerOK'
  BY <1>13 DEF Exhausted, IInv, TypeOK, AnswerOK, SentNow, AnswerLast
<1>14. ASSUME NEW r \in Requests, Succeed(r) PROVE AnswerOK'
  BY <1>14 DEF Succeed, IInv, TypeOK, AnswerOK, SentNow, AnswerLast
<1>15. ASSUME NEW r \in Requests, Settle(r) PROVE AnswerOK'
  BY <1>15 DEF Settle, IInv, TypeOK, AnswerOK, SentNow, AnswerLast
<1>16. ASSUME NEW r \in Requests, Interrupt(r) PROVE AnswerOK'
  BY <1>16 DEF Interrupt, Started, IInv, TypeOK, AnswerOK, SentNow, AnswerLast
<1>17. ASSUME NEW r \in Requests, Fail(r) PROVE AnswerOK'
  BY <1>17 DEF Fail, Started, IInv, TypeOK, AnswerOK, SentNow, AnswerLast
<1>18. ASSUME NEW r \in Requests, Retry(r) PROVE AnswerOK'
  BY <1>18 DEF Retry, IInv, TypeOK, AnswerOK, SentNow, AnswerLast
<1>19. ASSUME NEW r \in Requests, Refuse(r) PROVE AnswerOK'
  BY <1>19 DEF Refuse, IInv, TypeOK, AnswerOK, SentNow, AnswerLast
<1>20. ASSUME NEW r \in Requests, Penalise(r) PROVE AnswerOK'
  BY <1>20 DEF Penalise, Raised, IInv, TypeOK, AnswerOK, SentNow, AnswerLast
<1>21. ASSUME NEW r \in Requests, Chunk(r) PROVE AnswerOK'
  BY <1>21 DEF Chunk, IInv, TypeOK, AnswerOK, SentNow, AnswerLast
<1>22. ASSUME NEW r \in Requests, CheckFails(r) PROVE AnswerOK'
  BY <1>22 DEF CheckFails, IInv, TypeOK, AnswerOK, SentNow, AnswerLast
<1>23. ASSUME NEW r \in Requests, FindBad(r) PROVE AnswerOK'
  BY <1>23 DEF FindBad, IInv, TypeOK, AnswerOK, SentNow, AnswerLast
<1> QED
  BY <1>1, <1>2, <1>3, <1>4, <1>5, <1>6, <1>7, <1>8, <1>9, <1>10, <1>11, <1>12, <1>13,
     <1>14, <1>15, <1>16, <1>17, <1>18, <1>19, <1>20, <1>21, <1>22, <1>23 DEF Next, Step

-----------------------------------------------------------------------------
(* The ledger.                                                              *)

\* The requests whose reservation of p stands.
Holders(p) == {r \in Requests : Consumes(r) /\ route[r] = p}

LEMMA HoldersAreFinite == \A p \in Pairs : IsFiniteSet(Holders(p))
BY RequestAssumption, FS_Subset DEF Holders

\* What is recorded of p, wherever it is.
Total(p) == ledger[p] + window[p]

LEMMA TotalsAreNumbers == ASSUME TypeOK, NEW p \in Pairs PROVE Total(p) \in Int
BY DEF TypeOK, Total

\* A step that changes neither what is recorded nor who holds what.
LEMMA QuietStep ==
    ASSUME LedgerBalanced, misjudged \subseteq misjudged',
           \A p \in Pairs \ misjudged' : Total(p)' = Total(p),
           \A r \in Requests : \/ ~Consumes(r) /\ ~Consumes(r)'
                               \/ /\ Consumes(r) <=> Consumes(r)'
                                  /\ route'[r] = route[r]
    PROVE  LedgerBalanced'
<1>1. \A p \in Pairs : Holders(p)' = Holders(p)
  BY DEF Holders
<1>2. QED
  BY <1>1 DEF LedgerBalanced, Holders, Total

\* A step by which the request q begins to hold its pair.
LEMMA HoldStep ==
    ASSUME TypeOK, LedgerBalanced, misjudged' = misjudged, NEW q \in Requests,
           NEW x \in Pairs, route'[q] = x,
           \A p \in Pairs : Total(p)' = IF p = x THEN Total(p) + 1 ELSE Total(p),
           ~Consumes(q), Consumes(q)',
           \A r \in Requests \ {q} : (Consumes(r) <=> Consumes(r)') /\ route'[r] = route[r]
    PROVE  LedgerBalanced'
<1>1. SUFFICES ASSUME NEW p \in Pairs \ misjudged PROVE Total(p)' = Cardinality(Holders(p)')
  BY DEF LedgerBalanced, Holders, Total
<1>2. Total(p) = Cardinality(Holders(p)) /\ Total(p) \in Int
  BY TotalsAreNumbers DEF LedgerBalanced, Holders, Total
<1>3. CASE p = x
  <2>1. Holders(p)' = Holders(p) \cup {q} /\ q \notin Holders(p)
    BY <1>3 DEF Holders
  <2>2. Cardinality(Holders(p)') = Cardinality(Holders(p)) + 1
    BY <2>1, HoldersAreFinite, FS_AddElement
  <2>3. QED
    BY <1>2, <1>3, <2>2
<1>4. CASE p # x
  <2>1. Holders(p)' = Holders(p)
    BY <1>4 DEF Holders
  <2>2. QED
    BY <1>2, <1>4, <2>1
<1>5. QED
  BY <1>3, <1>4

\* A step by which the request q ceases to hold its pair.
LEMMA ReleaseStep ==
    ASSUME TypeOK, LedgerBalanced, misjudged \subseteq misjudged', NEW q \in Requests,
           NEW x \in Pairs, route[q] = x,
           \A p \in Pairs \ misjudged' :
               Total(p)' = IF p = x THEN Total(p) - 1 ELSE Total(p),
           Consumes(q), ~Consumes(q)',
           \A r \in Requests \ {q} : (Consumes(r) <=> Consumes(r)') /\ route'[r] = route[r]
    PROVE  LedgerBalanced'
<1>1. SUFFICES ASSUME NEW p \in Pairs \ misjudged' PROVE Total(p)' = Cardinality(Holders(p)')
  BY DEF LedgerBalanced, Holders, Total
<1>2. Total(p) = Cardinality(Holders(p)) /\ Total(p) \in Int
  BY TotalsAreNumbers DEF LedgerBalanced, Holders, Total
<1>3. CASE p = x
  <2>1. Holders(p)' = Holders(p) \ {q} /\ q \in Holders(p)
    BY <1>3 DEF Holders
  <2>2. Cardinality(Holders(p)') = Cardinality(Holders(p)) - 1
    BY <2>1, HoldersAreFinite, FS_RemoveElement
  <2>3. QED
    BY <1>2, <1>3, <2>2
<1>4. CASE p # x
  <2>1. Holders(p)' = Holders(p)
    BY <1>4 DEF Holders
  <2>2. QED
    BY <1>2, <1>4, <2>1
<1>5. QED
  BY <1>3, <1>4

\* A refund, whichever copy it is made to.
LEMMA RefundTotals ==
    ASSUME TypeOK, NEW r \in Requests, route[r] \in Pairs, RefundTokens(r)
    PROVE  /\ misjudged \subseteq misjudged'
           /\ \A p \in Pairs \ misjudged' :
                 Total(p)' = IF p = route[r] THEN Total(p) - 1 ELSE Total(p)
<1>1. PICK x \in Pairs : x = route[r]
  OBVIOUS
<1>2. CASE ledger' = [ledger EXCEPT ![x] = @ - 1] /\ UNCHANGED <<window, misjudged>>
  BY <1>1, <1>2 DEF Total, TypeOK
<1>3. CASE window' = [window EXCEPT ![x] = @ - 1] /\ UNCHANGED <<ledger, misjudged>>
  BY <1>1, <1>3 DEF Total, TypeOK
<1>4. CASE /\ window' = [window EXCEPT ![x] = @ - 1]
           /\ ledger' = [ledger EXCEPT ![x] = @ - 1] /\ misjudged' = misjudged \cup {x}
  BY <1>1, <1>4 DEF Total, TypeOK
<1>5. QED
  BY <1>1, <1>2, <1>3, <1>4 DEF RefundTokens

\* A reservation is taken with the COMMIT, or in memory before it; Retry and Refuse give
\* it back.
LEMMA LedgerStep == ASSUME IInv, Next PROVE LedgerBalanced'
<1> USE DEF Set, Respond, requestVars, serverVars, wishVars, loopVars, walkVars, txVars,
           usageVars
<1>1. CASE Environment
  BY <1>1, QuietStep DEF Environment, IInv, Consumes, Total
<1>2. ASSUME NEW r \in Requests, Reject(r) PROVE LedgerBalanced'
  <2>1. PICK a \in {"unauthorized", "invalid", "failed"} : Respond(r, a)
    BY <1>2 DEF Reject
  <2>2. \A p \in Pairs : Total(p)' = Total(p)
    BY <1>2 DEF Reject, Total
  <2> QED
    BY <1>2, <2>1, <2>2, QuietStep
       DEF Reject, IInv, TypeOK, AnswerOK, AnswerLast, Consumes
<1>3. ASSUME NEW r \in Requests, Accept(r) PROVE LedgerBalanced'
  BY <1>3, QuietStep DEF Accept, IInv, TypeOK, AnswerOK, AnswerLast, Consumes, Total
<1>4. ASSUME NEW r \in Requests, Begin(r) PROVE LedgerBalanced'
  BY <1>4, QuietStep DEF Begin, MayBegin, IInv, TypeOK, AnswerOK, AnswerLast, Consumes,
     Total
<1>5. ASSUME NEW r \in Requests, LoadKeys(r) PROVE LedgerBalanced'
  BY <1>5, QuietStep DEF LoadKeys, IInv, TypeOK, AnswerOK, AnswerLast, Consumes, Total
<1>6. ASSUME NEW r \in Requests, NextModel(r) PROVE LedgerBalanced'
  BY <1>6, QuietStep DEF NextModel, IInv, TypeOK, AnswerOK, AnswerLast, Consumes, Total
<1>7. ASSUME NEW r \in Requests, PassKey(r) PROVE LedgerBalanced'
  BY <1>7, QuietStep DEF PassKey, IInv, TypeOK, AnswerOK, AnswerLast, Consumes, Total
<1>8. ASSUME NEW r \in Requests, MarkKey(r) PROVE LedgerBalanced'
  BY <1>8, QuietStep DEF MarkKey, IInv, TypeOK, AnswerOK, AnswerLast, Consumes, Total
<1>9. ASSUME NEW r \in Requests, TakeKey(r) PROVE LedgerBalanced'
  <2>1. PICK k \in keysLeft[r] \ BadKeys : Take(r, <<Head(modelsLeft[r]), k>>)
    BY <1>9, TakeCases
  <2>2. PICK p \in Pairs : p = <<Head(modelsLeft[r]), k>>
    BY <1>9, <2>1, HeadPair DEF TakeKey
  <2>3. ~Consumes(r)
    BY <1>9 DEF TakeKey, IInv, AnswerOK, AnswerLast, Consumes
  <2>4. pc' = [pc EXCEPT ![r] = "commit"] /\ UNCHANGED <<answer, ledger, misjudged>>
    BY <1>9 DEF TakeKey
  <2>5. \A s \in Requests \ {r} : (Consumes(s) <=> Consumes(s)') /\ route'[s] = route[s]
    BY <2>1, <2>4 DEF Take, IInv, TypeOK, Consumes
  <2>6. CASE ~aborted[r] /\ UNCHANGED <<aborted, marks, window>>
    <3>1. ~Consumes(r)'
      BY <1>9, <2>4, <2>6 DEF TakeKey, IInv, TypeOK, AnswerOK, AnswerLast, Consumes
    <3> QED
      BY <2>3, <2>4, <2>5, <2>6, <3>1, QuietStep DEF IInv, Total
  <2>7. CASE aborted' = [aborted EXCEPT ![r] = TRUE] /\ window' = [window EXCEPT ![p] = @ + 1]
    <3>1. Consumes(r)' /\ route'[r] = p
      BY <2>1, <2>2, <2>4, <2>7 DEF Take, IInv, TypeOK, Consumes
    <3>2. \A x \in Pairs : Total(x)' = IF x = p THEN Total(x) + 1 ELSE Total(x)
      BY <2>4, <2>7 DEF IInv, TypeOK, Total
    <3> QED
      BY <2>3, <2>4, <2>5, <3>1, <3>2, HoldStep DEF IInv
  <2> QED
    BY <2>1, <2>2, <2>6, <2>7 DEF Take
<1>10. ASSUME NEW r \in Requests, Commit(r) PROVE LedgerBalanced'
  <2>1. PICK p \in Pairs : p = route[r]
    BY <1>10 DEF Commit, IInv, PassOK, AtRoute, Routed
  <2>2. /\ pc[r] = "commit" /\ pc' = [pc EXCEPT ![r] = "call"]
        /\ aborted' = [aborted EXCEPT ![r] = FALSE]
        /\ UNCHANGED <<answer, window, misjudged, route>>
    BY <1>10 DEF Commit
  <2>3. \A s \in Requests \ {r} : (Consumes(s) <=> Consumes(s)') /\ route'[s] = route[s]
    BY <2>2 DEF IInv, TypeOK, Consumes
  <2>4. Consumes(r)' /\ route'[r] = p
    BY <2>1, <2>2 DEF IInv, TypeOK, Consumes
  <2>5. CASE aborted[r]
    <3>1. Consumes(r) /\ ledger' = ledger
      BY <1>10, <2>2, <2>5 DEF Commit, Apply, Consumes
    <3> QED
      BY <2>2, <2>3, <2>4, <3>1, QuietStep DEF IInv, Total
  <2>6. CASE ~aborted[r]
    <3>1. ~Consumes(r)
      BY <2>2, <2>6 DEF IInv, AnswerOK, AnswerLast, Consumes
    <3>2. ledger' = [ledger EXCEPT ![p] = @ + 1]
      BY <1>10, <2>1, <2>6 DEF Commit, Apply
    <3>3. \A x \in Pairs : Total(x)' = IF x = p THEN Total(x) + 1 ELSE Total(x)
      BY <2>2, <3>2 DEF IInv, TypeOK, Total
    <3> QED
      BY <2>2, <2>3, <2>4, <3>1, <3>3, HoldStep DEF IInv
  <2> QED
    BY <2>5, <2>6
<1>11. ASSUME NEW r \in Requests, NoKeyLeft(r) \/ StatementFails(r) \/ BreakDeadlock(r)
       PROVE  LedgerBalanced'
  <2>1. /\ Throw(r) /\ UNCHANGED <<ledger, misjudged>>
        /\ pc[r] \in {"begin", "models", "mark"}
    BY <1>11, ThrowCases
  <2>2. ~Consumes(r) /\ ~Consumes(r)'
    BY <2>1 DEF Throw, IInv, TypeOK, AnswerOK, AnswerLast, Consumes
  <2>3. \A s \in Requests \ {r} : (Consumes(s) <=> Consumes(s)') /\ route'[s] = route[s]
    BY <2>1 DEF Throw, IInv, TypeOK, Consumes
  <2> QED
    BY <2>1, <2>2, <2>3, QuietStep DEF Throw, IInv, Total
<1>12. ASSUME NEW r \in Requests, CommitFails(r) PROVE LedgerBalanced'
  <2>1. PICK p \in Pairs : p = route[r]
    BY <1>12 DEF CommitFails, IInv, PassOK, AtRoute, Routed
  <2>2. Throw(r) /\ pc[r] = "commit" /\ window' = window /\ misjudged \subseteq misjudged'
    BY <1>12 DEF CommitFails, Throw
  <2>3. ~Consumes(r)'
    BY <2>2 DEF Throw, IInv, TypeOK, AnswerOK, AnswerLast, Consumes
  <2>4. \A s \in Requests \ {r} : (Consumes(s) <=> Consumes(s)') /\ route'[s] = route[s]
    BY <2>2 DEF Throw, IInv, TypeOK, Consumes
  <2>5. ledger' = ledger \/ (ledger' = [ledger EXCEPT ![p] = @ + 1] /\ p \in misjudged')
    BY <1>12, <2>1 DEF CommitFails, Apply
  <2>6. \A x \in Pairs \ misjudged' : Total(x)' = Total(x)
    BY <2>2, <2>5 DEF IInv, TypeOK, Total
  <2>7. CASE aborted[r]
    <3>1. Consumes(r) /\ p \in misjudged'
      BY <1>12, <2>1, <2>2, <2>7 DEF CommitFails, Consumes
    <3>2. \A x \in Pairs \ misjudged' : Total(x)' = IF x = p THEN Total(x) - 1 ELSE Total(x)
      BY <2>6, <3>1
    <3> QED
      BY <2>1, <2>2, <2>3, <2>4, <3>1, <3>2, ReleaseStep DEF IInv
  <2>8. CASE ~aborted[r]
    <3>1. ~Consumes(r)
      BY <2>2, <2>8 DEF IInv, AnswerOK, AnswerLast, Consumes
    <3> QED
      BY <2>2, <2>3, <2>4, <2>6, <3>1, QuietStep DEF IInv
  <2> QED
    BY <2>7, <2>8
<1>13. ASSUME NEW r \in Requests, Exhausted(r) PROVE LedgerBalanced'
  BY <1>13, QuietStep DEF Exhausted, IInv, TypeOK, AnswerOK, AnswerLast, Consumes, Total
<1>14. ASSUME NEW r \in Requests, Succeed(r) PROVE LedgerBalanced'
  BY <1>14, QuietStep DEF Succeed, IInv, TypeOK, AnswerOK, AnswerLast, Consumes, Total
<1>15. ASSUME NEW r \in Requests, Settle(r) PROVE LedgerBalanced'
  BY <1>15, QuietStep DEF Settle, IInv, TypeOK, AnswerOK, AnswerLast, Consumes, Total
<1>16. ASSUME NEW r \in Requests, Interrupt(r) PROVE LedgerBalanced'
  BY <1>16, QuietStep DEF Interrupt, IInv, TypeOK, AnswerOK, AnswerLast, Consumes, Total
<1>17. ASSUME NEW r \in Requests, Fail(r) PROVE LedgerBalanced'
  BY <1>17, QuietStep DEF Fail, IInv, TypeOK, AnswerOK, AnswerLast, Consumes, Total
<1>18. ASSUME NEW r \in Requests, Retry(r) PROVE LedgerBalanced'
  <2>1. PICK p \in Pairs : p = route[r]
    BY <1>18 DEF Retry, IInv, PassOK, AtRoute, Routed
  <2>2. Consumes(r) /\ ~Consumes(r)'
    BY <1>18 DEF Retry, IInv, TypeOK, AnswerOK, AnswerLast, Consumes
  <2>3. \A s \in Requests \ {r} : (Consumes(s) <=> Consumes(s)') /\ route'[s] = route[s]
    BY <1>18 DEF Retry, IInv, TypeOK, Consumes
  <2>4. /\ misjudged \subseteq misjudged'
        /\ \A x \in Pairs \ misjudged' :
              Total(x)' = IF x = p THEN Total(x) - 1 ELSE Total(x)
    BY <1>18, <2>1, RefundTotals DEF Retry, IInv
  <2> QED
    BY <2>1, <2>2, <2>3, <2>4, ReleaseStep DEF IInv
<1>19. ASSUME NEW r \in Requests, Refuse(r) PROVE LedgerBalanced'
  <2>1. PICK p \in Pairs : p = route[r]
    BY <1>19 DEF Refuse, IInv, PassOK, AtRoute, Routed
  <2>2. Consumes(r) /\ ~Consumes(r)'
    BY <1>19 DEF Refuse, IInv, TypeOK, AnswerOK, AnswerLast, Consumes
  <2>3. \A s \in Requests \ {r} : (Consumes(s) <=> Consumes(s)') /\ route'[s] = route[s]
    BY <1>19 DEF Refuse, IInv, TypeOK, Consumes
  <2>4. /\ misjudged \subseteq misjudged'
        /\ \A x \in Pairs \ misjudged' :
              Total(x)' = IF x = p THEN Total(x) - 1 ELSE Total(x)
    BY <1>19, <2>1, RefundTotals DEF Refuse, IInv
  <2> QED
    BY <2>1, <2>2, <2>3, <2>4, ReleaseStep DEF IInv
<1>20. ASSUME NEW r \in Requests, Penalise(r) PROVE LedgerBalanced'
  BY <1>20, QuietStep DEF Penalise, IInv, TypeOK, AnswerOK, AnswerLast, Consumes, Total
<1>21. ASSUME NEW r \in Requests, Chunk(r) PROVE LedgerBalanced'
  BY <1>21, QuietStep DEF Chunk, IInv, TypeOK, AnswerOK, AnswerLast, Consumes, Total
<1>22. ASSUME NEW r \in Requests, CheckFails(r) PROVE LedgerBalanced'
  BY <1>22, QuietStep DEF CheckFails, IInv, TypeOK, AnswerOK, AnswerLast, Consumes,
     Total
<1>23. ASSUME NEW r \in Requests, FindBad(r) PROVE LedgerBalanced'
  BY <1>23, QuietStep DEF FindBad, IInv, TypeOK, AnswerOK, AnswerLast, Consumes, Total
<1> QED
  BY <1>1, <1>2, <1>3, <1>4, <1>5, <1>6, <1>7, <1>8, <1>9, <1>10, <1>11, <1>12, <1>13,
     <1>14, <1>15, <1>16, <1>17, <1>18, <1>19, <1>20, <1>21, <1>22, <1>23 DEF Next, Step

-----------------------------------------------------------------------------
(* The theorems.                                                            *)

LEMMA InitInv == ASSUME Init PROVE IInv
<1>1. TypeOK
  BY NumberAssumption DEF Init, TypeOK, Locations, Answers
<1>2. PassOK
  BY DEF Init, PassOK, PassLeft, AtModel, AtRoute, OwnTransaction, PreferredFirst,
     Routed
<1>3. AnswerOK
  BY DEF Init, AnswerOK, SentNow, AnswerLast
<1>4. \A p \in Pairs : Holders(p) = {}
  BY DEF Init, Holders, Consumes
<1>5. LedgerBalanced
  <2>1. \A p \in Pairs : ledger[p] = 0 /\ window[p] = 0
    BY DEF Init
  <2> QED
    BY <1>4, <2>1, FS_EmptySet DEF LedgerBalanced, Holders
<1>6. QED
  BY <1>1, <1>2, <1>3, <1>5 DEF IInv

LEMMA StutterInv == ASSUME IInv, UNCHANGED vars PROVE IInv'
BY DEF IInv, vars, requestVars, serverVars, wishVars, loopVars, walkVars, txVars,
   usageVars, TypeOK, PassOK, PassLeft, AtModel,
       AtRoute, OwnTransaction, PreferredFirst, AnswerOK, SentNow, AnswerLast,
       LedgerBalanced, Consumes

LEMMA Invariance == Spec => []IInv
<1>1. IInv /\ [Next]_vars => IInv'
  BY TypeStep, PassStep, AnswerStep, LedgerStep, StutterInv DEF IInv
<1>2. QED
  BY InitInv, <1>1, PTL DEF Spec

\* The state of the handler and of the server is well typed.
THEOREM TypeCorrect == Spec => []TypeOK
<1>1. IInv => TypeOK
  BY DEF IInv
<1>2. QED
  BY Invariance, <1>1, PTL

\* A client reads the chunks of one provider call, however often the request
\* was retried.
THEOREM OneSource == Spec => []SingleSource
<1>1. ASSUME IInv PROVE SingleSource
  <2>1. SUFFICES ASSUME NEW r \in Requests PROVE Cardinality(sentBy[r]) <= 1
    BY DEF SingleSource
  <2>2. sentBy[r] \in SUBSET {attempt[r]}
    BY <1>1 DEF IInv, AnswerOK, SentNow
  <2>3. IsFiniteSet({attempt[r]}) /\ Cardinality({attempt[r]}) = 1
    BY FS_Singleton
  <2>4. Cardinality(sentBy[r]) <= Cardinality({attempt[r]})
    BY <2>2, <2>3, FS_Subset
  <2>5. QED
    BY <2>3, <2>4
<1>2. QED
  BY Invariance, <1>1, PTL

\* As long as the preferred model is in the chain, nothing else serves.
THEOREM PreferenceHolds == Spec => []PreferredServes
<1>1. ASSUME IInv PROVE PreferredServes
  <2>1. SUFFICES ASSUME NEW r \in Requests, pc[r] \in {"commit", "call"},
                        preferred[r] \in Range(modelsLeft[r])
                 PROVE  route[r][1] = preferred[r]
    BY DEF PreferredServes
  <2>2. modelsLeft[r] \in Seq(Models)
    BY <1>1 DEF IInv, TypeOK
  <2>3. PICK i \in 1..Len(modelsLeft[r]) : modelsLeft[r][i] = preferred[r]
    BY <2>1, <2>2 DEF Range
  <2>4. modelsLeft[r][1] = preferred[r]
    BY <1>1, <2>3 DEF IInv, PassOK, PreferredFirst
  <2>5. QED
    BY <1>1, <2>1, <2>2, <2>4 DEF IInv, PassOK, AtRoute, Routed
<1>2. QED
  BY Invariance, <1>1, PTL

\* What table and memory hold of a pair is what calls under way and calls that served
\* a client have reserved, whatever fails: the transaction around routeRequest, withDb,
\* the refund.  Excepted are pairs of which a write ended otherwise than recordTokens or
\* transaction were told.
THEOREM LedgerIsBalanced == Spec => []LedgerBalanced
<1>1. IInv => LedgerBalanced
  BY DEF IInv
<1>2. QED
  BY Invariance, <1>1, PTL

\* No step changes an answer that was given.
LEMMA AnswerStays ==
    ASSUME IInv, Next, NEW r \in Requests, answer[r] # "none"
    PROVE  answer'[r] = answer[r]
<1> USE DEF Set, Respond, requestVars, serverVars, wishVars, loopVars, walkVars, txVars,
           usageVars
<1>1. CASE Environment
  BY <1>1 DEF Environment
<1>2. ASSUME NEW q \in Requests, Step(q) \/ Chunk(q) PROVE answer'[r] = answer[r]
  <2>1. CASE q # r
    BY <1>2, <2>1 DEF Chunk, Step, Reject, Accept, Begin, LoadKeys, NextModel,
       PassKey, CheckFails, FindBad, MarkKey, TakeKey, Commit, NoKeyLeft,
       StatementFails,
       BreakDeadlock, CommitFails, Throw, Exhausted, Succeed, Settle, Interrupt, Fail,
       Retry, Refuse, Penalise, IInv, TypeOK
  <2>2. CASE q = r
    <3>1. pc[r] = "done" \/ (pc[r] = "settle" /\ answer[r] = "served")
      BY DEF IInv, AnswerOK, AnswerLast
    <3>2. ~(NoKeyLeft(r) \/ StatementFails(r) \/ BreakDeadlock(r))
      BY <3>1, ThrowCases
    <3>3. QED
      BY <1>2, <2>2, <3>1, <3>2 DEF Chunk, Step, Reject, Accept, Begin, LoadKeys,
         NextModel, PassKey, CheckFails, FindBad, MarkKey, TakeKey, Commit, CommitFails,
         MayBegin, Exhausted, Succeed, Settle, Interrupt, Fail, Retry, Refuse,
         Penalise, IInv, TypeOK
  <2>3. QED
    BY <2>1, <2>2
<1>3. QED
  BY <1>1, <1>2 DEF Next

\* The handler answers each request once.
THEOREM OneAnswer == Spec => AnsweredOnce
<1>1. IInv /\ [Next]_vars =>
          [\A r \in Requests : answer[r] # "none" => answer'[r] = answer[r]]_vars
  BY AnswerStays
<1>2. QED
  BY Invariance, <1>1, PTL DEF Spec, AnsweredOnce

-----------------------------------------------------------------------------
(* Sticky sessions, the other state that the handler keeps in memory: what   *)
(* an entry of the map says of the conversations with its opening, and what  *)
(* a turn is steered by.                                                     *)

Continued(c) == <<Opening[c], "multi">>

\* No turn was served later than now.
ServedBefore == \A c \in Conversations : lastAt[c] <= now

\* Conversation d was last served as the entry of the continued conversations
\* with its opening says.
Witness(d, key) ==
    /\ Continued(d) = key /\ Opening[d] # Opaque /\ Length(d) > 2
    /\ lastModel[d] = sticky[key].modelDbId
    /\ lastAt[d] = sticky[key].lastUsed

EntryWitnessed ==
    \A key \in DOMAIN sticky :
        key[2] = "multi" => \E d \in Conversations : Witness(d, key)

\* A conversation that was served in its third turn or later, within the TTL and
\* by this process, has an entry that is no older.
RecentKept ==
    \A c \in Conversations :
        turns[c] >= 2 /\ Recent(c) /\ HasKey(c) =>
            /\ Continued(c) \in DOMAIN sticky
            /\ sticky[Continued(c)].lastUsed >= lastAt[c]

StickyInv == StickyTypeOK /\ ServedBefore /\ EntryWitnessed /\ RecentKept

-----------------------------------------------------------------------------

LEMMA KeyIsContinued ==
    ASSUME StickyTypeOK, NEW c \in Conversations, turns[c] > 0
    PROVE  Length(c) > 2 /\ SessionKey(c) = Continued(c)
BY ConversationAssumption DEF StickyTypeOK, Length, SessionKey, Continued

LEMMA KeyIsOneOfTwo ==
    ASSUME NEW c \in Conversations, HasKey(c) PROVE SessionKey(c) \in SessionKeys
BY DEF HasKey, SessionKey, SessionKeys, Openings

LEMMA EntryParts ==
    ASSUME StickyTypeOK, NEW key \in DOMAIN sticky
    PROVE  /\ key \in SessionKeys
           /\ sticky[key].modelDbId \in Models
           /\ sticky[key].lastUsed \in Nat
BY DEF StickyTypeOK, Range, Entries

\* The map after a turn was served: the new entry, and others that were there.
LEMMA ServedMap ==
    ASSUME StickyInv, NEW c \in Conversations, Serve(c), HasKey(c)
    PROVE  /\ SessionKey(c) \in DOMAIN sticky'
           /\ sticky'[SessionKey(c)] = [modelDbId |-> lastModel'[c], lastUsed |-> now]
           /\ \A k \in DOMAIN sticky' : k # SessionKey(c) =>
                 k \in DOMAIN sticky /\ sticky'[k] = sticky[k]
           /\ \A k \in DOMAIN sticky : k \notin DOMAIN sticky' => Stale(k)
<1>1. PICK m \in Models :
        /\ lastModel' = [lastModel EXCEPT ![c] = m]
        /\ sticky' = [k \in Kept(DOMAIN sticky \cup {SessionKey(c)}, SessionKey(c)) |->
                          IF k = SessionKey(c) THEN [modelDbId |-> m, lastUsed |-> now]
                                               ELSE sticky[k]]
  BY DEF Serve
<1>2. lastModel'[c] = m
  BY <1>1 DEF StickyInv, StickyTypeOK
<1>3. QED
  BY <1>1, <1>2 DEF Kept

\* A map without one entry.
LEMMA DroppedMap ==
    ASSUME StickyInv, NEW c \in Conversations, Ask(c)
    PROVE  /\ DOMAIN sticky' \subseteq DOMAIN sticky
           /\ \A k \in DOMAIN sticky' : sticky'[k] = sticky[k]
           /\ \A k \in DOMAIN sticky : k \notin DOMAIN sticky' => Stale(k)
BY DEF Ask, Restrict

-----------------------------------------------------------------------------
(* Every step of a turn keeps each part of the invariant.                   *)

LEMMA StickyTypeStep == ASSUME StickyInv, StickyNext PROVE StickyTypeOK'
<1>1. CASE Tick
  BY <1>1 DEF Tick, StickyInv, StickyTypeOK
<1>2. CASE Restart
  BY <1>2 DEF Restart, StickyInv, StickyTypeOK, Range
<1>3. ASSUME NEW c \in Conversations, Ask(c) PROVE StickyTypeOK'
  <2>1. DOMAIN sticky' \subseteq SessionKeys /\ Range(sticky') \subseteq Entries
    BY <1>3, DroppedMap DEF StickyInv, StickyTypeOK, Range
  <2>2. prefers' \in [Conversations -> Models \cup {NoModel}]
    BY <1>3, EntryParts DEF Ask, StickyInv, StickyTypeOK
  <2>3. QED
    BY <1>3, <2>1, <2>2 DEF Ask, StickyInv, StickyTypeOK
<1>4. ASSUME NEW c \in Conversations, AskPinned(c) PROVE StickyTypeOK'
  BY <1>4 DEF AskPinned, StickyInv, StickyTypeOK
<1>5. ASSUME NEW c \in Conversations, Serve(c) PROVE StickyTypeOK'
  <2>1. lastModel' \in [Conversations -> Models \cup {NoModel}] /\ lastModel'[c] \in Models
    BY <1>5 DEF Serve, StickyInv, StickyTypeOK
  <2>2. DOMAIN sticky' \subseteq SessionKeys /\ Range(sticky') \subseteq Entries
    <3>1. CASE ~HasKey(c)
      BY <1>5, <3>1 DEF Serve, StickyInv, StickyTypeOK
    <3>2. CASE HasKey(c)
      <4>1. DOMAIN sticky' \subseteq DOMAIN sticky \cup {SessionKey(c)}
        BY <1>5, <3>2, ServedMap
      <4>2. sticky'[SessionKey(c)] \in Entries
        <5>1. sticky'[SessionKey(c)] = [modelDbId |-> lastModel'[c], lastUsed |-> now]
          BY <1>5, <3>2, ServedMap
        <5>2. now \in Nat
          BY DEF StickyInv, StickyTypeOK
        <5>3. QED
          BY <2>1, <5>1, <5>2 DEF Entries
      <4>3. \A k \in DOMAIN sticky' : sticky'[k] \in Entries
        BY <1>5, <3>2, <4>2, ServedMap DEF StickyInv, StickyTypeOK, Range
      <4>4. QED
        BY <3>2, <4>1, <4>3, KeyIsOneOfTwo DEF StickyInv, StickyTypeOK, Range
    <3>3. QED
      BY <3>1, <3>2
  <2>3. turns' \in [Conversations -> Nat] /\ lastAt' \in [Conversations -> Nat]
    BY <1>5 DEF Serve, StickyInv, StickyTypeOK
  <2>4. pinned' \in [Conversations -> BOOLEAN]
          /\ prefers' \in [Conversations -> Models \cup {NoModel}]
    BY <1>5 DEF Serve, Forget, StickyInv, StickyTypeOK
  <2>5. QED
    BY <1>5, <2>1, <2>2, <2>3, <2>4 DEF Serve, StickyInv, StickyTypeOK
<1>6. ASSUME NEW c \in Conversations, Drop(c) PROVE StickyTypeOK'
  BY <1>6 DEF Drop, Forget, StickyInv, StickyTypeOK
<1>7. QED
  BY <1>1, <1>2, <1>3, <1>4, <1>5, <1>6 DEF StickyNext

LEMMA TimeStep == ASSUME StickyInv, StickyNext PROVE ServedBefore'
<1>1. now \in Nat /\ \A c \in Conversations : lastAt[c] \in Nat /\ lastAt[c] <= now
  BY DEF StickyInv, StickyTypeOK, ServedBefore
<1>2. now' = now \/ now' = now + 1
  BY DEF StickyNext, Tick, Restart, Ask, AskPinned, Serve, Drop
<1>3. \A c \in Conversations : lastAt'[c] \in {lastAt[c], now}
  BY DEF StickyNext, Tick, Restart, Ask, AskPinned, Serve, Drop, StickyInv, StickyTypeOK
<1>4. now' \in Nat
  BY StickyTypeStep DEF StickyTypeOK
<1>5. QED
  BY <1>1, <1>2, <1>3, <1>4 DEF ServedBefore

LEMMA WitnessStep == ASSUME StickyInv, StickyNext PROVE EntryWitnessed'
<1>1. CASE Tick
  BY <1>1 DEF Tick, StickyInv, EntryWitnessed, Witness, Length
<1>2. CASE Restart
  BY <1>2 DEF Restart, EntryWitnessed
<1>3. ASSUME NEW c \in Conversations, Ask(c) PROVE EntryWitnessed'
  <2>1. SUFFICES ASSUME NEW key \in DOMAIN sticky', key[2] = "multi"
                 PROVE  \E d \in Conversations : Witness(d, key)'
    BY DEF EntryWitnessed
  <2>2. key \in DOMAIN sticky /\ sticky'[key] = sticky[key]
    BY <1>3, DroppedMap
  <2>3. PICK d \in Conversations : Witness(d, key)
    BY <2>1, <2>2 DEF StickyInv, EntryWitnessed
  <2>4. Witness(d, key)'
    BY <1>3, <2>2, <2>3 DEF Ask, Witness, Length, Continued
  <2>5. QED
    BY <2>4
<1>4. ASSUME NEW c \in Conversations, AskPinned(c) PROVE EntryWitnessed'
  BY <1>4 DEF AskPinned, StickyInv, EntryWitnessed, Witness, Length
<1>5. ASSUME NEW c \in Conversations, Serve(c) PROVE EntryWitnessed'
  <2>1. SUFFICES ASSUME NEW key \in DOMAIN sticky', key[2] = "multi"
                 PROVE  \E d \in Conversations : Witness(d, key)'
    BY DEF EntryWitnessed
  <2>2. Length(c)' > Length(c) /\ {Length(c), Length(c)'} \subseteq Nat
          /\ lastAt'[c] = now
    <3>1. turns[c] \in Nat /\ Prelude[c] \in Nat /\ turns'[c] = turns[c] + 1
      BY <1>5, ConversationAssumption DEF Serve, StickyInv, StickyTypeOK
    <3>2. lastAt'[c] = now
      BY <1>5 DEF Serve, StickyInv, StickyTypeOK
    <3>3. QED
      BY <3>1, <3>2 DEF Length
  <2>3. CASE HasKey(c) /\ key = SessionKey(c)
    <3>1. Continued(c) = key /\ Length(c) > 2
      BY <2>1, <2>3 DEF SessionKey, Continued
    <3>2. sticky'[key] = [modelDbId |-> lastModel'[c], lastUsed |-> now]
      BY <1>5, <2>3, ServedMap
    <3>3. sticky'[key].modelDbId = lastModel'[c] /\ sticky'[key].lastUsed = now
      BY <3>2
    <3>4. Length(c)' > 2
      BY <2>2, <3>1
    <3>5. Witness(c, key)'
      BY <2>2, <2>3, <3>1, <3>3, <3>4 DEF Witness, Continued, HasKey
    <3>6. QED
      BY <3>5
  <2>4. CASE ~(HasKey(c) /\ key = SessionKey(c))
    <3>1. key \in DOMAIN sticky /\ sticky'[key] = sticky[key]
      BY <1>5, <2>4, ServedMap DEF Serve
    <3>2. PICK d \in Conversations : Witness(d, key)
      BY <2>1, <3>1 DEF StickyInv, EntryWitnessed
    <3>3. d # c
      BY <2>4, <3>2 DEF Witness, HasKey, SessionKey, Continued
    <3>4. Witness(d, key)'
      BY <1>5, <3>1, <3>2, <3>3 DEF Serve, Witness, Continued, Length, StickyInv,
         StickyTypeOK
    <3>5. QED
      BY <3>4
  <2>5. QED
    BY <2>3, <2>4
<1>6. ASSUME NEW c \in Conversations, Drop(c) PROVE EntryWitnessed'
  BY <1>6 DEF Drop, StickyInv, EntryWitnessed, Witness, Length
<1>7. QED
  BY <1>1, <1>2, <1>3, <1>4, <1>5, <1>6 DEF StickyNext

\* An entry that a recent conversation relies on is not stale.
LEMMA RecentIsNotStale ==
    ASSUME StickyInv, NEW c \in Conversations, turns[c] >= 2, Recent(c), HasKey(c)
    PROVE  Continued(c) \in DOMAIN sticky /\ ~Stale(Continued(c))
<1>1. /\ Continued(c) \in DOMAIN sticky
      /\ sticky[Continued(c)].lastUsed >= lastAt[c]
  BY DEF StickyInv, RecentKept
<1>2. sticky[Continued(c)].lastUsed \in Nat /\ lastAt[c] \in Nat /\ now \in Nat
  BY <1>1, EntryParts DEF StickyInv, StickyTypeOK
<1>3. QED
  BY <1>1, <1>2, StickyNumberAssumption DEF Recent, Stale

LEMMA RecentStep == ASSUME StickyInv, StickyNext PROVE RecentKept'
<1>1. CASE Tick
  BY <1>1, StickyNumberAssumption DEF Tick, StickyInv, StickyTypeOK, RecentKept,
     Recent, HasKey
<1>2. CASE Restart
  BY <1>2 DEF Restart, RecentKept, Recent
<1>3. ASSUME NEW c \in Conversations, Ask(c) PROVE RecentKept'
  BY <1>3, DroppedMap, RecentIsNotStale DEF Ask, StickyInv, RecentKept, Recent, HasKey
<1>4. ASSUME NEW c \in Conversations, AskPinned(c) PROVE RecentKept'
  BY <1>4 DEF AskPinned, StickyInv, RecentKept, Recent, HasKey
<1>5. ASSUME NEW c \in Conversations, Serve(c) PROVE RecentKept'
  <2>1. SUFFICES ASSUME NEW d \in Conversations,
                        turns'[d] >= 2, Recent(d)', HasKey(d)
                 PROVE  /\ Continued(d) \in DOMAIN sticky'
                        /\ sticky'[Continued(d)].lastUsed >= lastAt'[d]
    BY DEF RecentKept, HasKey, Continued
  <2>2. CASE d = c
    <3>1. turns[c] > 0 /\ lastAt'[c] = now /\ now \in Nat
      BY <1>5, <2>1, <2>2 DEF Serve, StickyInv, StickyTypeOK
    <3>2. SessionKey(c) = Continued(c)
      BY <3>1, KeyIsContinued DEF StickyInv
    <3>3. Continued(c) \in DOMAIN sticky'
            /\ sticky'[Continued(c)] = [modelDbId |-> lastModel'[c], lastUsed |-> now]
      BY <1>5, <2>1, <2>2, <3>2, ServedMap
    <3>4. QED
      BY <2>2, <3>1, <3>3
  <2>3. CASE d # c
    <3>1. turns[d] >= 2 /\ Recent(d) /\ lastAt'[d] = lastAt[d]
      BY <1>5, <2>1, <2>3 DEF Serve, Recent, StickyInv, StickyTypeOK
    <3>2. /\ Continued(d) \in DOMAIN sticky /\ ~Stale(Continued(d))
          /\ sticky[Continued(d)].lastUsed >= lastAt[d]
      BY <2>1, <3>1, RecentIsNotStale DEF StickyInv, RecentKept
    <3>3. lastAt[d] <= now
      BY DEF StickyInv, ServedBefore
    <3>4. CASE ~HasKey(c)
      BY <1>5, <3>1, <3>2, <3>4 DEF Serve
    <3>5. CASE HasKey(c)
      <4>1. Continued(d) \in DOMAIN sticky'
        BY <1>5, <3>2, <3>5, ServedMap
      <4>2. CASE Continued(d) = SessionKey(c)
        <5>1. sticky'[Continued(d)] = [modelDbId |-> lastModel'[c], lastUsed |-> now]
          BY <1>5, <3>5, <4>2, ServedMap
        <5>2. lastAt[d] \in Nat /\ now \in Nat
          BY DEF StickyInv, StickyTypeOK
        <5>3. QED
          BY <3>1, <3>3, <4>1, <5>1, <5>2
      <4>3. CASE Continued(d) # SessionKey(c)
        BY <1>5, <3>1, <3>2, <3>5, <4>1, <4>3, ServedMap
      <4>4. QED
        BY <4>2, <4>3
    <3>6. QED
      BY <3>4, <3>5
  <2>4. QED
    BY <2>2, <2>3
<1>6. ASSUME NEW c \in Conversations, Drop(c) PROVE RecentKept'
  BY <1>6 DEF Drop, StickyInv, RecentKept, Recent, HasKey
<1>7. QED
  BY <1>1, <1>2, <1>3, <1>4, <1>5, <1>6 DEF StickyNext

-----------------------------------------------------------------------------
(* The theorems about sticky sessions.                                      *)

LEMMA StickyInitInv == ASSUME StickyInit PROVE StickyInv
BY StickyNumberAssumption DEF StickyInit, StickyInv, StickyTypeOK, Range, ServedBefore,
   EntryWitnessed,
   RecentKept, Recent

LEMMA StickyStutter == ASSUME StickyInv, UNCHANGED stickyVars PROVE StickyInv'
BY DEF StickyInv, stickyVars, StickyTypeOK, ServedBefore, EntryWitnessed, Witness,
   Length, RecentKept,
       Recent

LEMMA StickyInvariance == StickySpec => []StickyInv
<1>1. StickyInv /\ [StickyNext]_stickyVars => StickyInv'
  BY StickyTypeStep, TimeStep, WitnessStep, RecentStep, StickyStutter DEF StickyInv
<1>2. QED
  BY StickyInitInv, <1>1, PTL DEF StickySpec

\* The map and the conversations are well typed.
THEOREM StickyTypeCorrect == StickySpec => []StickyTypeOK
<1>1. StickyInv => StickyTypeOK
  BY DEF StickyInv
<1>2. QED
  BY StickyInvariance, <1>1, PTL

\* A turn without a model is looked up by Ask, and by no other step.
LEMMA AskedByAsk ==
    ASSUME StickyInv, [StickyNext]_stickyVars, NEW c \in Conversations, Asks(c)
    PROVE  Ask(c)
<1>1. CASE Tick \/ Restart \/ UNCHANGED stickyVars
  BY <1>1 DEF Asks, stickyVars, Tick, Restart
<1>2. ASSUME NEW d \in Conversations, AskPinned(d) PROVE Ask(c)
  BY <1>2 DEF StickyInv, StickyTypeOK, Asks, AskPinned
<1>3. ASSUME NEW d \in Conversations, Serve(d) \/ Drop(d) PROVE Ask(c)
  BY <1>3 DEF StickyInv, StickyTypeOK, Asks, Serve, Drop
<1>4. ASSUME NEW d \in Conversations, Ask(d) PROVE Ask(c)
  BY <1>4 DEF StickyInv, StickyTypeOK, Asks, Ask
<1>5. QED
  BY <1>1, <1>2, <1>3, <1>4 DEF StickyNext

\* What Ask prefers was the last model of a conversation with the same opening.
LEMMA PreferenceWitnessed ==
    ASSUME StickyInv, NEW c \in Conversations, Ask(c), prefers'[c] # NoModel
    PROVE  \E d \in Peers(c) : Recent(d) /\ lastModel[d] = prefers'[c]
<1>1. /\ turns[c] > 0 /\ HasKey(c) /\ SessionKey(c) \in DOMAIN sticky
      /\ ~Stale(SessionKey(c)) /\ prefers'[c] = sticky[SessionKey(c)].modelDbId
  BY DEF Ask, StickyInv, StickyTypeOK
<1>2. SessionKey(c) = Continued(c) /\ SessionKey(c)[2] = "multi"
  BY <1>1, KeyIsContinued DEF StickyInv, Continued
<1>3. PICK d \in Conversations : Witness(d, SessionKey(c))
  BY <1>1, <1>2 DEF StickyInv, EntryWitnessed
<1>4. Opening[d] = Opening[c] /\ lastModel[d] = prefers'[c]
  BY <1>1, <1>2, <1>3 DEF Witness, Continued
<1>5. lastAt[d] = sticky[SessionKey(c)].lastUsed /\ lastAt[d] \in Nat /\ now \in Nat
  BY <1>3 DEF Witness, StickyInv, StickyTypeOK
<1>6. Recent(d)
  BY <1>1, <1>4, <1>5, StickyNumberAssumption DEF Recent, Stale
<1>7. QED
  BY <1>4, <1>6 DEF Peers

\* A turn is steered only by a turn that was served within the TTL in a
\* conversation with the same opening.
THEOREM SteeredOnlyForCause == StickySpec => SteeredForCause
<1> DEFINE ForCause ==
      \A c \in Conversations :
         Asks(c) /\ prefers'[c] # NoModel =>
            \E d \in Peers(c) : Recent(d) /\ lastModel[d] = prefers'[c]
<1>1. StickyInv /\ [StickyNext]_stickyVars => [ForCause]_stickyVars
  BY AskedByAsk, PreferenceWitnessed
<1>2. QED
  BY StickyInvariance, <1>1, PTL DEF StickySpec, SteeredForCause

\* From its third turn on a conversation does not lose its model.
THEOREM ThirdTurnIsSticky == StickySpec => StickyFromThirdTurn
<1> DEFINE Steered ==
      \A c \in Conversations :
         Asks(c) /\ turns[c] >= 2 /\ Recent(c) /\ HasKey(c) =>
            prefers'[c] \in {lastModel[d] : d \in {e \in Peers(c) : Recent(e)}}
<1>1. ASSUME StickyInv, [StickyNext]_stickyVars PROVE Steered
  <2>1. SUFFICES ASSUME NEW c \in Conversations,
                        Asks(c), turns[c] >= 2, Recent(c), HasKey(c)
                 PROVE  prefers'[c] \in
                             {lastModel[d] : d \in {e \in Peers(c) : Recent(e)}}
    OBVIOUS
  <2>2. Ask(c)
    BY <1>1, <2>1, AskedByAsk
  <2>3. Continued(c) \in DOMAIN sticky /\ ~Stale(Continued(c)) /\ turns[c] > 0
    BY <1>1, <2>1, RecentIsNotStale DEF StickyInv, StickyTypeOK
  <2>4. SessionKey(c) = Continued(c)
    BY <1>1, <2>3, KeyIsContinued DEF StickyInv
  <2>5. prefers'[c] = sticky[Continued(c)].modelDbId
    BY <1>1, <2>1, <2>2, <2>3, <2>4 DEF Ask, StickyInv, StickyTypeOK
  <2>6. prefers'[c] # NoModel
    BY <1>1, <2>3, <2>5, EntryParts, NoModelAssumption DEF StickyInv
  <2>7. QED
    BY <1>1, <2>2, <2>6, PreferenceWitnessed
<1>2. StickyInv /\ [StickyNext]_stickyVars => [Steered]_stickyVars
  BY <1>1
<1>3. QED
  BY StickyInvariance, <1>2, PTL DEF StickySpec, StickyFromThirdTurn

=============================================================================
