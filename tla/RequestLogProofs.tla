---------------------------- MODULE RequestLogProofs ----------------------------
(***************************************************************************)
(* Theorems about RequestLog: its typing, an entry is in one place, and that  *)
(* it implements AccessLog, for any requests, flushes, signals and any pool.  *)
(***************************************************************************)
EXTENDS RequestLog, FiniteSetTheorems, TLAPS

-----------------------------------------------------------------------------
\* The invariant.  TypeOK says that an entry is in one place.

\* Only a flush that has taken a batch holds entries.
FlightInv ==
    \A f \in Flushes : flight[f] # {} => pc[f] \in {"queued", "insert", "commit"}

\* A handler that outlives its connection is known for it.
LateInv == \A e \in Entries : handler[e] = "late" => e \in orphans

\* A shutdown goes beyond its flush only when the server has closed, and what has
\* come to the batch since then comes from such handlers.
FlushedInv ==
    \A g \in Signals : pc[g] \notin {"idle", "wait"} =>
        /\ ServerClosed
        /\ batch \subseteq orphans

\* A pool that is ending has been told so by a shutdown that waits for it, and who
\* waits for a connection of it waits in vain.
EndingInv ==
    /\ ending <=> \E g \in Signals : pc[g] = "drain"
    /\ ending => \A f \in Flushes : pc[f] = "queued" => excuse

\* The second signal is an excuse.
HastyInv ==
    /\ \A g \in Signals : pc[g] # "idle" => ~listening
    /\ \A g, h \in Signals : g # h /\ pc[g] # "idle" /\ pc[h] # "idle" => excuse

\* The flushes of the timer do not close anything.
RoleInv == \A f \in Timers : pc[f] \in {"idle", "queued", "insert", "commit"}

IInv == TypeOK /\ FlightInv /\ LateInv /\ FlushedInv /\ EndingInv /\ HastyInv /\ RoleInv

-----------------------------------------------------------------------------
\* Connections are counted by a natural number, and none is counted only when no
\* flush has one.
LEMMA ClientsCount ==
    ASSUME held \in Nat
    PROVE  /\ Clients \in Nat
           /\ held <= Clients
           /\ Clients = 0 => \A f \in Flushes : pc[f] \notin {"insert", "commit"}
<1> DEFINE Busy == {f \in Flushes : pc[f] \in {"insert", "commit"}}
<1>1. IsFiniteSet(Busy)
  <2>1. Busy \subseteq Flushes /\ IsFiniteSet(Flushes)
    BY ActorAssumption DEF Flushes
  <2> QED
    BY <2>1, FS_Subset
<1>2. Cardinality(Busy) \in Nat
  BY <1>1, FS_CardinalityType
<1>3. Cardinality(Busy) = 0 => Busy = {}
  BY <1>1, FS_EmptySet
<1>4. Clients = held + Cardinality(Busy)
  BY DEF Clients
<1> HIDE DEF Busy
<1>5. Clients \in Nat /\ held <= Clients /\ (Clients = 0 => Busy = {})
  BY <1>2, <1>3, <1>4
<1> QED
  BY <1>5 DEF Busy

LEMMA TakenMember ==
    ASSUME NEW x
    PROVE  x \in Taken <=> \E f \in Flushes : x \in flight[f]
BY DEF Taken

\* Initially there is nothing in any place.
LEMMA InitInv == Init => IInv
<1> SUFFICES ASSUME Init PROVE IInv
  OBVIOUS
<1>1. Made = {} /\ Taken = {}
  BY DEF Init, Made, Taken, Flushes
<1>2. Shape
  <2>1. 0 \in 0..PoolMax /\ 0 \in 0..MaxFaults
    BY NumberAssumption
  <2> QED
    BY <2>1 DEF Init, Shape
<1>3. OnePlace
  BY <1>1 DEF Init, OnePlace
<1> QED
  BY <1>2, <1>3 DEF Init, IInv, TypeOK, FlightInv, LateInv, FlushedInv, EndingInv,
     HastyInv, RoleInv, Flushes

-----------------------------------------------------------------------------
\* Typing.

\* When the process is gone its handlers have ended, with the entries they had made.
LEMMA GoneHandlers ==
    ASSUME Shape, Gone
    PROVE  /\ handler' \in [Entries -> {"idle", "logged", "cut"}]
           /\ Made' = Made
<1>1. ASSUME NEW e \in Entries
      PROVE  /\ handler'[e] \in {"idle", "logged", "cut"}
             /\ handler'[e] \in {"pruning", "logged"} <=> handler[e] \in {"pruning", "logged"}
  <2>1. handler[e] \in {"idle", "serving", "late", "pruning", "logged", "cut"}
    BY DEF Shape
  <2>2. handler'[e] = CASE handler[e] \in {"serving", "late"} -> "cut"
                        [] handler[e] = "pruning" -> "logged"
                        [] OTHER -> handler[e]
    BY DEF Gone
  <2>3. CASE handler[e] \in {"serving", "late"}
    <3>1. handler'[e] = "cut"
      BY <2>2, <2>3
    <3> QED
      BY <2>3, <3>1
  <2>4. CASE handler[e] = "pruning"
    BY <2>2, <2>4
  <2>5. CASE handler[e] \in {"idle", "logged", "cut"}
    <3>1. handler'[e] = handler[e]
      BY <2>2, <2>5
    <3> QED
      BY <2>5, <3>1
  <2> QED
    BY <2>1, <2>3, <2>4, <2>5
<1>2. handler' \in [Entries -> {"idle", "logged", "cut"}]
  <2>1. handler' = [e \in Entries |-> handler'[e]]
    BY DEF Gone
  <2> QED
    BY <1>1, <2>1
<1> QED
  BY <1>1, <1>2 DEF Made

LEMMA GoneShape ==
    ASSUME Shape, Gone, faults' \in 0..MaxFaults, excuse' \in BOOLEAN
    PROVE  Shape'
<1>1. handler' \in [Entries -> {"idle", "serving", "late", "pruning", "logged", "cut"}]
  BY GoneHandlers
<1>2. /\ up' = FALSE /\ listening' = FALSE /\ ending' = FALSE
      /\ pruneDue' = TRUE /\ held' = 0
      /\ orphans' = orphans /\ old' = old
  BY DEF Gone
<1>3. /\ pc' = [f \in Flushes |-> "idle"]
      /\ flight' = [f \in Flushes |-> {}]
  BY DEF Gone
<1>4. 0 \in 0..PoolMax
  BY NumberAssumption
<1> QED
  BY <1>1, <1>2, <1>3, <1>4 DEF Shape

LEMMA ShapeStep ==
    ASSUME TypeOK, Next
    PROVE  Shape'
<1> USE DEF TypeOK, Shape
<1>1. ASSUME NEW e \in Entries, Accept(e)
      PROVE  Shape'
  BY <1>1 DEF Accept, Move, processVars, handlerVars, flushVars
<1>2. ASSUME NEW e \in Entries, EndResponse(e)
      PROVE  Shape'
  BY <1>2 DEF EndResponse, Move, processVars, handlerVars, flushVars
<1>3. ASSUME NEW e \in Entries, LogRequest(e)
      PROVE  Shape'
  BY <1>3 DEF LogRequest, Move, processVars, handlerVars, flushVars
<1>4. ASSUME NEW e \in Entries, Prune(e)
      PROVE  Shape'
  BY <1>4 DEF Prune, Move, processVars, handlerVars, flushVars
<1>5. ASSUME NEW e \in Entries, PruneFails(e)
      PROVE  Shape'
  BY <1>5, NumberAssumption DEF PruneFails, Move, processVars, handlerVars, flushVars
<1>6. ASSUME NEW e \in Entries, Age(e)
      PROVE  Shape'
  BY <1>6 DEF Age, processVars, handlerVars, flushVars
<1>7. ASSUME NEW f \in Flushes, Flush(f)
      PROVE  Shape'
  BY <1>7 DEF Flush, GoTo, Take, After, OnePlace, Made, Taken, MayFlush, processVars,
     handlerVars, flushVars
<1>8. ASSUME NEW f \in Flushes, Connect(f)
      PROVE  Shape'
  BY <1>8 DEF Connect, GoTo, processVars, handlerVars, flushVars
<1>9. ASSUME NEW f \in Flushes, Insert(f)
      PROVE  Shape'
  BY <1>9 DEF Insert, GoTo, processVars, handlerVars, flushVars
<1>10. ASSUME NEW f \in Flushes, Commit(f)
      PROVE  Shape'
  BY <1>10 DEF Commit, GoTo, After, processVars, handlerVars, flushVars
<1>11. ASSUME NEW f \in Flushes, FlushFails(f)
      PROVE  Shape'
  BY <1>11, NumberAssumption DEF FlushFails, GoTo, After, processVars, handlerVars,
     flushVars
<1>12. ASSUME NEW g \in Signals, Signal(g)
      PROVE  Shape'
  BY <1>12 DEF Signal, GoTo, Flushes, processVars, handlerVars, flushVars
<1>13. ASSUME NEW g \in Signals, CloseDb(g)
      PROVE  Shape'
  BY <1>13 DEF CloseDb, GoTo, Flushes, processVars, handlerVars, flushVars
<1>14. ASSUME NEW g \in Signals, Exit(g)
      PROVE  Shape'
  BY <1>14, GoneShape, NumberAssumption DEF Exit, processVars, handlerVars, flushVars
<1>15. CASE Hold
  BY <1>15, ClientsCount, NumberAssumption DEF Hold, Free, processVars, handlerVars,
     flushVars
<1>16. CASE Release
  BY <1>16, NumberAssumption DEF Release, processVars, handlerVars, flushVars
<1>17. CASE Hour
  BY <1>17 DEF Hour, processVars, handlerVars, flushVars
<1>18. CASE ForcedExit
  BY <1>18, GoneShape, NumberAssumption DEF ForcedExit, processVars, handlerVars,
     flushVars
<1>19. CASE Crash
  BY <1>19, GoneShape, NumberAssumption DEF Crash, processVars, handlerVars, flushVars
<1> QED
  BY <1>1, <1>2, <1>3, <1>4, <1>5, <1>6, <1>7, <1>8, <1>9, <1>10, <1>11, <1>12, <1>13,
     <1>14, <1>15, <1>16, <1>17, <1>18, <1>19 DEF Next, Handle, Work, Shutdown

-----------------------------------------------------------------------------
\* An entry is in one place.

LEMMA GoneOnePlace ==
    ASSUME TypeOK, Gone
    PROVE  OnePlace'
<1>1. Made' = Made
  BY GoneHandlers DEF TypeOK
<1>2. /\ batch' = {} /\ table' = table /\ expired' = expired
      /\ flight' = [f \in Flushes |-> {}]
  BY DEF Gone
<1>3. Taken' = {}
  BY <1>2 DEF Taken
<1> QED
  BY <1>1, <1>2, <1>3 DEF TypeOK, OnePlace

LEMMA OnePlaceStep ==
    ASSUME TypeOK, FlightInv, Next
    PROVE  OnePlace'
<1> USE DEF OnePlace
<1>0. Shape /\ OnePlace
  BY DEF TypeOK
<1>1. ASSUME NEW e \in Entries, Accept(e)
      PROVE  OnePlace'
  BY <1>1, <1>0 DEF Accept, Move, Shape, Made, Taken, processVars, handlerVars,
     flushVars
<1>2. ASSUME NEW e \in Entries, EndResponse(e)
      PROVE  OnePlace'
  BY <1>2, <1>0 DEF EndResponse, Move, Shape, Made, Taken, processVars, handlerVars,
     flushVars
<1>3. ASSUME NEW e \in Entries, LogRequest(e)
      PROVE  OnePlace'
  BY <1>3, <1>0 DEF LogRequest, Move, Shape, Made, Taken, processVars, handlerVars,
     flushVars
<1>4. ASSUME NEW e \in Entries, Prune(e)
      PROVE  OnePlace'
  BY <1>4, <1>0 DEF Prune, Move, Shape, Made, Taken, Pruned, processVars, handlerVars,
     flushVars
<1>5. ASSUME NEW e \in Entries, PruneFails(e)
      PROVE  OnePlace'
  BY <1>5, <1>0 DEF PruneFails, Move, Shape, Made, Taken, processVars, handlerVars,
     flushVars
<1>6. ASSUME NEW e \in Entries, Age(e)
      PROVE  OnePlace'
  BY <1>6, <1>0 DEF Age, Made, Taken, processVars, handlerVars, flushVars
<1>7. ASSUME NEW f \in Flushes, Flush(f)
      PROVE  OnePlace'
  BY <1>7, <1>0 DEF Flush, Take, GoTo, Shape, Made, Taken, processVars, handlerVars,
     flushVars
<1>8. ASSUME NEW f \in Flushes, Connect(f)
      PROVE  OnePlace'
  BY <1>8, <1>0 DEF Connect, Made, Taken, processVars, handlerVars, flushVars
<1>9. ASSUME NEW f \in Flushes, Insert(f)
      PROVE  OnePlace'
  BY <1>9, <1>0 DEF Insert, Made, Taken, processVars, handlerVars, flushVars
<1>10. ASSUME NEW f \in Flushes, Commit(f)
      PROVE  OnePlace'
  BY <1>10, <1>0 DEF Commit, Shape, Made, Taken, processVars, handlerVars, flushVars
<1>11. ASSUME NEW f \in Flushes, FlushFails(f)
      PROVE  OnePlace'
  BY <1>11, <1>0 DEF FlushFails, Shape, Made, Taken, processVars, handlerVars, flushVars
<1>12. ASSUME NEW g \in Signals, Signal(g)
      PROVE  OnePlace'
  BY <1>12, <1>0 DEF Signal, Made, Taken, processVars, handlerVars, flushVars
<1>13. ASSUME NEW g \in Signals, CloseDb(g)
      PROVE  OnePlace'
  BY <1>13, <1>0 DEF CloseDb, Made, Taken, processVars, handlerVars, flushVars
<1>14. ASSUME NEW g \in Signals, Exit(g)
      PROVE  OnePlace'
  BY <1>14, GoneOnePlace DEF Exit
<1>15. CASE Hold
  BY <1>15, <1>0 DEF Hold, Made, Taken, processVars, handlerVars, flushVars
<1>16. CASE Release
  BY <1>16, <1>0 DEF Release, Made, Taken, processVars, handlerVars, flushVars
<1>17. CASE Hour
  BY <1>17, <1>0 DEF Hour, Made, Taken, processVars, handlerVars, flushVars
<1>18. CASE ForcedExit
  BY <1>18, GoneOnePlace DEF ForcedExit
<1>19. CASE Crash
  BY <1>19, GoneOnePlace DEF Crash
<1> QED
  BY <1>1, <1>2, <1>3, <1>4, <1>5, <1>6, <1>7, <1>8, <1>9, <1>10, <1>11, <1>12, <1>13,
     <1>14, <1>15, <1>16, <1>17, <1>18, <1>19 DEF Next, Handle, Work, Shutdown

-----------------------------------------------------------------------------
\* Shutdowns and flushes.

Others == FlightInv /\ LateInv /\ FlushedInv /\ EndingInv /\ HastyInv /\ RoleInv

LEMMA GoneOthers ==
    ASSUME IInv, Gone
    PROVE  Others'
<1>1. /\ listening' = FALSE /\ ending' = FALSE /\ batch' = {}
      /\ pc' = [f \in Flushes |-> "idle"] /\ flight' = [f \in Flushes |-> {}]
  BY DEF Gone
<1>2. handler' \in [Entries -> {"idle", "logged", "cut"}]
  BY GoneHandlers DEF IInv, TypeOK
<1> QED
  BY <1>1, <1>2 DEF Others, FlightInv, LateInv, FlushedInv, EndingInv, HastyInv,
     RoleInv, Flushes

LEMMA OthersStep ==
    ASSUME IInv, Next
    PROVE  Others'
<1> USE DEF Others, FlightInv, LateInv, FlushedInv, EndingInv, HastyInv, RoleInv
<1>0. Shape /\ Others
  BY DEF IInv, TypeOK
<1>a. Timers \cap Signals = {} /\ Flushes = Timers \cup Signals
  BY ActorAssumption DEF Flushes
<1>1. ASSUME NEW e \in Entries, Accept(e)
      PROVE  Others'
  BY <1>1, <1>0, <1>a DEF Accept, Move, Shape, ServerClosed, processVars, handlerVars,
     flushVars
<1>2. ASSUME NEW e \in Entries, EndResponse(e)
      PROVE  Others'
  BY <1>2, <1>0, <1>a DEF EndResponse, Move, Shape, ServerClosed, processVars,
     handlerVars, flushVars
<1>3. ASSUME NEW e \in Entries, LogRequest(e)
      PROVE  Others'
  BY <1>3, <1>0, <1>a DEF LogRequest, Move, Shape, ServerClosed, processVars,
     handlerVars, flushVars
<1>4. ASSUME NEW e \in Entries, Prune(e)
      PROVE  Others'
  BY <1>4, <1>0, <1>a DEF Prune, Move, Shape, ServerClosed, processVars, handlerVars,
     flushVars
<1>5. ASSUME NEW e \in Entries, PruneFails(e)
      PROVE  Others'
  BY <1>5, <1>0, <1>a DEF PruneFails, Move, Shape, ServerClosed, processVars,
     handlerVars, flushVars
<1>6. ASSUME NEW e \in Entries, Age(e)
      PROVE  Others'
  BY <1>6, <1>0, <1>a DEF Age, ServerClosed, processVars, handlerVars, flushVars
<1>7. ASSUME NEW f \in Flushes, Flush(f)
      PROVE  Others'
  BY <1>7, <1>0, <1>a DEF Flush, Take, GoTo, Shape, MayFlush, After, ServerClosed,
     Free, processVars, handlerVars, flushVars
<1>8. ASSUME NEW f \in Flushes, Connect(f)
      PROVE  Others'
  BY <1>8, <1>0, <1>a DEF Connect, GoTo, Shape, ServerClosed, processVars, handlerVars,
     flushVars
<1>9. ASSUME NEW f \in Flushes, Insert(f)
      PROVE  Others'
  BY <1>9, <1>0, <1>a DEF Insert, GoTo, Shape, ServerClosed, processVars, handlerVars,
     flushVars
<1>10. ASSUME NEW f \in Flushes, Commit(f)
      PROVE  Others'
  BY <1>10, <1>0, <1>a DEF Commit, Shape, GoTo, After, ServerClosed, processVars,
     handlerVars, flushVars
<1>11. ASSUME NEW f \in Flushes, FlushFails(f)
      PROVE  Others'
  BY <1>11, <1>0, <1>a DEF FlushFails, Shape, GoTo, After, ServerClosed, processVars,
     handlerVars, flushVars
<1>12. ASSUME NEW g \in Signals, Signal(g)
      PROVE  Others'
  <2>1. /\ pc' = [pc EXCEPT ![g] = "wait"] /\ pc[g] = "idle" /\ listening' = FALSE
        /\ excuse' = (excuse \/ ~listening)
        /\ UNCHANGED <<handler, orphans, batch, flight, ending>>
    BY <1>12 DEF Signal, GoTo, handlerVars
  <2>2. /\ pc'[g] = "wait"
        /\ \A f \in Flushes : f # g => pc'[f] = pc[f]
    BY <2>1, <1>0, <1>a DEF Shape
  <2>3. FlightInv' /\ LateInv' /\ RoleInv'
    BY <1>0, <1>a, <2>1, <2>2
  <2>4. FlushedInv'
    BY <1>0, <1>a, <2>1, <2>2 DEF ServerClosed
  <2>5. EndingInv'
    BY <1>0, <1>a, <2>1, <2>2
  <2>6. HastyInv'
    BY <1>0, <1>a, <2>1, <2>2
  <2> QED
    BY <2>3, <2>4, <2>5, <2>6
<1>13. ASSUME NEW g \in Signals, CloseDb(g)
      PROVE  Others'
  BY <1>13, <1>0, <1>a DEF CloseDb, GoTo, Shape, ServerClosed, processVars,
     handlerVars, flushVars
<1>14. ASSUME NEW g \in Signals, Exit(g)
      PROVE  Others'
  BY <1>14, GoneOthers DEF Exit
<1>15. CASE Hold
  BY <1>15, <1>0, <1>a DEF Hold, ServerClosed, processVars, handlerVars, flushVars
<1>16. CASE Release
  BY <1>16, <1>0, <1>a DEF Release, ServerClosed, processVars, handlerVars, flushVars
<1>17. CASE Hour
  BY <1>17, <1>0, <1>a DEF Hour, ServerClosed, processVars, handlerVars, flushVars
<1>18. CASE ForcedExit
  BY <1>18, GoneOthers DEF ForcedExit
<1>19. CASE Crash
  BY <1>19, GoneOthers DEF Crash
<1> QED
  BY <1>1, <1>2, <1>3, <1>4, <1>5, <1>6, <1>7, <1>8, <1>9, <1>10, <1>11, <1>12, <1>13,
     <1>14, <1>15, <1>16, <1>17, <1>18, <1>19 DEF Next, Handle, Work, Shutdown

-----------------------------------------------------------------------------
LEMMA StutterInv ==
    ASSUME IInv, UNCHANGED vars
    PROVE  IInv'
<1> USE DEF vars, processVars, handlerVars, flushVars
<1>1. Shape'
  BY DEF IInv, TypeOK, Shape
<1>2. OnePlace'
  BY DEF IInv, TypeOK, OnePlace, Made, Taken
<1>3. Others'
  BY DEF IInv, Others, FlightInv, LateInv, FlushedInv, EndingInv, HastyInv, RoleInv,
     ServerClosed
<1> QED
  BY <1>1, <1>2, <1>3 DEF IInv, TypeOK, Others

LEMMA Invariance == Spec => []IInv
<1>1. IInv /\ [Next]_vars => IInv'
  <2> SUFFICES ASSUME IInv, [Next]_vars PROVE IInv'
    OBVIOUS
  <2>1. CASE Next
    <3>1. Shape'
      BY <2>1, ShapeStep DEF IInv
    <3>2. OnePlace'
      BY <2>1, OnePlaceStep DEF IInv
    <3>3. Others'
      BY <2>1, OthersStep
    <3> QED
      BY <3>1, <3>2, <3>3 DEF IInv, TypeOK, Others
  <2>2. CASE UNCHANGED vars
    BY <2>2, StutterInv
  <2> QED
    BY <2>1, <2>2
<1> QED
  BY InitInv, <1>1, PTL DEF Spec

\* The variables keep their types and an entry that has been made, of the batch, of a
\* flush, of the table or of the past, is in one of these places only: two flushes
\* at once never write one entry twice.
THEOREM TypeCorrect == Spec => []TypeOK
<1>1. IInv => TypeOK
  BY DEF IInv
<1> QED
  BY Invariance, <1>1, PTL

-----------------------------------------------------------------------------
\* Refinement.

\* A step that AccessLog does not see.
Unseen == UNCHANGED <<Made, orphans \cap Made, table, expired, Lost, old, excuse>>

LEMMA UnseenStep ==
    ASSUME Unseen
    PROVE  UNCHANGED Promise!logVars
BY DEF Unseen, Promise!logVars

\* A step that loses entries of the batch and of flushes.
LEMMA LossStep ==
    ASSUME TypeOK, NEW S, S \subseteq batch \cup Taken,
           UNCHANGED <<Made, orphans, table, expired, old>>,
           batch' \cup Taken' = (batch \cup Taken) \ S,
           excuse' \in {excuse, TRUE}, excuse' \/ S \subseteq orphans
    PROVE  Promise!Next
<1>1. S \in SUBSET Promise!Pending
  BY DEF TypeOK, OnePlace, Lost, Promise!Pending
<1>2. Lost' = Lost \cup S
  BY DEF TypeOK, OnePlace, Lost
<1>3. excuse' \/ S \subseteq orphans \cap Made
  BY DEF TypeOK, OnePlace
<1>4. Promise!Lose(S)
  BY <1>1, <1>2, <1>3 DEF Promise!Lose
<1> QED
  BY <1>1, <1>4 DEF Promise!Next

LEMMA GoneStep ==
    ASSUME TypeOK, Gone, excuse' \in {excuse, TRUE},
           excuse' \/ batch \cup Taken \subseteq orphans
    PROVE  Promise!Next
<1>1. Made' = Made
  BY GoneHandlers DEF TypeOK
<1>2. /\ batch' = {} /\ UNCHANGED <<orphans, table, expired, old>>
      /\ flight' = [f \in Flushes |-> {}]
  BY DEF Gone
<1>3. Taken' = {}
  BY <1>2 DEF Taken
<1> DEFINE S == batch \cup Taken
<1>4. batch' \cup Taken' = (batch \cup Taken) \ S
  BY <1>2, <1>3
<1> QED
  BY <1>1, <1>2, <1>4, LossStep


\* Every step is one of AccessLog, or one that it does not see.
LEMMA PromiseStep ==
    ASSUME IInv, Next
    PROVE  Promise!Next \/ UNCHANGED Promise!logVars
<1> USE DEF processVars, handlerVars, flushVars
<1>0. TypeOK /\ Shape /\ OnePlace
  BY DEF IInv, TypeOK
<1>1. ASSUME NEW e \in Entries, Accept(e) \/ EndResponse(e) \/ PruneFails(e)
      PROVE  Unseen
  <2>1. Made' = Made /\ (orphans \cap Made)' = orphans \cap Made
    BY <1>0, <1>1 DEF Accept, EndResponse, PruneFails, Move, Shape, Made
  <2> QED
    BY <1>1, <2>1 DEF Accept, EndResponse, PruneFails, Unseen, Lost, Taken
<1>2. ASSUME NEW e \in Entries, LogRequest(e)
      PROVE  Promise!Next
  <2>1. /\ e \notin Made /\ Made' = Made \cup {e}
        /\ batch' = batch \cup {e}
        /\ UNCHANGED <<orphans, flight, table, expired, old, excuse>>
    BY <1>0, <1>2 DEF LogRequest, Move, Shape, Made
  <2>2. Lost' = Lost
    BY <1>0, <2>1 DEF Lost, Taken, OnePlace
  <2>3. (orphans \cap Made)' \in {orphans \cap Made, (orphans \cap Made) \cup {e}}
    BY <2>1
  <2>4. Promise!Make(e)
    BY <2>1, <2>2, <2>3 DEF Promise!Make
  <2> QED
    BY <2>4 DEF Promise!Next
<1>3. ASSUME NEW e \in Entries, Prune(e)
      PROVE  Promise!Next
  <2>1. /\ Made' = Made
        /\ table' = table \ Pruned /\ expired' = expired \cup Pruned
        /\ UNCHANGED <<orphans, batch, flight, old, excuse>>
    BY <1>0, <1>3 DEF Prune, Move, Shape, Made
  <2>2. Lost' = Lost
    BY <2>1 DEF Lost, Taken, Pruned
  <2>3. Promise!Expire(Pruned)
    BY <2>1, <2>2 DEF Promise!Expire, Pruned
  <2> QED
    BY <2>3 DEF Promise!Next, Pruned
<1>4. ASSUME NEW e \in Entries, Age(e)
      PROVE  Promise!Next
  <2>1. Promise!Age(e)
    BY <1>4 DEF Age, Promise!Age, Made, Lost, Taken
  <2> QED
    BY <2>1 DEF Promise!Next
<1>5. ASSUME NEW f \in Flushes, Flush(f)
      PROVE  Promise!Next \/ Unseen
  <2>1. CASE batch # {} /\ ~ending
    <3>1. pc[f] \in {"idle", "wait"} /\ flight[f] = {}
      BY <1>5 DEF IInv, FlightInv, Flush, MayFlush
    <3>2. batch' = {} /\ flight' = [flight EXCEPT ![f] = batch]
      BY <1>5, <2>1 DEF Flush, Take
    <3>3. batch' \cup Taken' = batch \cup Taken
      BY <1>0, <3>1, <3>2 DEF Shape, Taken
    <3> QED
      BY <1>5, <3>3 DEF Flush, Unseen, Made, Lost
  <2>2. CASE batch = {}
    BY <1>5, <2>2 DEF Flush, Unseen, Made, Lost, Taken
  <2>3. CASE batch # {} /\ ending
    <3>1. /\ batch' = {}
          /\ UNCHANGED <<Made, orphans, flight, table, expired, old, excuse>>
      BY <1>5, <2>3 DEF Flush, Made
    <3>2. batch \subseteq orphans
      BY <2>3 DEF IInv, EndingInv, FlushedInv
    <3>3. batch' \cup Taken' = (batch \cup Taken) \ batch
      BY <1>0, <3>1 DEF OnePlace, Taken
    <3> QED
      BY <1>0, <3>1, <3>2, <3>3, LossStep
  <2> QED
    BY <2>1, <2>2, <2>3
<1>6. ASSUME NEW f \in Flushes, Connect(f) \/ Insert(f)
      PROVE  Unseen
  BY <1>6 DEF Connect, Insert, Unseen, Made, Lost, Taken
<1>7. ASSUME NEW f \in Flushes, Commit(f)
      PROVE  Promise!Next
  <2> DEFINE S == flight[f]
  <2>1. /\ table' = table \cup S /\ flight' = [flight EXCEPT ![f] = {}]
        /\ UNCHANGED <<Made, orphans, batch, expired, old, excuse>>
    BY <1>7 DEF Commit, Made
  <2>2. S \subseteq Taken
    BY DEF Taken
  <2>3. S \in SUBSET Promise!Pending
    BY <1>0, <2>2 DEF OnePlace, Lost, Promise!Pending
  <2>4. Taken' \cup S = Taken
    BY <1>0, <2>1 DEF Shape, Taken
  <2>5. Lost' = Lost
    BY <2>1, <2>4 DEF Lost
  <2>6. Promise!Publish(S)
    BY <2>1, <2>3, <2>5 DEF Promise!Publish
  <2> QED
    BY <2>3, <2>6 DEF Promise!Next
<1>8. ASSUME NEW f \in Flushes, FlushFails(f)
      PROVE  Promise!Next
  <2> DEFINE S == flight[f]
  <2>1. /\ flight' = [flight EXCEPT ![f] = {}] /\ excuse' = TRUE
        /\ UNCHANGED <<Made, orphans, batch, table, expired, old>>
    BY <1>8 DEF FlushFails, Made
  <2>2. S \subseteq Taken
    BY DEF Taken
  <2>3. Taken' = Taken \ S
    BY <1>0, <2>1 DEF Shape, OnePlace, Taken
  <2>4. batch' \cup Taken' = (batch \cup Taken) \ S
    BY <1>0, <2>1, <2>2, <2>3 DEF OnePlace
  <2> QED
    BY <1>0, <2>1, <2>2, <2>4, LossStep
<1>9. ASSUME NEW g \in Signals, Signal(g) \/ CloseDb(g)
      PROVE  Promise!Next
  <2>1. /\ excuse' \in {excuse, TRUE}
        /\ UNCHANGED <<Made, orphans, batch, flight, table, expired, old>>
    BY <1>0, <1>9 DEF Signal, CloseDb, Made, Shape
  <2> DEFINE S == {}
  <2>2. batch' \cup Taken' = (batch \cup Taken) \ S
    BY <2>1 DEF Taken
  <2>3. S \subseteq batch \cup Taken /\ S \subseteq orphans
    OBVIOUS
  <2> HIDE DEF S
  <2> QED
    BY <1>0, <2>1, <2>2, <2>3, LossStep
<1>10. ASSUME NEW g \in Signals, Exit(g)
       PROVE  Promise!Next
  <2>1. Gone /\ excuse' = excuse
    BY <1>10 DEF Exit
  <2>2. g \in Flushes /\ pc[g] \in {"drain", "close"}
    BY <1>10 DEF Exit, Flushes
  <2>3. excuse \in BOOLEAN /\ batch \subseteq orphans
    BY <1>0, <2>2 DEF IInv, FlushedInv, Shape
  <2>4. CASE pc[g] = "close" /\ ending
    <3>1. PICK h \in Signals : pc[h] = "drain"
      BY <2>4 DEF IInv, EndingInv
    <3>2. excuse
      BY <2>4, <3>1 DEF IInv, HastyInv
    <3> QED
      BY <1>0, <2>1, <3>2, GoneStep
  <2>5. CASE pc[g] = "drain" /\ Drained
    <3>1. CASE excuse
      BY <1>0, <2>1, <3>1, GoneStep
    <3>2. CASE ~excuse
      <4>1. \A f \in Flushes : pc[f] \notin {"insert", "commit"}
        BY <1>0, <2>5, ClientsCount DEF Drained, Shape
      <4>2. \A f \in Flushes : pc[f] # "queued"
        BY <2>5, <3>2 DEF IInv, EndingInv
      <4>3. Taken = {}
        BY <4>1, <4>2 DEF IInv, FlightInv, Taken
      <4> QED
        BY <1>0, <2>1, <2>3, <4>3, GoneStep
    <3> QED
      BY <3>1, <3>2
  <2> QED
    BY <1>10, <2>4, <2>5 DEF Exit
<1>11. CASE Hold \/ Release \/ Hour
  <2>1. Unseen
    BY <1>11 DEF Hold, Release, Hour, Unseen, Made, Lost, Taken
  <2> QED
    BY <2>1, UnseenStep
<1>12. CASE ForcedExit \/ Crash
  <2>1. Gone /\ excuse' = TRUE
    BY <1>12 DEF ForcedExit, Crash
  <2> QED
    BY <1>0, <2>1, GoneStep
<1> QED
  BY <1>1, <1>2, <1>3, <1>4, <1>5, <1>6, <1>7, <1>8, <1>9, <1>10, <1>11, <1>12,
     UnseenStep
     DEF Next, Handle, Work, Shutdown

\* The request log keeps the promise of AccessLog, for any requests, flushes, signals,
\* pool and faults: logRequest, flushLogBatch and the shutdown lose an entry only for
\* one of the excuses, and write none twice.
THEOREM LogKeepsPromise == Spec => KeepsPromise
<1>1. Init => Promise!Init
  BY DEF Init, Promise!Init, Made, Lost
<1>2. IInv /\ [Next]_vars => [Promise!Next]_Promise!logVars
  <2> SUFFICES ASSUME IInv, [Next]_vars PROVE Promise!Next \/ UNCHANGED Promise!logVars
    OBVIOUS
  <2>1. CASE Next
    BY <2>1, PromiseStep
  <2>2. CASE UNCHANGED vars
    BY <2>2, UnseenStep
       DEF vars, processVars, handlerVars, flushVars, Unseen, Made, Lost, Taken
  <2> QED
    BY <2>1, <2>2
<1> QED
  BY <1>1, <1>2, Invariance, PTL DEF Spec, KeepsPromise, Promise!Spec
=============================================================================
