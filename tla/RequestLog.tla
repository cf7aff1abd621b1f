------------------------------ MODULE RequestLog ------------------------------
(***************************************************************************)
(* The log of requests in routes/proxy.ts: logRequest pushes an entry to     *)
(* logBatch, flushLogBatch writes the batch in one transaction every two     *)
(* seconds, logRequest deletes what is past the retention once an hour; and   *)
(* the shutdown of index.ts, which flushes once more, closes the pool and    *)
(* exits.  The model follows one process from its start to its end.      *)
(*                                                                          *)
(* The INSERTs of a batch are one step: they are of one transaction, and a    *)
(* failure of any undoes all.  The pool of connections is that of pg: after  *)
(* end() nobody who waits for a connection gets one, end() resolves when all *)
(* of them have been released, and a second end() fails at once.             *)
(***************************************************************************)
EXTENDS Integers, FiniteSets

CONSTANTS
    Entries,      \* requests, each of which makes one entry
    Timers,       \* flushes of the timer that may be under way at once
    Signals,      \* SIGTERM and SIGINT, each runs the shutdown
    PoolMax,      \* DATABASE_POOL_MAX
    MaxFaults     \* bound: failing statements, crashes

ASSUME ActorAssumption == Timers \cap Signals = {} /\ IsFiniteSet(Timers \cup Signals)
ASSUME NumberAssumption == PoolMax \in Nat \ {0} /\ MaxFaults \in Nat

Flushes == Timers \cup Signals

VARIABLES
    up,         \* does the process run?
    listening,  \* does its server accept requests?
    handler,    \* of each request: the state of its handler
    orphans,    \* requests whose connection ended before their entry was made
    batch,      \* logBatch
    pruneDue,   \* has the clean-up last run more than an hour ago?
    pc,         \* of each flush, and the shutdown around it
    flight,     \* the entries it has taken
    held,       \* connections that others hold
    ending,     \* has pool.end() been called?
    table,      \* table requests
    expired,    \* entries that the clean-up has deleted
    old,        \* entries that are past the retention
    excuse,     \* has anything happened that may cost entries?
    faults

processVars == <<up, listening, pruneDue, ending, held>>
handlerVars == <<handler, orphans>>
flushVars == <<pc, flight>>
vars == <<old, processVars, handlerVars, flushVars, batch, table,
          expired, excuse, faults>>

Taken == UNION {flight[f] : f \in Flushes}
Made == {e \in Entries : handler[e] \in {"pruning", "logged"}}
Lost == Made \ (batch \cup Taken \cup table \cup expired)

Shape ==
    /\ up \in BOOLEAN /\ listening \in BOOLEAN /\ pruneDue \in BOOLEAN
    /\ ending \in BOOLEAN /\ excuse \in BOOLEAN
    /\ handler \in [Entries -> {"idle", "serving", "late", "pruning", "logged", "cut"}]
    /\ orphans \subseteq Entries /\ old \subseteq Entries
    /\ pc \in [Flushes -> {"idle", "wait", "queued", "insert", "commit", "close", "drain"}]
    /\ flight \in [Flushes -> SUBSET Entries]
    /\ held \in 0..PoolMax
    /\ faults \in 0..MaxFaults

\* An entry is in one place.
OnePlace ==
    /\ batch \cup Taken \cup table \cup expired \subseteq Made
    /\ batch \cap Taken = {} /\ batch \cap (table \cup expired) = {}
    /\ Taken \cap (table \cup expired) = {} /\ table \cap expired = {}
    /\ \A f, g \in Flushes : f # g => flight[f] \cap flight[g] = {}

TypeOK == Shape /\ OnePlace

Init ==
    /\ up = TRUE /\ listening = TRUE /\ pruneDue = TRUE /\ ending = FALSE
    /\ held = 0
    /\ handler = [e \in Entries |-> "idle"]
    /\ orphans = {} /\ batch = {} /\ table = {} /\ expired = {} /\ old = {}
    /\ pc = [f \in Flushes |-> "idle"]
    /\ flight = [f \in Flushes |-> {}]
    /\ excuse = FALSE
    /\ faults = 0

-----------------------------------------------------------------------------
\* Requests.
Move(e, to) == handler' = [handler EXCEPT ![e] = to]

Accept(e) ==
    /\ up /\ listening /\ handler[e] = "idle"
    /\ Move(e, "serving")
    /\ UNCHANGED <<old, processVars, orphans, flushVars, batch, table,
                   expired, excuse, faults>>

\* The connection ends before the handler does: a stream has been sent and its
\* tokens are being corrected, or the client has left.
EndResponse(e) ==
    /\ handler[e] = "serving"
    /\ Move(e, "late")
    /\ orphans' = orphans \cup {e}
    /\ UNCHANGED <<old, processVars, flushVars, batch, table, expired,
                   excuse, faults>>

\* logRequest up to its await; otherwise in one go with the response.
LogRequest(e) ==
    /\ handler[e] \in {"serving", "late"}
    /\ batch' = batch \cup {e}
    /\ Move(e, IF pruneDue THEN "pruning" ELSE "logged")
    /\ UNCHANGED <<old, processVars, orphans, flushVars, table, expired,
                   excuse, faults>>

\* What the DELETE deletes.
Pruned == table \cap old

\* The DELETE of the clean-up, which several handlers may send at once.
Prune(e) ==
    /\ handler[e] = "pruning" /\ ~ending
    /\ Move(e, "logged")
    /\ table' = table \ Pruned
    /\ expired' = expired \cup Pruned
    /\ pruneDue' = FALSE
    /\ UNCHANGED <<old, up, listening, ending, held, orphans, flushVars, batch, excuse, faults>>

\* It fails: the next request tries again.
PruneFails(e) ==
    /\ handler[e] = "pruning"
    /\ ending \/ faults < MaxFaults
    /\ Move(e, "logged")
    /\ faults' = IF ending THEN faults ELSE faults + 1
    /\ UNCHANGED <<old, processVars, orphans, flushVars, batch, table,
                   expired, excuse>>

-----------------------------------------------------------------------------
\* Connections.
Clients == held + Cardinality({f \in Flushes : pc[f] \in {"insert", "commit"}})

Free == Clients < PoolMax /\ ~ending

\* Other work takes a connection, first come, first served, and returns it.
Hold ==
    /\ up /\ Free /\ \A f \in Flushes : pc[f] # "queued"
    /\ held' = held + 1
    /\ UNCHANGED <<old, up, listening, pruneDue, ending, handlerVars, flushVars,
                   batch, table, expired, excuse, faults>>

Release ==
    /\ held > 0
    /\ held' = held - 1
    /\ UNCHANGED <<old, up, listening, pruneDue, ending, handlerVars, flushVars,
                   batch, table, expired, excuse, faults>>

-----------------------------------------------------------------------------
\* Flushes.
GoTo(f, l) == pc' = [pc EXCEPT ![f] = l]

\* Where a flush goes when it is over: the timer's ends, the shutdown goes on.
After(f) == IF f \in Timers THEN "idle" ELSE "close"

ServerClosed == ~listening /\ \A e \in Entries : handler[e] # "serving"

\* Mutant: the timer waits for a second entry.
MayFlushFull(f) ==
    IF f \in Timers THEN up /\ pc[f] = "idle" /\ Cardinality(batch) > 1
                    ELSE pc[f] = "wait" /\ ServerClosed

MayFlush(f) ==
    IF f \in Timers THEN up /\ pc[f] = "idle" /\ batch # {}
                    ELSE pc[f] = "wait" /\ ServerClosed

\* Mutant: the batch is emptied when its transaction is over.
TakeCopy(f) == flight' = [flight EXCEPT ![f] = batch] /\ UNCHANGED batch

\* The copy of the batch, and the batch emptied.
Take(f) == flight' = [flight EXCEPT ![f] = batch] /\ batch' = {}

\* flushLogBatch to its first await.  A pool that is ending rejects it, and what
\* it has taken is lost.
Flush(f) ==
    /\ MayFlush(f)
    /\ IF batch = {} \/ ending
         THEN /\ GoTo(f, After(f))
              /\ batch' = {}
              /\ UNCHANGED flight
         ELSE /\ GoTo(f, IF Free THEN "insert" ELSE "queued")
              /\ Take(f)
    /\ UNCHANGED <<old, processVars, handlerVars, table, expired, excuse,
                   faults>>

Connect(f) ==
    /\ pc[f] = "queued" /\ Free
    /\ GoTo(f, "insert")
    /\ UNCHANGED <<old, processVars, handlerVars, flight, batch, table,
                   expired, excuse, faults>>

Insert(f) ==
    /\ pc[f] = "insert"
    /\ GoTo(f, "commit")
    /\ UNCHANGED <<old, processVars, handlerVars, flight, batch, table,
                   expired, excuse, faults>>

Commit(f) ==
    /\ pc[f] = "commit"
    /\ GoTo(f, After(f))
    /\ table' = table \cup flight[f]
    /\ flight' = [flight EXCEPT ![f] = {}]
    /\ UNCHANGED <<old, processVars, handlerVars, batch, expired, excuse,
                   faults>>

\* A statement or the connection fails: rolled back, logged, and over.
FlushFails(f) ==
    /\ faults < MaxFaults
    /\ pc[f] \in {"insert", "commit"}
    /\ GoTo(f, After(f))
    /\ flight' = [flight EXCEPT ![f] = {}]
    /\ excuse' = TRUE
    /\ faults' = faults + 1
    /\ UNCHANGED <<old, processVars, handlerVars, batch, table, expired>>

-----------------------------------------------------------------------------
\* Shutdown.  The server stops listening; the callback waits for connections.
\* A second signal makes a second shutdown, which may end the process early.
Signal(g) ==
    /\ up /\ pc[g] = "idle"
    /\ GoTo(g, "wait")
    /\ excuse' = (excuse \/ ~listening)
    /\ listening' = FALSE
    /\ UNCHANGED <<old, up, pruneDue, ending, held, handlerVars, flight, batch, table, expired, faults>>

\* The process is gone, with everything in its memory; the table is what the next
\* one finds.
Gone ==
    /\ up' = FALSE /\ listening' = FALSE /\ ending' = FALSE
    /\ pruneDue' = TRUE /\ held' = 0
    /\ batch' = {}
    /\ pc' = [f \in Flushes |-> "idle"]
    /\ flight' = [f \in Flushes |-> {}]
    /\ handler' = [e \in Entries |->
         CASE handler[e] \in {"serving", "late"} -> "cut"
           [] handler[e] = "pruning" -> "logged"
           [] OTHER -> handler[e]]
    /\ UNCHANGED <<old, orphans, table, expired>>

\* closeDb: flushes that wait for a connection wait for ever.
CloseDb(g) ==
    /\ pc[g] = "close" /\ ~ending
    /\ GoTo(g, "drain")
    /\ ending' = TRUE
    /\ excuse' = (excuse \/ \E f \in Flushes : pc[f] = "queued")
    /\ UNCHANGED <<old, up, listening, pruneDue, held, handlerVars, flight,
                   batch, table, expired, faults>>

\* Mutant: the process exits without waiting for the pool.
DrainedAtOnce == TRUE

\* Mutant: it also waits for those that wait for a connection.
DrainedOfWaiters == Clients = 0 /\ \A f \in Flushes : pc[f] # "queued"

Drained == Clients = 0

Exit(g) ==
    /\ \/ pc[g] = "drain" /\ Drained
       \/ pc[g] = "close" /\ ending   \* a second end() fails, and its error is caught
    /\ Gone
    /\ UNCHANGED <<excuse, faults>>

\* Ten seconds after a signal.
ForcedExit ==
    /\ up /\ ~listening
    /\ Gone
    /\ excuse' = TRUE
    /\ UNCHANGED faults

Crash ==
    /\ up /\ faults < MaxFaults
    /\ Gone
    /\ excuse' = TRUE
    /\ faults' = faults + 1

-----------------------------------------------------------------------------
\* Time passes: the retention of an entry, an hour since the last clean-up.
Age(e) ==
    /\ e \in table \ old
    /\ old' = old \cup {e}
    /\ UNCHANGED <<processVars, handlerVars, flushVars, batch, table,
                   expired, excuse, faults>>

Hour ==
    /\ up /\ ~pruneDue
    /\ pruneDue' = TRUE
    /\ UNCHANGED <<old, up, listening, ending, held, handlerVars, flushVars,
                   batch, table, expired, excuse, faults>>

Handle(e) == LogRequest(e) \/ Prune(e) \/ PruneFails(e)

Work(f) == Flush(f) \/ Connect(f) \/ Insert(f) \/ Commit(f) \/ FlushFails(f)

Shutdown(g) == CloseDb(g) \/ Exit(g)

Next ==
    \/ \E e \in Entries : Accept(e) \/ EndResponse(e) \/ Handle(e) \/ Age(e)
    \/ \E f \in Flushes : Work(f)
    \/ \E g \in Signals : Signal(g) \/ Shutdown(g)
    \/ Hold \/ Release \/ Hour
    \/ ForcedExit \/ Crash

Spec == Init /\ [][Next]_vars

\* Handlers end, statements are answered, connections are returned, the timer
\* fires.
FairSpec ==
    /\ Spec
    /\ \A e \in Entries : WF_vars(Handle(e))
    /\ \A f \in Flushes : WF_vars(Work(f))
    /\ \A g \in Signals : WF_vars(Shutdown(g))
    /\ WF_vars(Release)

-----------------------------------------------------------------------------
\* The log keeps the promise of AccessLog: each entry is visible at most once,
\* its batch as a whole, and is lost only by a failed flush, a crash, an exit
\* that is forced or hurried by a second signal, a flush that waits for a
\* connection when the pool closes, or when its request was over before it.
Promise == INSTANCE AccessLog WITH made <- Made, orphans <- orphans \cap Made,
                                   recorded <- table, lost <- Lost

KeepsPromise == Promise!Spec

\* While the process runs, every entry becomes visible or is lost for a reason:
\* none stays in the batch or in a flush, whatever the other connections do.
EveryEntrySettles ==
    \A e \in Entries : e \in Made ~> e \notin batch \cup Taken

\* A shutdown, once signalled, ends, without its deadline, when the handlers do:
\* it never waits for a flush that the closing pool has left waiting.
ShutdownEnds == \A g \in Signals : pc[g] = "wait" ~> ~up
=============================================================================
