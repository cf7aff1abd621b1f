---------------------------- MODULE FallbackChain ----------------------------
(***************************************************************************)
(* The fallback chain: table fallback_config, the requests of               *)
(* routes/fallback.ts that replace or sort it, the seeds that db/index.ts   *)
(* writes over it at every start, and the page of the dashboard             *)
(* (FallbackPage.tsx) that shows it, edits a copy and saves the copy.       *)
(*                                                                          *)
(* An UPDATE locks its row until the transaction ends, as Postgres does at   *)
(* READ COMMITTED, and Postgres aborts a transaction that waits in a circle.  *)
(* A chain, as a page has it, is the sequence of its rows in display order.  *)
(***************************************************************************)
EXTENDS Positions, Functions

CONSTANTS
    SeedChain,    \* the models in the order of their fallback_priority
    Configured,   \* the models of platforms with an enabled key
    Presets,      \* the orders of SORT_PRESETS, each a sequence of all models
    Pages,        \* open tabs of the dashboard
    MaxWrites,    \* bound: the requests that pages may send
    MaxEdits,     \* bound: drags and toggles
    MaxRestarts,  \* bound: restarts of the server
    MaxVisits     \* bound: times that the page is left for another

Models == Range(SeedChain)

ASSUME ChainAssumption ==
    /\ SeedChain \in Seq(Models) /\ IsInjective(SeedChain) /\ Configured \subseteq Models
    /\ \A s \in Presets : s \in Seq(Models) /\ IsInjective(s) /\ Range(s) = Models
    /\ Pages # {}
ASSUME NumberAssumption == {MaxWrites, MaxEdits, MaxRestarts, MaxVisits} \subseteq Nat

Writes == 1..MaxWrites

NoEdits == <<>>
NoData == <<>>  \* the query has not returned yet
Seeding == 0    \* in place of a write

VARIABLES
    table,     \* the committed rows of fallback_config
    last,      \* whose transaction has committed last
    shown,     \* of each page: what the query last returned, NoData for undefined
    local,     \* its localEntries, NoEdits for null
    fetch,     \* its request for the chain: "none", "sent", or what was read
    away,      \* the tabs that now display another page
    doubt,     \* the tabs whose last fetch has failed, or had read the chain when
               \* a write of theirs was answered, see Answered
    st,        \* of each write: where its request is
    from,      \* the page that sent it
    list,      \* its UPDATEs in order
    next,      \* the one that is due
    freed,     \* the writes whose page has been left since
    edits, restarts, visits

tableVars == <<table, last>>
visitVars == <<away, freed, visits>>
pageVars == <<shown, local, fetch, doubt, edits, visitVars>>
writeVars == <<st, from, list, next>>
vars == <<tableVars, pageVars, writeVars, restarts>>

Switch == {"on", "off"}
Keep == "keep"     \* a sort leaves the switch alone
Row(m, prio, on) == [m |-> m, prio |-> prio, on |-> on]
Numbered(s, from1) == [i \in DOMAIN s |-> [s[i] EXCEPT !.prio = from1 + i]]

\* SELECT ... ORDER BY fc.priority; no two rows share one, see WholeChain.
Chain(t) ==
    [n \in DOMAIN SeedChain |->
        LET before(m) == {k \in Models : t[k].prio < t[m].prio}
            model == CHOOSE m \in Models : Cardinality(before(m)) = n - 1
        IN Row(model, t[model].prio, t[model].on)]

SeededTable ==
    [m \in Models |-> [prio |-> CHOOSE i \in DOMAIN SeedChain : SeedChain[i] = m,
                       on |-> "on"]]

Rows == [m : Models, prio : 1..Len(SeedChain), on : Switch \cup {Keep}]
Ended == {"unused", "saved", "refused", "unsure"}

TypeOK ==
    /\ table \in [Models -> [prio : 1..Len(SeedChain), on : Switch]]
    /\ last \in {Seeding} \cup Writes
    /\ shown \in [Pages -> Seq(Rows)] /\ local \in [Pages -> Seq(Rows)]
    /\ fetch \in [Pages -> {<<"none">>, <<"sent">>} \cup ({"read"} \X Seq(Rows))]
    /\ away \subseteq Pages /\ doubt \subseteq Pages /\ freed \subseteq Writes
    /\ st \in [Writes -> Ended \cup {"open", "committed", "failed", "lost"}]
    /\ from \in [Writes -> Pages]
    /\ list \in [Writes -> Seq(Rows)]
    /\ next \in [Writes -> Nat] /\ \A w \in Writes : next[w] \in 1..(Len(list[w]) + 1)
    /\ edits \in 0..MaxEdits /\ restarts \in 0..MaxRestarts /\ visits \in 0..MaxVisits

Init ==
    /\ table = SeededTable /\ last = Seeding
    /\ shown = [p \in Pages |-> NoData]
    /\ local = [p \in Pages |-> NoEdits]
    /\ fetch = [p \in Pages |-> <<"sent">>]
    /\ away = {} /\ doubt = {} /\ freed = {}
    /\ st = [w \in Writes |-> "unused"]
    /\ from = [w \in Writes |-> CHOOSE p \in Pages : TRUE]
    /\ list = [w \in Writes |-> <<>>]
    /\ next = [w \in Writes |-> 1]
    /\ edits = 0 /\ restarts = 0 /\ visits = 0

-----------------------------------------------------------------------------
\* The page.

\* allEntries; none of them while the query is loading.
All(p) == IF local[p] = NoEdits THEN shown[p] ELSE local[p]
Displayed(p) == At(All(p), {i \in DOMAIN All(p) : All(p)[i].m \in Configured})
Hidden(p) == At(All(p), {i \in DOMAIN All(p) : All(p)[i].m \notin Configured})

Edit(p, chain) ==
    /\ edits < MaxEdits
    /\ local' = [local EXCEPT ![p] = chain]
    /\ edits' = edits + 1
    /\ UNCHANGED <<tableVars, shown, fetch, doubt, visitVars, writeVars, restarts>>

\* arrayMove.
Moved(s, i, j) ==
    [k \in DOMAIN s |-> s[CASE k = j -> i
                           [] i <= k /\ k < j -> k + 1
                           [] j < k /\ k <= i -> k - 1
                           [] OTHER -> k]]

\* handleDragEnd: the configured models come first, then all others.
Merged(visible, hidden) == Numbered(visible, 0) \o Numbered(hidden, Len(visible))

Drag(p) ==
    \E i, j \in DOMAIN Displayed(p) :
        /\ i # j
        /\ Edit(p, Merged(Moved(Displayed(p), i, j), Hidden(p)))

Toggle(p) ==
    \E i \in DOMAIN All(p) :
        /\ All(p)[i].m \in Configured
        /\ Edit(p, [All(p) EXCEPT ![i].on = IF @ = "on" THEN "off" ELSE "on"])

Discard(p) ==
    /\ local[p] # NoEdits
    /\ local' = [local EXCEPT ![p] = NoEdits]
    /\ UNCHANGED <<tableVars, shown, fetch, doubt, edits, visitVars, writeVars, restarts>>

\* isPending of the mutation that the mounted page has made.
Pending(p, save) ==
    \E w \in Writes \ freed :
        from[w] = p /\ st[w] \notin Ended /\ (list[w][1].on # Keep) = save

\* The mutation is sent; a write that has been sent opens its transaction.
Send(p, w, chain) ==
    /\ st[w] = "unused" /\ \A v \in 1..(w - 1) : st[v] # "unused"
    /\ st' = [st EXCEPT ![w] = "open"]
    /\ from' = [from EXCEPT ![w] = p]
    /\ list' = [list EXCEPT ![w] = chain]
    /\ UNCHANGED <<tableVars, pageVars, next, restarts>>

\* handleSave; its button is disabled while a save is pending.
Save(p, w) ==
    /\ local[p] # NoEdits /\ ~Pending(p, TRUE)
    /\ Send(p, w, local[p])

\* POST /sort/:preset numbers all models in the order of the preset.
Sorted(order) == [i \in DOMAIN order |-> Row(order[i], i, Keep)]

\* The buttons of the presets are disabled while a sort is pending, and only then:
\* not while the chain is loading.
SortBy(p, w) ==
    /\ p \notin away /\ ~Pending(p, FALSE)
    /\ \E order \in Presets : Send(p, w, Sorted(order))

\* The query is sent again when the window gets the focus.
Refetch(p) ==
    /\ p \notin away /\ fetch[p] = <<"none">>
    /\ fetch' = [fetch EXCEPT ![p] = <<"sent">>]
    /\ UNCHANGED <<tableVars, shown, local, doubt, edits, visitVars, writeVars, restarts>>

\* GET / of the router: one statement reads the chain.
ReadChain(p) ==
    /\ fetch[p] = <<"sent">>
    /\ fetch' = [fetch EXCEPT ![p] = <<"read", Chain(table)>>]
    /\ doubt' = doubt \ {p}
    /\ UNCHANGED <<tableVars, shown, local, edits, visitVars, writeVars, restarts>>

\* The statement, or the answer, fails: the query tries again or gives up, and
\* goes on to show what it has.
FetchFails(p) ==
    /\ fetch[p] # <<"none">>
    /\ \/ fetch' = [fetch EXCEPT ![p] = <<"sent">>] /\ UNCHANGED doubt
       \/ fetch' = [fetch EXCEPT ![p] = <<"none">>] /\ doubt' = doubt \cup {p}
    /\ UNCHANGED <<tableVars, shown, local, edits, visitVars, writeVars, restarts>>

Deliver(p) ==
    /\ fetch[p][1] = "read"
    /\ shown' = [shown EXCEPT ![p] = fetch[p][2]]
    /\ fetch' = [fetch EXCEPT ![p] = <<"none">>]
    /\ UNCHANGED <<tableVars, local, doubt, edits, visitVars, writeVars, restarts>>

\* The tab goes to another page of the dashboard: the edits are gone, and nobody
\* waits any more for what the page has sent.
Leave(p) ==
    /\ p \notin away /\ visits < MaxVisits
    /\ visits' = visits + 1
    /\ away' = away \cup {p}
    /\ local' = [local EXCEPT ![p] = NoEdits]
    /\ freed' = freed \cup {w \in Writes : st[w] # "unused" /\ from[w] = p}
    /\ UNCHANGED <<tableVars, shown, fetch, doubt, edits, writeVars, restarts>>

\* It comes back: the query is sent, or a fetch that goes on is joined.  After five
\* minutes the cache has forgotten what was there.
Return(p) ==
    /\ p \in away
    /\ away' = away \ {p}
    /\ \/ /\ fetch[p] = <<"none">>
          /\ fetch' = [fetch EXCEPT ![p] = <<"sent">>]
          /\ shown' \in {shown, [shown EXCEPT ![p] = NoData]}
       \/ fetch[p] # <<"none">> /\ UNCHANGED <<shown, fetch>>
    /\ UNCHANGED <<tableVars, local, doubt, edits, freed, visits, writeVars, restarts>>

-----------------------------------------------------------------------------
\* The server.

Touched(w) == {list[w][i].m : i \in 1..(next[w] - 1)}
Waits(v, w) ==
    /\ v # w /\ st[v] = "open" /\ st[w] = "open"
    /\ next[v] <= Len(list[v]) /\ list[v][next[v]].m \in Touched(w)

Value(t, r) == [prio |-> r.prio, on |-> IF r.on = Keep THEN t[r.m].on ELSE r.on]
AllWritten(t, rows) ==
    [m \in Models |-> Value(t, rows[CHOOSE i \in DOMAIN rows : rows[i].m = m])]

\* One UPDATE of PUT / or of POST /sort/:preset.
\* Mutant: outside of a transaction it shows at once.
Update_noTransaction(w) ==
    /\ st[w] = "open" /\ next[w] <= Len(list[w])
    /\ next' = [next EXCEPT ![w] = @ + 1]
    /\ LET r == list[w][next[w]] IN table' = [table EXCEPT ![r.m] = Value(table, r)]
    /\ last' = w
    /\ UNCHANGED <<pageVars, st, from, list, restarts>>
Update(w) ==
    /\ st[w] = "open" /\ next[w] <= Len(list[w])
    /\ ~\E v \in Writes : Waits(w, v)
    /\ next' = [next EXCEPT ![w] = @ + 1]
    /\ UNCHANGED <<tableVars, pageVars, st, from, list, restarts>>

\* COMMIT; its answer may be lost, and the handler throws although it was done.
Commit(w) ==
    /\ st[w] = "open" /\ next[w] > Len(list[w])
    /\ table' = AllWritten(table, list[w])
    /\ last' = w
    /\ \E s \in {"committed", "lost"} : st' = [st EXCEPT ![w] = s]
    /\ UNCHANGED <<pageVars, from, list, next, restarts>>

\* Postgres ends a circle of transactions that wait for each other by a failure
\* of one of them, which transaction() rolls back.
Deadlocked(w) ==
    /\ \E S \in SUBSET Writes :
        w \in S /\ \A v \in S : \E u \in S : Waits(v, u)
    /\ st' = [st EXCEPT ![w] = "failed"]
    /\ UNCHANGED <<tableVars, pageVars, from, list, next, restarts>>

\* The answer reaches the page: the chain is fetched again, instead of a fetch that is
\* under way.  If the page has been left, nothing is fetched; and a fetch that is under
\* way is kept, although it may have read before the write, if the page has been left
\* or is still loading.
\* Mutant: a fetch that is under way is taken to be good enough.
Answered_joinsFetch(p) ==
    /\ fetch' = [fetch EXCEPT ![p] = IF @ = <<"none">> THEN <<"sent">> ELSE @]
    /\ UNCHANGED doubt
Answered(p) ==
    \/ /\ p \notin away /\ (fetch[p] = <<"none">> \/ shown[p] # NoData)
       /\ fetch' = [fetch EXCEPT ![p] = <<"sent">>]
       /\ UNCHANGED doubt
    \/ /\ p \in away \/ (fetch[p] # <<"none">> /\ shown[p] = NoData)
       /\ doubt' = IF fetch[p][1] = "read" THEN doubt \cup {p} ELSE doubt
       /\ UNCHANGED fetch

\* onSuccess; the edits that it drops are those of the page that has sent the write.
Answer(w) ==
    /\ st[w] = "committed"
    /\ Answered(from[w])
    /\ local' = IF w \in freed THEN local ELSE [local EXCEPT ![from[w]] = NoEdits]
    /\ st' = [st EXCEPT ![w] = "saved"]
    /\ next' = [next EXCEPT ![w] = 1]
    /\ UNCHANGED <<tableVars, shown, edits, visitVars, from, list, restarts>>

\* The handler's promise is rejected and errorHandler answers 500; the page keeps
\* its edits.
\* Mutant: nobody answers for a handler that has thrown.
Refuse_never(w) == FALSE /\ UNCHANGED vars
Refuse(w) ==
    /\ \/ /\ st[w] = "failed"
          /\ st' = [st EXCEPT ![w] = "refused"]
          /\ list' = [list EXCEPT ![w] = <<>>]
       \/ /\ st[w] = "lost"
          /\ st' = [st EXCEPT ![w] = "unsure"]
          /\ UNCHANGED list
    /\ next' = [next EXCEPT ![w] = 1]
    /\ UNCHANGED <<tableVars, pageVars, from, restarts>>

\* The process ends and starts again: what was open is rolled back, pages get no
\* answer, seedModels writes the seeds over the table.  A fetch is tried again.
Restart ==
    /\ restarts < MaxRestarts
    /\ restarts' = restarts + 1
    /\ table' = SeededTable
    /\ last' = Seeding
    /\ LET ends == {w \in Writes : st[w] \notin Ended}
       IN /\ st' = [w \in Writes |-> IF w \in ends THEN "refused" ELSE st[w]]
          /\ list' = [w \in Writes |-> IF w \in ends THEN <<>> ELSE list[w]]
          /\ next' = [w \in Writes |-> 1]
    /\ fetch' = [p \in Pages |-> IF fetch[p] = <<"none">> THEN fetch[p] ELSE <<"sent">>]
    /\ UNCHANGED <<shown, local, doubt, edits, visitVars, from>>

Next ==
    \/ \E p \in Pages :
        \/ Drag(p) \/ Toggle(p) \/ Discard(p)
        \/ Refetch(p) \/ ReadChain(p) \/ FetchFails(p) \/ Deliver(p)
        \/ Leave(p) \/ Return(p)
        \/ \E w \in Writes : Save(p, w) \/ SortBy(p, w)
    \/ \E w \in Writes :
        Update(w) \/ Commit(w) \/ Deadlocked(w) \/ Answer(w) \/ Refuse(w)
    \/ Restart

\* The event loops of server and browser go on, and Postgres looks for circles.
Fairness ==
    \A w \in Writes : WF_vars(\/ Update(w) \/ Commit(w) \/ Deadlocked(w)
                              \/ Answer(w) \/ Refuse(w))

Spec == Init /\ [][Next]_vars
FairSpec == Spec /\ Fairness

-----------------------------------------------------------------------------
\* Properties.

Committed(w) == st[w] \in {"committed", "saved", "lost", "unsure"}

\* The table is never a mixture: all priorities are those of one save, of one sort
\* or of the seeds, and all switches those of one save or of the seeds, although
\* each request writes its rows one by one and two may write in opposite order.  No
\* two models share a priority, although pages number what they display and what
\* they hide, in a copy that may be as old as their first look at the chain.
WholeChain ==
    LET prios(t) == \A m \in Models : table[m].prio = t[m].prio
        switches(t) == \A m \in Models : table[m].on = t[m].on
        of(w) == AllWritten(SeededTable, list[w])
        done == {w \in Writes : Committed(w)}
    IN /\ TypeOK
       /\ \A m, n \in Models : m # n => table[m].prio # table[n].prio
       /\ prios(SeededTable) \/ \E w \in done : prios(of(w))
       /\ \/ switches(SeededTable)
          \/ \E w \in done : list[w][1].on # Keep /\ switches(of(w))

\* A page whose write has committed last, which knows it and waits for nothing, shows
\* the table, also if it had fetched the chain while it was writing.  What keeps it
\* from the table has a name: its last fetch has failed, or had read the chain before
\* the answer and was not replaced.
WriterSeesOwn ==
    \A p \in Pages \ (away \cup doubt) :
        (/\ last # Seeding /\ from[last] = p /\ st[last] = "saved"
         /\ fetch[p] = <<"none">>)
        => shown[p] = Chain(table)

\* Every write is answered, so that the buttons of its page are enabled again:
\* nobody waits for ever for the rows of another.
WritesAnswered ==
    \A w \in Writes : st[w] = "open" ~> st[w] \in {"saved", "refused", "unsure"}
=============================================================================
