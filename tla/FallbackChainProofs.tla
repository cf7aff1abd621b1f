-------------------------- MODULE FallbackChainProofs --------------------------
(***************************************************************************)
(* Proofs about FallbackChain, for any models, presets, pages, writes, edits *)
(* and restarts: the table is always a whole chain, and so is whatever a     *)
(* page shows, edits or saves.                                              *)
(***************************************************************************)
EXTENDS FallbackChain, FiniteSetTheorems, SequenceTheorems, TLAPS

-----------------------------------------------------------------------------
(* Ranks in finite sets of numbers.                                         *)

Rank(S, i) == Cardinality({j \in S : j <= i})

\* The rank of an element is one of 1..Cardinality(S).
LEMMA RankType ==
    ASSUME NEW S, IsFiniteSet(S), S \subseteq Int, NEW i \in S
    PROVE  Rank(S, i) \in 1..Cardinality(S)
<1> DEFINE upTo == {j \in S : j <= i}
<1>1. upTo \in SUBSET S /\ i \in upTo
  OBVIOUS
<1>2. IsFiniteSet(upTo) /\ Cardinality(upTo) <= Cardinality(S)
  BY <1>1, FS_Subset
<1>3. Cardinality(upTo) \in Nat /\ Cardinality(S) \in Nat
  BY <1>2, FS_CardinalityType
<1>4. Cardinality(upTo) # 0
  BY <1>1, <1>2, FS_EmptySet
<1> QED
  BY <1>2, <1>3, <1>4 DEF Rank

\* Of two elements the greater one has the greater rank.
LEMMA RankGrows ==
    ASSUME NEW S, IsFiniteSet(S), S \subseteq Int, NEW i \in S, NEW j \in S, i < j
    PROVE  Rank(S, i) < Rank(S, j)
<1> DEFINE lower == {k \in S : k <= i}
           higher == {k \in S : k <= j}
<1>1. higher \in SUBSET S /\ lower \in SUBSET higher
  <2>1. \A k \in S : k <= i => k <= j
    OBVIOUS
  <2> QED
    BY <2>1
<1>2. IsFiniteSet(higher)
  BY <1>1, FS_Subset
<1>3. IsFiniteSet(lower) /\ Cardinality(lower) <= Cardinality(higher)
  BY <1>1, <1>2, FS_Subset
<1>4. j \in higher /\ j \notin lower
  OBVIOUS
<1>5. Cardinality(lower) # Cardinality(higher)
  BY <1>1, <1>2, <1>4, FS_Subset
<1>6. Cardinality(lower) \in Nat /\ Cardinality(higher) \in Nat
  BY <1>2, <1>3, FS_CardinalityType
<1> QED
  BY <1>3, <1>5, <1>6 DEF Rank

\* Every number up to the size of the set is the rank of an element, which Nth finds.
LEMMA NthElement ==
    ASSUME NEW S, IsFiniteSet(S), S \subseteq Int, NEW n \in 1..Cardinality(S)
    PROVE  Nth(S, n) \in S /\ Rank(S, Nth(S, n)) = n
<1> DEFINE ranks == 1..Cardinality(S)
           rank == [i \in S |-> Rank(S, i)]
<1>1. Cardinality(S) \in Nat
  BY FS_CardinalityType
<1>2. rank \in [S -> ranks]
  BY RankType
<1>3. ASSUME NEW i \in S, NEW j \in S, rank[i] = rank[j]
      PROVE  i = j
  <2>1. Rank(S, i) \in Int /\ Rank(S, j) \in Int /\ Rank(S, i) = Rank(S, j)
    BY <1>2, <1>3
  <2>2. (i < j => Rank(S, i) < Rank(S, j)) /\ (j < i => Rank(S, j) < Rank(S, i))
    BY RankGrows
  <2>3. ~(i < j) /\ ~(j < i)
    BY <2>1, <2>2
  <2> QED
    BY <2>3
<1>4. rank \in Injection(S, ranks)
  BY <1>2, <1>3 DEF Injection, IsInjective
<1>5. IsFiniteSet(ranks) /\ Cardinality(ranks) = Cardinality(S)
  BY <1>1, FS_Interval
<1>6. rank \in Surjection(S, ranks)
  BY <1>4, <1>5, FS_Injection
<1>7. \E i \in S : rank[i] = n
  BY <1>6 DEF Surjection
<1>8. \E i \in S : Cardinality({j \in S : j <= i}) = n
  BY <1>7 DEF Rank
<1> QED
  BY <1>8 DEF Nth, Rank

-----------------------------------------------------------------------------
(* The invariant.                                                           *)

N == Len(SeedChain)
Tables == [Models -> [prio : 1..N, on : Switch]]
Distinct(t) == \A m, n \in Models : m # n => t[m].prio # t[n].prio

\* A chain that holds each model once, each with a priority of its own.
Whole(c) ==
    /\ c \in Seq(Rows) /\ Len(c) = N
    /\ \A i, j \in 1..N : i # j => c[i].m # c[j].m /\ c[i].prio # c[j].prio
Switched(c) == \A i \in DOMAIN c : c[i].on \in Switch
Unswitched(c) == \A i \in DOMAIN c : c[i].on = Keep

\* The table has the priorities of the seeds or of one write, and the switches of
\* the seeds or of one save.
TableInv ==
    /\ Distinct(table)
    /\ \/ \A m \in Models : table[m].prio = SeededTable[m].prio
       \/ \E w \in Writes :
            /\ Committed(w)
            /\ \A m \in Models : table[m].prio = AllWritten(SeededTable, list[w])[m].prio
    /\ \/ \A m \in Models : table[m].on = SeededTable[m].on
       \/ \E w \in Writes :
            /\ Committed(w) /\ list[w][1].on # Keep
            /\ \A m \in Models : table[m].on = AllWritten(SeededTable, list[w])[m].on

\* What a page has is a whole chain with its switches.
PageInv ==
    \A p \in Pages :
        /\ shown[p] # NoData => Whole(shown[p]) /\ Switched(shown[p])
        /\ local[p] # NoEdits => Whole(local[p]) /\ Switched(local[p])
        /\ fetch[p][1] = "read" => Whole(fetch[p][2]) /\ Switched(fetch[p][2])

\* What a write writes is a whole chain, of a save or of a sort.
WriteInv ==
    \A w \in Writes :
        /\ st[w] = "unused" => list[w] = <<>> /\ next[w] = 1
        /\ st[w] \in {"open", "committed", "saved", "failed", "lost", "unsure"} =>
             Whole(list[w]) /\ (Switched(list[w]) \/ Unswitched(list[w]))

\* A page that has been told of the last commit, its own, has asked for the chain
\* since then, and nobody has changed the table; or it will ask when it is displayed
\* again, or it is in doubt.
Seen(p) ==
    \/ p \in doubt
    \/ fetch[p] = <<"sent">>
    \/ fetch[p] = <<"read", Chain(table)>>
    \/ fetch[p] = <<"none">> /\ (p \in away \/ shown[p] = Chain(table))
SeenInv == last # Seeding => Committed(last) /\ (st[last] = "saved" => Seen(from[last]))

IInv == TypeOK /\ TableInv /\ PageInv /\ WriteInv /\ SeenInv

-----------------------------------------------------------------------------
(* The models and their numbers.                                            *)

\* There are as many models as places in the chain of the seeds.
LEMMA ModelsCount ==
    /\ N \in Nat /\ SeedChain \in [1..N -> Models]
    /\ \A i, j \in 1..N : SeedChain[i] = SeedChain[j] => i = j
    /\ \A m \in Models : \E i \in 1..N : SeedChain[i] = m
    /\ IsFiniteSet(Models) /\ Cardinality(Models) = N
<1>1. N \in Nat /\ SeedChain \in [1..N -> Models]
  BY ChainAssumption, LenProperties DEF N
<1>2. \A i, j \in 1..N : SeedChain[i] = SeedChain[j] => i = j
  BY <1>1, ChainAssumption DEF IsInjective
<1>3. \A m \in Models : \E i \in 1..N : SeedChain[i] = m
  BY <1>1 DEF Models, Range
<1>4. SeedChain \in Bijection(1..N, Models)
  BY <1>1, <1>2, <1>3 DEF Bijection, Injection, Surjection, IsInjective
<1>5. IsFiniteSet(1..N) /\ Cardinality(1..N) = N
  BY <1>1, FS_Interval
<1>6. ExistsBijection(1..N, Models)
  BY <1>4 DEF ExistsBijection
<1>7. IsFiniteSet(Models) /\ Cardinality(Models) = N
  BY <1>5, <1>6, FS_Bijection
<1> QED
  BY <1>1, <1>2, <1>3, <1>7

\* Models without repetition that fill N places are all models.
LEMMA EachModelOnce ==
    ASSUME NEW f \in [1..N -> Models], \A i, j \in 1..N : i # j => f[i] # f[j]
    PROVE  \A m \in Models : \E i \in 1..N : f[i] = m
<1>1. IsFiniteSet(1..N) /\ Cardinality(1..N) = N
  BY ModelsCount, FS_Interval
<1>2. f \in Injection(1..N, Models)
  BY DEF Injection, IsInjective
<1>3. f \in Surjection(1..N, Models)
  BY <1>1, <1>2, ModelsCount, FS_Injection
<1> QED
  BY <1>3 DEF Surjection

\* Distinct priorities are all numbers up to N.
LEMMA EachNumberOnce ==
    ASSUME NEW t \in Tables, Distinct(t)
    PROVE  \A n \in 1..N : \E m \in Models : t[m].prio = n
<1> DEFINE prios == [m \in Models |-> t[m].prio]
<1>1. prios \in [Models -> 1..N]
  BY DEF Tables
<1>2. IsFiniteSet(1..N) /\ Cardinality(1..N) = Cardinality(Models)
  BY ModelsCount, FS_Interval
<1>3. prios \in Injection(Models, 1..N)
  BY <1>1 DEF Injection, IsInjective, Distinct
<1>4. prios \in Surjection(Models, 1..N)
  BY <1>2, <1>3, ModelsCount, FS_Injection
<1> QED
  BY <1>4 DEF Surjection

\* The seeds are a table whose priorities differ.
LEMMA SeedsDiffer == SeededTable \in Tables /\ Distinct(SeededTable)
<1> DEFINE place(m) == CHOOSE i \in DOMAIN SeedChain : SeedChain[i] = m
<1>1. ASSUME NEW m \in Models
      PROVE  place(m) \in 1..N /\ SeedChain[place(m)] = m
  <2>1. DOMAIN SeedChain = 1..N
    BY ModelsCount
  <2>2. \E i \in DOMAIN SeedChain : SeedChain[i] = m
    BY <2>1, ModelsCount
  <2> QED
    BY <2>1, <2>2
<1>2. \A m \in Models : SeededTable[m].prio = place(m)
  BY DEF SeededTable
<1>3. SeededTable = [m \in Models |-> [prio |-> place(m), on |-> "on"]]
  BY DEF SeededTable
<1> HIDE DEF place
<1>4. SeededTable \in Tables
  BY <1>1, <1>3 DEF Tables, Switch
<1>5. ASSUME NEW m \in Models, NEW n \in Models, m # n
      PROVE  SeededTable[m].prio # SeededTable[n].prio
  <2>1. SeededTable[m].prio = place(m) /\ SeededTable[n].prio = place(n)
    BY <1>2
  <2>2. SeedChain[place(m)] = m /\ SeedChain[place(n)] = n
    BY <1>1
  <2> QED
    BY <1>5, <2>1, <2>2
<1> QED
  BY <1>4, <1>5 DEF Distinct

-----------------------------------------------------------------------------
(* Reading the table.                                                       *)

\* As many models come before a model as its priority says.
LEMMA BeforeCount ==
    ASSUME NEW t \in Tables, Distinct(t), NEW m \in Models
    PROVE  Cardinality({k \in Models : t[k].prio < t[m].prio}) = t[m].prio - 1
<1> DEFINE before == {k \in Models : t[k].prio < t[m].prio}
           prios == [k \in before |-> t[k].prio]
           p == t[m].prio
<1>1. p \in 1..N /\ N \in Nat /\ \A k \in Models : t[k].prio \in 1..N
  BY ModelsCount DEF Tables
<1>2. prios \in [before -> 1..(p - 1)]
  BY <1>1
<1>3. \A k, l \in before : prios[k] = prios[l] => k = l
  BY DEF Distinct
<1>4. \A n \in 1..(p - 1) : \E k \in before : prios[k] = n
  <2> SUFFICES ASSUME NEW n \in 1..(p - 1) PROVE \E k \in before : prios[k] = n
    OBVIOUS
  <2>1. n \in 1..N /\ n < p
    BY <1>1
  <2>2. PICK k \in Models : t[k].prio = n
    BY <2>1, EachNumberOnce
  <2> QED
    BY <2>1, <2>2
<1>5. prios \in Bijection(before, 1..(p - 1))
  BY <1>2, <1>3, <1>4 DEF Bijection, Injection, Surjection, IsInjective
<1>6. IsFiniteSet(before)
  BY ModelsCount, FS_Subset
<1>7. Cardinality(1..(p - 1)) = Cardinality(before)
  BY <1>5, <1>6, FS_Bijection DEF ExistsBijection
<1>8. p - 1 \in Int /\ Cardinality(1..(p - 1)) = p - 1
  BY <1>1, FS_Interval
<1> QED
  BY <1>7, <1>8

\* The chain has at its n-th place the row with the priority n.
LEMMA ChainRows ==
    ASSUME NEW t \in Tables, Distinct(t)
    PROVE  /\ Chain(t) \in [1..N -> Rows]
           /\ \A n \in 1..N : /\ Chain(t)[n].m \in Models /\ Chain(t)[n].prio = n
                              /\ t[Chain(t)[n].m].prio = n
                              /\ Chain(t)[n].on \in Switch
<1> DEFINE before(m) == {k \in Models : t[k].prio < t[m].prio}
           model(n) == CHOOSE m \in Models : Cardinality(before(m)) = n - 1
<1>1. ASSUME NEW n \in 1..N
      PROVE  model(n) \in Models /\ t[model(n)].prio = n
  <2>1. PICK m \in Models : t[m].prio = n
    BY EachNumberOnce
  <2>2. Cardinality(before(m)) = n - 1
    BY <2>1, BeforeCount
  <2>3. model(n) \in Models /\ Cardinality(before(model(n))) = n - 1
    BY <2>2
  <2> HIDE DEF model
  <2>4. t[model(n)].prio - 1 = n - 1
    BY <2>3, BeforeCount
  <2>5. t[model(n)].prio \in Int
    BY <2>3, ModelsCount DEF Tables
  <2> QED
    BY <2>3, <2>4, <2>5
<1>2. DOMAIN SeedChain = 1..N
  BY ModelsCount
<1>3. Chain(t) = [n \in 1..N |-> [m |-> model(n), prio |-> t[model(n)].prio,
                                  on |-> t[model(n)].on]]
  BY <1>2 DEF Chain, Row
<1> HIDE DEF model
<1>4. ASSUME NEW n \in 1..N
      PROVE  /\ Chain(t)[n].m \in Models /\ Chain(t)[n].prio = n
             /\ t[Chain(t)[n].m].prio = n
             /\ Chain(t)[n].on \in Switch
             /\ Chain(t)[n] \in Rows
  <2>1. /\ Chain(t)[n].m = model(n) /\ Chain(t)[n].prio = t[model(n)].prio
        /\ Chain(t)[n].on = t[model(n)].on
    BY <1>3
  <2>2. t[model(n)].on \in Switch /\ t[model(n)].prio \in 1..N
    BY <1>1 DEF Tables
  <2>3. Chain(t)[n] \in Rows
    BY <1>1, <1>3, <2>2 DEF Rows, N
  <2> QED
    BY <1>1, <2>1, <2>2, <2>3
<1> QED
  BY <1>3, <1>4

\* The chain of a table is whole and has its switches.
LEMMA ChainWhole ==
    ASSUME NEW t \in Tables, Distinct(t)
    PROVE  Whole(Chain(t)) /\ Switched(Chain(t))
<1>1. /\ Chain(t) \in [1..N -> Rows] /\ N \in Nat
      /\ \A n \in 1..N : Chain(t)[n].prio = n /\ t[Chain(t)[n].m].prio = n
                         /\ Chain(t)[n].on \in Switch
  BY ChainRows, ModelsCount
<1>2. Chain(t) \in Seq(Rows) /\ Len(Chain(t)) = N
  BY <1>1
<1>3. ASSUME NEW i \in 1..N, NEW j \in 1..N, i # j
      PROVE  Chain(t)[i].m # Chain(t)[j].m /\ Chain(t)[i].prio # Chain(t)[j].prio
  BY <1>1, <1>3
<1> QED
  BY <1>1, <1>2, <1>3 DEF Whole, Switched

\* A whole chain holds each model.
LEMMA WholeCovers ==
    ASSUME NEW c, Whole(c)
    PROVE  \A m \in Models : \E i \in 1..N : c[i].m = m
<1> DEFINE f == [i \in 1..N |-> c[i].m]
<1>1. DOMAIN c = 1..N /\ \A i \in 1..N : c[i] \in Rows
  BY LenProperties DEF Whole
<1>2. f \in [1..N -> Models]
  BY <1>1 DEF Rows
<1>3. \A i, j \in 1..N : i # j => f[i] # f[j]
  BY DEF Whole
<1>4. \A m \in Models : \E i \in 1..N : f[i] = m
  <2> HIDE DEF f
  <2> QED
    BY <1>2, <1>3, EachModelOnce
<1> QED
  BY <1>4

-----------------------------------------------------------------------------
(* Editing a chain.                                                         *)

\* Nth finds different elements for different ranks.
LEMMA NthInjective ==
    ASSUME NEW S, IsFiniteSet(S), S \subseteq Int,
           NEW i \in 1..Cardinality(S), NEW j \in 1..Cardinality(S), i # j
    PROVE  Nth(S, i) # Nth(S, j)
<1>1. Rank(S, Nth(S, i)) = i /\ Rank(S, Nth(S, j)) = j
  BY NthElement
<1> QED
  BY <1>1

\* Chain d has the rows of c in the order of g, with their places as priorities.
Renumbered(c, g, d) ==
    /\ g \in [1..N -> 1..N] /\ \A i, j \in 1..N : i # j => g[i] # g[j]
    /\ d \in Seq(Rows) /\ Len(d) = N
    /\ \A k \in 1..N : d[k].m = c[g[k]].m /\ d[k].prio = k /\ d[k].on = c[g[k]].on

\* The rows of a whole chain in another order, numbered again, are a whole chain.
LEMMA RenumberedWhole ==
    ASSUME NEW c, Whole(c), Switched(c), NEW g, NEW d, Renumbered(c, g, d)
    PROVE  Whole(d) /\ Switched(d)
<1> USE DEF Renumbered
<1>1. DOMAIN c = 1..N /\ DOMAIN d = 1..N
  BY LenProperties DEF Whole
<1>2. ASSUME NEW i \in 1..N, NEW j \in 1..N, i # j
      PROVE  d[i].m # d[j].m /\ d[i].prio # d[j].prio
  <2>1. g[i] \in 1..N /\ g[j] \in 1..N /\ g[i] # g[j]
    BY <1>2
  <2>2. c[g[i]].m # c[g[j]].m
    BY <2>1 DEF Whole
  <2>3. /\ d[i].m = c[g[i]].m /\ d[i].prio = i
        /\ d[j].m = c[g[j]].m /\ d[j].prio = j
    OBVIOUS
  <2> QED
    BY <1>2, <2>2, <2>3
<1>3. Whole(d)
  BY <1>2 DEF Whole
<1>4. \A k \in 1..N : d[k].on \in Switch
  BY <1>1 DEF Switched
<1> QED
  BY <1>1, <1>3, <1>4 DEF Switched

\* Rows that are numbered from a number on.
LEMMA NumberedRows ==
    ASSUME NEW n \in Nat, NEW a \in [1..n -> Rows], NEW k \in Nat, k + n <= N
    PROVE  /\ Numbered(a, k) \in Seq(Rows) /\ Len(Numbered(a, k)) = n
           /\ \A i \in 1..n : /\ Numbered(a, k)[i].m = a[i].m
                              /\ Numbered(a, k)[i].prio = k + i
                              /\ Numbered(a, k)[i].on = a[i].on
<1>1. N \in Nat
  BY ModelsCount
<1>2. Numbered(a, k) = [i \in 1..n |-> [a[i] EXCEPT !.prio = k + i]]
  BY DEF Numbered
<1>3. ASSUME NEW i \in 1..n
      PROVE  [a[i] EXCEPT !.prio = k + i]
               = [m |-> a[i].m, prio |-> k + i, on |-> a[i].on]
  <2>1. a[i] \in Rows
    OBVIOUS
  <2> QED
    BY <2>1 DEF Rows
<1>4. ASSUME NEW i \in 1..n
      PROVE  [m |-> a[i].m, prio |-> k + i, on |-> a[i].on] \in Rows
  <2>1. a[i] \in Rows
    OBVIOUS
  <2>2. k + i \in 1..N
    BY <1>1
  <2> QED
    BY <2>1, <2>2 DEF Rows, N
<1>5. Numbered(a, k) \in [1..n -> Rows]
  BY <1>2, <1>3, <1>4
<1>6. ASSUME NEW i \in 1..n
      PROVE  /\ Numbered(a, k)[i].m = a[i].m
             /\ Numbered(a, k)[i].prio = k + i
             /\ Numbered(a, k)[i].on = a[i].on
  <2>1. Numbered(a, k)[i] = [m |-> a[i].m, prio |-> k + i, on |-> a[i].on]
    BY <1>2, <1>3
  <2> QED
    BY <2>1
<1> QED
  BY <1>5, <1>6

\* The place of each element of a sequence of which one has been moved.
From(i, j, k) ==
    CASE k = j -> i
      [] i <= k /\ k < j -> k + 1
      [] j < k /\ k <= i -> k - 1
      [] OTHER -> k

\* Moving an element permutes the places.
LEMMA FromPermutes ==
    ASSUME NEW n \in Nat, NEW i \in 1..n, NEW j \in 1..n
    PROVE  /\ \A k \in 1..n : From(i, j, k) \in 1..n
           /\ \A k, l \in 1..n : k # l => From(i, j, k) # From(i, j, l)
  BY DEF From

\* A drag leaves a whole chain: what is displayed in its new order, then the rest.
LEMMA MergedWhole ==
    ASSUME NEW c, Whole(c), Switched(c), NEW V, V \subseteq 1..N,
           NEW i \in 1..Cardinality(V), NEW j \in 1..Cardinality(V)
    PROVE  /\ Whole(Merged(Moved(At(c, V), i, j), At(c, 1..N \ V)))
           /\ Switched(Merged(Moved(At(c, V), i, j), At(c, 1..N \ V)))
<1> DEFINE H == 1..N \ V
           v == Cardinality(V)
           h == Cardinality(H)
           moved == Moved(At(c, V), i, j)
           hidden == At(c, H)
           d == Merged(moved, hidden)
           g == [k \in 1..N |-> IF k <= v THEN Nth(V, From(i, j, k)) ELSE Nth(H, k - v)]
<1>1. N \in Nat /\ IsFiniteSet(1..N) /\ Cardinality(1..N) = N
  BY ModelsCount, FS_Interval
<1>2. IsFiniteSet(V) /\ IsFiniteSet(H) /\ H \subseteq 1..N /\ V \cap H = {}
  BY <1>1, FS_Subset
<1>3. v \in Nat /\ h \in Nat /\ v + h = N
  <2>1. (1..N) \cap V = V
    OBVIOUS
  <2>2. Cardinality(1..N \ V) = Cardinality(1..N) - Cardinality((1..N) \cap V)
    BY <1>1, FS_Difference
  <2>3. v \in Nat /\ h \in Nat
    BY <1>2, FS_CardinalityType
  <2>4. h = N - v
    BY <1>1, <2>1, <2>2
  <2> QED
    BY <1>1, <2>3, <2>4
<1>4. \A k \in 1..v : From(i, j, k) \in 1..v
  BY <1>3, FromPermutes
<1>5. /\ \A k \in 1..v : Nth(V, k) \in V
      /\ \A k \in 1..h : Nth(H, k) \in H
  <2>1. V \subseteq Int /\ H \subseteq Int
    BY <1>1
  <2> HIDE DEF H
  <2> QED
    BY <1>2, <2>1, NthElement
<1>6. DOMAIN c = 1..N /\ \A k \in 1..N : c[k] \in Rows
  BY LenProperties DEF Whole
<1>7. /\ moved = [k \in 1..v |-> c[Nth(V, From(i, j, k))]]
      /\ hidden = [k \in 1..h |-> c[Nth(H, k)]]
  <2>1. At(c, V) = [k \in 1..v |-> c[Nth(V, k)]]
    BY DEF At
  <2>2. moved = [k \in 1..v |-> At(c, V)[From(i, j, k)]]
    BY <2>1 DEF Moved, From
  <2>3. \A k \in 1..v : At(c, V)[From(i, j, k)] = c[Nth(V, From(i, j, k))]
    BY <1>4, <2>1
  <2>4. hidden = [k \in 1..h |-> c[Nth(H, k)]]
    BY DEF At
  <2> QED
    BY <2>2, <2>3, <2>4
<1>8. moved \in [1..v -> Rows] /\ hidden \in [1..h -> Rows]
  BY <1>2, <1>4, <1>5, <1>6, <1>7
<1>9. g \in [1..N -> 1..N]
  <2>1. ASSUME NEW k \in 1..N PROVE g[k] \in 1..N
    <3>1. CASE k <= v
      <4>1. k \in 1..v
        BY <3>1
      <4> QED
        BY <3>1, <4>1, <1>4, <1>5
    <3>2. CASE ~(k <= v)
      <4>1. k - v \in 1..h
        BY <3>2, <1>1, <1>3
      <4> QED
        BY <3>2, <4>1, <1>5
    <3> QED
      BY <3>1, <3>2
  <2> QED
    BY <2>1
<1>10. /\ \A k, l \in 1..v : k # l => Nth(V, k) # Nth(V, l)
       /\ \A k, l \in 1..h : k # l => Nth(H, k) # Nth(H, l)
  <2>1. V \subseteq Int /\ H \subseteq Int
    BY <1>1
  <2> HIDE DEF H
  <2> QED
    BY <1>2, <2>1, NthInjective
<1>11. ASSUME NEW k \in 1..N, NEW l \in 1..N, k # l
       PROVE  g[k] # g[l]
  <2>1. ASSUME NEW x \in 1..N, x <= v PROVE x \in 1..v /\ g[x] = Nth(V, From(i, j, x)) /\ g[x] \in V
    BY <2>1, <1>4, <1>5
  <2>2. ASSUME NEW x \in 1..N, ~(x <= v) PROVE x - v \in 1..h /\ g[x] = Nth(H, x - v) /\ g[x] \in H
    <3>1. x - v \in 1..h
      BY <2>2, <1>1, <1>3
    <3> QED
      BY <2>2, <3>1, <1>5
  <2> HIDE DEF g
  <2>3. CASE k <= v /\ l <= v
    <3>1. From(i, j, k) # From(i, j, l)
      BY <1>3, <1>11, <2>1, <2>3, FromPermutes
    <3> QED
      BY <1>4, <1>10, <2>1, <2>3, <3>1
  <2>4. CASE ~(k <= v) /\ ~(l <= v)
    <3>1. k - v # l - v
      BY <1>3, <1>11
    <3> QED
      BY <1>10, <2>2, <2>4, <3>1
  <2>5. CASE (k <= v) # (l <= v)
    BY <1>2, <2>1, <2>2, <2>5
  <2> QED
    BY <2>3, <2>4, <2>5
<1>12. /\ Numbered(moved, 0) \in Seq(Rows) /\ Len(Numbered(moved, 0)) = v
       /\ \A k \in 1..v : /\ Numbered(moved, 0)[k].m = moved[k].m
                          /\ Numbered(moved, 0)[k].prio = k
                          /\ Numbered(moved, 0)[k].on = moved[k].on
  <2> HIDE DEF moved, v
  <2>1. 0 + v <= N /\ v \in Nat /\ 0 \in Nat /\ \A k \in 1..v : 0 + k = k
    BY <1>1, <1>3
  <2>2. /\ Numbered(moved, 0) \in Seq(Rows) /\ Len(Numbered(moved, 0)) = v
        /\ \A k \in 1..v : /\ Numbered(moved, 0)[k].m = moved[k].m
                           /\ Numbered(moved, 0)[k].prio = 0 + k
                           /\ Numbered(moved, 0)[k].on = moved[k].on
    BY <1>8, <2>1, NumberedRows
  <2> QED
    BY <2>1, <2>2
<1>13. /\ Numbered(hidden, v) \in Seq(Rows) /\ Len(Numbered(hidden, v)) = h
       /\ \A k \in 1..h : /\ Numbered(hidden, v)[k].m = hidden[k].m
                          /\ Numbered(hidden, v)[k].prio = v + k
                          /\ Numbered(hidden, v)[k].on = hidden[k].on
  <2> HIDE DEF hidden, v, h
  <2>1. v + h <= N
    BY <1>1, <1>3
  <2> QED
    BY <1>3, <1>8, <2>1, NumberedRows
<1>14. d = Numbered(moved, 0) \o Numbered(hidden, v)
  <2>1. Len(moved) = v
    BY <1>3, <1>8
  <2> QED
    BY <2>1 DEF Merged
<1>15. /\ d \in Seq(Rows) /\ Len(d) = N
       /\ \A k \in 1..N : d[k] = IF k <= v THEN Numbered(moved, 0)[k]
                                 ELSE Numbered(hidden, v)[k - v]
  <2> DEFINE a == Numbered(moved, 0)
             b == Numbered(hidden, v)
  <2>1. a \in Seq(Rows) /\ Len(a) = v /\ b \in Seq(Rows) /\ Len(b) = h
    BY <1>12, <1>13
  <2>2. d = a \o b
    BY <1>14
  <2> HIDE DEF moved, hidden, d, v, h, a, b
  <2>3. /\ a \o b \in Seq(Rows) /\ Len(a \o b) = Len(a) + Len(b)
        /\ \A k \in 1..Len(a) + Len(b) :
               (a \o b)[k] = IF k <= Len(a) THEN a[k] ELSE b[k - Len(a)]
    BY <2>1, ConcatProperties
  <2>4. /\ d \in Seq(Rows) /\ Len(d) = N
        /\ \A k \in 1..N : d[k] = IF k <= v THEN a[k] ELSE b[k - v]
    BY <1>3, <2>1, <2>2, <2>3
  <2> QED
    BY <2>4 DEF a, b
<1>16. ASSUME NEW k \in 1..N
       PROVE  d[k].m = c[g[k]].m /\ d[k].prio = k /\ d[k].on = c[g[k]].on
  <2>1. CASE k <= v
    <3>1. k \in 1..v /\ g[k] = Nth(V, From(i, j, k))
      BY <2>1
    <3>2. moved[k] = c[g[k]]
      BY <3>1, <1>7
    <3> HIDE DEF moved, hidden, d, v, h, g
    <3> QED
      BY <2>1, <3>1, <3>2, <1>12, <1>15
  <2>2. CASE ~(k <= v)
    <3>1. k - v \in 1..h /\ g[k] = Nth(H, k - v) /\ v + (k - v) = k
      BY <2>2, <1>1, <1>3
    <3>2. hidden[k - v] = c[g[k]]
      BY <3>1, <1>7
    <3> HIDE DEF moved, hidden, d, v, h, g
    <3> QED
      BY <2>2, <3>1, <3>2, <1>13, <1>15
  <2> QED
    BY <2>1, <2>2
<1> HIDE DEF d, g, H, v, h, moved, hidden
<1>17. Whole(d) /\ Switched(d)
  <2>1. \A k, l \in 1..N : k # l => g[k] # g[l]
    BY <1>11
  <2>2. \A k \in 1..N : d[k].m = c[g[k]].m /\ d[k].prio = k /\ d[k].on = c[g[k]].on
    BY <1>16
  <2>3. d \in Seq(Rows) /\ Len(d) = N
    BY <1>15
  <2>4. Renumbered(c, g, d)
    BY <1>9, <2>1, <2>2, <2>3 DEF Renumbered
  <2> QED
    BY <2>4, RenumberedWhole
<1> QED
  BY <1>17 DEF d, H, moved, hidden

\* A toggle leaves a whole chain.
LEMMA ToggledWhole ==
    ASSUME NEW c, Whole(c), Switched(c), NEW i \in 1..N
    PROVE  LET d == [c EXCEPT ![i].on = IF @ = "on" THEN "off" ELSE "on"]
           IN  Whole(d) /\ Switched(d)
<1> DEFINE on == IF c[i].on = "on" THEN "off" ELSE "on"
           row == [c[i] EXCEPT !.on = on]
           d == [c EXCEPT ![i] = row]
<1>1. /\ c \in Seq(Rows) /\ Len(c) = N /\ DOMAIN c = 1..N
      /\ \A k \in 1..N : c[k] \in Rows
  BY LenProperties DEF Whole
<1>2. on \in Switch
  BY DEF Switch
<1>3. /\ row \in Rows /\ row.m = c[i].m /\ row.prio = c[i].prio /\ row.on = on
  <2> HIDE DEF on
  <2>1. c[i] \in Rows
    BY <1>1
  <2> QED
    BY <1>2, <2>1 DEF Rows
<1> HIDE DEF row, on
<1>4. /\ d \in Seq(Rows) /\ Len(d) = N
      /\ \A k \in 1..N : d[k] = IF k = i THEN row ELSE c[k]
  BY <1>1, <1>3, ExceptSeq
<1> HIDE DEF d
<1>5. \A k \in 1..N : /\ d[k].m = c[k].m /\ d[k].prio = c[k].prio
                      /\ d[k].on \in Switch
  BY <1>1, <1>2, <1>3, <1>4 DEF Switched
<1>6. Whole(d)
  BY <1>4, <1>5 DEF Whole
<1>7. DOMAIN d = 1..N
  BY <1>4, LenProperties
<1>8. Switched(d)
  BY <1>5, <1>7 DEF Switched
<1> QED
  BY <1>6, <1>8 DEF d, row, on

\* A preset orders each model once, so what a sort writes is a whole chain.
LEMMA SortedWhole ==
    ASSUME NEW order \in Presets
    PROVE  Whole(Sorted(order)) /\ Unswitched(Sorted(order))
<1> DEFINE n == Len(order)
<1>1. /\ order \in Seq(Models) /\ n \in Nat /\ order \in [1..n -> Models]
      /\ DOMAIN order = 1..n
  BY ChainAssumption, LenProperties
<1>2. \A i, j \in 1..n : order[i] = order[j] => i = j
  BY <1>1, ChainAssumption DEF IsInjective
<1>3. \A m \in Models : \E i \in 1..n : order[i] = m
  BY <1>1, ChainAssumption DEF Range
<1>4. order \in Bijection(1..n, Models)
  BY <1>1, <1>2, <1>3 DEF Bijection, Injection, Surjection, IsInjective
<1>5. IsFiniteSet(1..n) /\ Cardinality(1..n) = n
  BY <1>1, FS_Interval
<1>6. ExistsBijection(1..n, Models)
  BY <1>4 DEF ExistsBijection
<1>7. n = N
  BY <1>5, <1>6, FS_Bijection, ModelsCount
<1> HIDE DEF n
<1>8. Sorted(order) = [i \in 1..N |-> [m |-> order[i], prio |-> i, on |-> Keep]]
  BY <1>1, <1>7 DEF Sorted, Row
<1>9. N \in Nat
  BY ModelsCount
<1>10. \A i \in 1..N : [m |-> order[i], prio |-> i, on |-> Keep] \in Rows
  BY <1>1, <1>7 DEF Rows, N
<1>11. Sorted(order) \in [1..N -> Rows]
  BY <1>8, <1>10
<1>12. Sorted(order) \in Seq(Rows) /\ Len(Sorted(order)) = N
  BY <1>9, <1>11
<1>13. \A i \in 1..N : /\ Sorted(order)[i].m = order[i] /\ Sorted(order)[i].prio = i
                       /\ Sorted(order)[i].on = Keep
  BY <1>8
<1>14. Whole(Sorted(order))
  BY <1>2, <1>7, <1>12, <1>13 DEF Whole
<1>15. Unswitched(Sorted(order))
  BY <1>11, <1>13 DEF Unswitched
<1> QED
  BY <1>14, <1>15

-----------------------------------------------------------------------------
(* Writing a chain.                                                         *)

RowOf(rows, m) == rows[CHOOSE i \in DOMAIN rows : rows[i].m = m]

\* Each model has a row of its own in a whole chain.
LEMMA RowOfModel ==
    ASSUME NEW rows, Whole(rows)
    PROVE  /\ \A m \in Models : RowOf(rows, m) \in Rows /\ RowOf(rows, m).m = m
           /\ \A m, n \in Models :
                m # n => RowOf(rows, m).prio # RowOf(rows, n).prio
           /\ Switched(rows) => \A m \in Models : RowOf(rows, m).on \in Switch
           /\ Unswitched(rows) => \A m \in Models : RowOf(rows, m).on = Keep
<1> DEFINE at(m) == CHOOSE i \in DOMAIN rows : rows[i].m = m
<1>1. DOMAIN rows = 1..N /\ \A i \in 1..N : rows[i] \in Rows
  BY LenProperties DEF Whole
<1>2. \A m \in Models : at(m) \in 1..N /\ rows[at(m)].m = m
  BY <1>1, WholeCovers
<1>3. \A m : RowOf(rows, m) = rows[at(m)]
  BY DEF RowOf
<1> HIDE DEF at
<1>4. \A m \in Models : RowOf(rows, m) \in Rows /\ RowOf(rows, m).m = m
  BY <1>1, <1>2, <1>3
<1>5. ASSUME NEW m \in Models, NEW n \in Models, m # n
      PROVE  RowOf(rows, m).prio # RowOf(rows, n).prio
  <2>1. at(m) \in 1..N /\ at(n) \in 1..N /\ at(m) # at(n)
    BY <1>2, <1>5
  <2> QED
    BY <1>3, <2>1 DEF Whole
<1>6. Switched(rows) => \A m \in Models : RowOf(rows, m).on \in Switch
  BY <1>1, <1>2, <1>3 DEF Switched
<1>7. Unswitched(rows) => \A m \in Models : RowOf(rows, m).on = Keep
  BY <1>1, <1>2, <1>3 DEF Unswitched
<1> QED
  BY <1>4, <1>5, <1>6, <1>7

\* What is in a row after all rows of a whole chain have been written.
LEMMA WrittenRow ==
    ASSUME NEW t \in Tables, NEW rows, Whole(rows), NEW m \in Models
    PROVE  AllWritten(t, rows)[m] =
             [prio |-> RowOf(rows, m).prio,
              on |-> IF RowOf(rows, m).on = Keep THEN t[m].on ELSE RowOf(rows, m).on]
<1>1. RowOf(rows, m).m = m
  BY RowOfModel
<1>2. AllWritten(t, rows)[m] = Value(t, RowOf(rows, m))
  BY DEF AllWritten, RowOf
<1> QED
  BY <1>1, <1>2 DEF Value

\* A table over which a whole chain has been written is a table whose priorities
\* differ; they are those of the chain, as the switches are unless it keeps them.
LEMMA WrittenTable ==
    ASSUME NEW t \in Tables, NEW u \in Tables, NEW rows, Whole(rows),
           Switched(rows) \/ Unswitched(rows)
    PROVE  /\ AllWritten(t, rows) \in Tables /\ Distinct(AllWritten(t, rows))
           /\ \A m \in Models : AllWritten(t, rows)[m].prio = AllWritten(u, rows)[m].prio
           /\ Switched(rows) => \A m \in Models :
                AllWritten(t, rows)[m].on = AllWritten(u, rows)[m].on
           /\ Unswitched(rows) => \A m \in Models : AllWritten(t, rows)[m].on = t[m].on
<1>1. ASSUME NEW m \in Models
      PROVE  /\ AllWritten(t, rows)[m] \in [prio : 1..N, on : Switch]
             /\ AllWritten(t, rows)[m].prio = RowOf(rows, m).prio
             /\ AllWritten(u, rows)[m].prio = RowOf(rows, m).prio
             /\ Switched(rows) => /\ AllWritten(t, rows)[m].on = RowOf(rows, m).on
                                  /\ AllWritten(u, rows)[m].on = RowOf(rows, m).on
             /\ Unswitched(rows) => AllWritten(t, rows)[m].on = t[m].on
  <2> DEFINE r == RowOf(rows, m)
             on(a) == IF r.on = Keep THEN a[m].on ELSE r.on
  <2>1. /\ AllWritten(t, rows)[m] = [prio |-> r.prio, on |-> on(t)]
        /\ AllWritten(u, rows)[m] = [prio |-> r.prio, on |-> on(u)]
    BY WrittenRow
  <2>2. r \in Rows /\ (Switched(rows) => r.on \in Switch) /\ (Unswitched(rows) => r.on = Keep)
    BY RowOfModel
  <2> HIDE DEF r
  <2>3. r.prio \in 1..N
    BY <2>2 DEF Rows, N
  <2>4. Keep \notin Switch
    BY DEF Keep, Switch
  <2>5. /\ Switched(rows) => on(t) = r.on /\ on(u) = r.on
        /\ Unswitched(rows) => on(t) = t[m].on
    BY <2>2, <2>4
  <2>6. t[m].on \in Switch
    BY DEF Tables
  <2>7. on(t) \in Switch
    BY <2>2, <2>5, <2>6
  <2> HIDE DEF on
  <2> QED
    BY <2>1, <2>3, <2>5, <2>7 DEF r
<1>2. AllWritten(t, rows) \in Tables
  <2>1. AllWritten(t, rows) = [m \in Models |-> AllWritten(t, rows)[m]]
    BY DEF AllWritten
  <2> QED
    BY <1>1, <2>1 DEF Tables
<1>3. Distinct(AllWritten(t, rows))
  BY <1>1, RowOfModel DEF Distinct
<1> QED
  BY <1>1, <1>2, <1>3

-----------------------------------------------------------------------------
(* Facts for the steps.                                                     *)

\* The table is one that Chain and AllWritten are meant for.
LEMMA TableTyped ==
    ASSUME TypeOK
    PROVE  table \in Tables
  BY DEF TypeOK, Tables, N

\* A request for the chain has not been sent, is under way, or has read the chain.
LEMMA FetchCases ==
    ASSUME TypeOK, NEW p \in Pages
    PROVE  \/ fetch[p] = <<"none">> \/ fetch[p] = <<"sent">>
           \/ \E c \in Seq(Rows) : fetch[p] = <<"read", c>>
  BY DEF TypeOK

\* A request of any of the three kinds has its type.
LEMMA FetchTyped ==
    ASSUME NEW c \in Seq(Rows)
    PROVE  /\ <<"none">> \in {<<"none">>, <<"sent">>} \cup ({"read"} \X Seq(Rows))
           /\ <<"sent">> \in {<<"none">>, <<"sent">>} \cup ({"read"} \X Seq(Rows))
           /\ <<"read", c>> \in {<<"none">>, <<"sent">>} \cup ({"read"} \X Seq(Rows))
  OBVIOUS

\* The table stays explained while it stays and committed writes keep their rows.
LEMMA TableKept ==
    ASSUME TableInv, table' = table,
           \A w \in Writes : Committed(w) => Committed(w)' /\ list'[w] = list[w]
    PROVE  TableInv'
<1>1. Distinct(table')
  BY DEF TableInv, Distinct
<1>2. \/ \A m \in Models : table'[m].prio = SeededTable[m].prio
      \/ \E w \in Writes :
            /\ Committed(w)'
            /\ \A m \in Models : table'[m].prio = AllWritten(SeededTable, list'[w])[m].prio
  BY DEF TableInv
<1>3. \/ \A m \in Models : table'[m].on = SeededTable[m].on
      \/ \E w \in Writes :
            /\ Committed(w)' /\ list'[w][1].on # Keep
            /\ \A m \in Models : table'[m].on = AllWritten(SeededTable, list'[w])[m].on
  BY DEF TableInv
<1> QED
  BY <1>1, <1>2, <1>3 DEF TableInv

\* What a page displays, shown or edited, is a whole chain.
LEMMA AllWhole ==
    ASSUME PageInv, NEW p \in Pages, All(p) # NoData
    PROVE  Whole(All(p)) /\ Switched(All(p))
  BY DEF PageInv, All

\* No write has the number that stands for the seeds.
LEMMA SeedingIsNoWrite == Writes \subseteq Nat /\ Seeding \notin Writes
<1>1. MaxWrites \in Nat
  BY NumberAssumption
<1> QED
  BY <1>1 DEF Writes, Seeding

-----------------------------------------------------------------------------
(* The invariant holds at first.                                            *)

LEMMA InitIInv == Init => IInv
<1> SUFFICES ASSUME Init PROVE IInv
  OBVIOUS
<1>1. SeededTable \in Tables /\ Distinct(SeededTable)
  BY SeedsDiffer
<1>2. Whole(Chain(SeededTable)) /\ Switched(Chain(SeededTable))
  BY <1>1, ChainWhole
<1>3. Chain(SeededTable) \in Seq(Rows)
  BY <1>2 DEF Whole
<1>4. TypeOK
  <2>1. table \in [Models -> [prio : 1..Len(SeedChain), on : Switch]]
    BY <1>1 DEF Init, Tables, N
  <2>2. shown \in [Pages -> Seq(Rows)]
    <3>1. NoData \in Seq(Rows)
      BY DEF NoData
    <3> QED
      BY <3>1 DEF Init
  <2>3. local \in [Pages -> Seq(Rows)]
    <3>1. <<>> \in Seq(Rows)
      OBVIOUS
    <3> QED
      BY <3>1 DEF Init, NoEdits
  <2>4. fetch \in [Pages -> {<<"none">>, <<"sent">>} \cup ({"read"} \X Seq(Rows))]
    BY DEF Init
  <2>5. from \in [Writes -> Pages]
    <3>1. (CHOOSE p \in Pages : TRUE) \in Pages
      BY ChainAssumption
    <3> QED
      BY <3>1 DEF Init
  <2>6. list \in [Writes -> Seq(Rows)] /\ next \in [Writes -> Nat]
    <3>1. <<>> \in Seq(Rows)
      OBVIOUS
    <3> QED
      BY <3>1 DEF Init
  <2>7. \A w \in Writes : next[w] \in 1..(Len(list[w]) + 1)
    BY DEF Init
  <2>8. st \in [Writes -> Ended \cup {"open", "committed", "failed", "lost"}]
    BY DEF Init, Ended
  <2>9. edits \in 0..MaxEdits /\ restarts \in 0..MaxRestarts /\ visits \in 0..MaxVisits
    BY NumberAssumption DEF Init
  <2> QED
    BY <2>1, <2>2, <2>3, <2>4, <2>5, <2>6, <2>7, <2>8, <2>9 DEF TypeOK, Init
<1>5. TableInv
  BY <1>1 DEF Init, TableInv
<1>6. PageInv
  <2>1. \A p \in Pages : fetch[p][1] # "read"
    BY DEF Init
  <2> QED
    BY <1>2, <2>1 DEF Init, PageInv
<1>7. WriteInv
  BY DEF Init, WriteInv
<1>8. SeenInv
  BY DEF Init, SeenInv
<1> QED
  BY <1>4, <1>5, <1>6, <1>7, <1>8 DEF IInv

-----------------------------------------------------------------------------
(* The steps of a page.                                                     *)

\* An edit that leaves a whole chain.
LEMMA EditStep ==
    ASSUME IInv, NEW p \in Pages, NEW chain, Whole(chain), Switched(chain),
           Edit(p, chain)
    PROVE  IInv'
<1>1. /\ local' = [local EXCEPT ![p] = chain] /\ edits < MaxEdits /\ edits' = edits + 1
      /\ table' = table /\ last' = last /\ shown' = shown /\ fetch' = fetch
      /\ st' = st /\ from' = from /\ list' = list /\ next' = next
      /\ restarts' = restarts
      /\ away' = away /\ doubt' = doubt /\ freed' = freed /\ visits' = visits
  BY DEF Edit, tableVars, writeVars, visitVars
<1>2. TypeOK'
  <2>1. chain \in Seq(Rows)
    BY DEF Whole
  <2>2. local' \in [Pages -> Seq(Rows)]
    BY <1>1, <2>1 DEF IInv, TypeOK
  <2>3. edits' \in 0..MaxEdits
    BY <1>1, NumberAssumption DEF IInv, TypeOK
  <2> QED
    BY <1>1, <2>2, <2>3 DEF IInv, TypeOK
<1>3. TableInv'
  BY <1>1, TableKept DEF IInv, Committed
<1>4. PageInv'
  <2>1. \A q \in Pages : local'[q] = IF q = p THEN chain ELSE local[q]
    BY <1>1 DEF IInv, TypeOK
  <2> QED
    BY <1>1, <2>1 DEF IInv, PageInv
<1>5. WriteInv'
  BY <1>1 DEF IInv, WriteInv
<1>6. SeenInv'
  BY <1>1 DEF IInv, SeenInv, Seen, Committed
<1> QED
  BY <1>2, <1>3, <1>4, <1>5, <1>6 DEF IInv

LEMMA DragStep ==
    ASSUME IInv, NEW p \in Pages, Drag(p)
    PROVE  IInv'
<1> DEFINE c == All(p)
           V == {i \in DOMAIN c : c[i].m \in Configured}
<1>0. c # NoData
  <2>1. Displayed(p) = At(c, V)
    BY DEF Displayed
  <2>2. DOMAIN At(c, V) # {}
    BY <2>1 DEF Drag
  <2>3. DOMAIN At(c, V) = 1..Cardinality(V)
    BY DEF At
  <2>4. Cardinality(V) # 0
    BY <2>2, <2>3
  <2>5. CASE c = NoData
    <3>1. V = {}
      BY <2>5 DEF NoData
    <3> QED
      BY <2>4, <3>1, FS_EmptySet
  <2> QED
    BY <2>5
<1>1. Whole(c) /\ Switched(c)
  BY <1>0, AllWhole DEF IInv
<1>2. DOMAIN c = 1..N
  BY <1>1, LenProperties DEF Whole
<1>3. /\ Displayed(p) = At(c, V) /\ DOMAIN At(c, V) = 1..Cardinality(V)
      /\ Hidden(p) = At(c, 1..N \ V)
  <2>1. 1..N \ V = {i \in DOMAIN c : c[i].m \notin Configured}
    BY <1>2
  <2>2. Hidden(p) = At(c, {i \in DOMAIN c : c[i].m \notin Configured})
    BY DEF Hidden
  <2>3. Displayed(p) = At(c, V)
    BY DEF Displayed
  <2>4. DOMAIN At(c, V) = 1..Cardinality(V)
    BY DEF At
  <2> QED
    BY <2>1, <2>2, <2>3, <2>4
<1>4. V \subseteq 1..N
  BY <1>2
<1> HIDE DEF c, V
<1>5. PICK i \in 1..Cardinality(V), j \in 1..Cardinality(V) :
          Edit(p, Merged(Moved(At(c, V), i, j), At(c, 1..N \ V)))
  BY <1>3 DEF Drag
<1> DEFINE d == Merged(Moved(At(c, V), i, j), At(c, 1..N \ V))
<1>6. Whole(d) /\ Switched(d)
  BY <1>1, <1>4, MergedWhole
<1> QED
  BY <1>5, <1>6, EditStep

LEMMA ToggleStep ==
    ASSUME IInv, NEW p \in Pages, Toggle(p)
    PROVE  IInv'
<1> DEFINE c == All(p)
<1>0. c # NoData
  BY DEF Toggle, NoData
<1>1. Whole(c) /\ Switched(c)
  BY <1>0, AllWhole DEF IInv
<1>2. DOMAIN c = 1..N
  BY <1>1, LenProperties DEF Whole
<1>3. PICK i \in 1..N : Edit(p, [c EXCEPT ![i].on = IF @ = "on" THEN "off" ELSE "on"])
  BY <1>2 DEF Toggle
<1> HIDE DEF c
<1> DEFINE d == [c EXCEPT ![i].on = IF @ = "on" THEN "off" ELSE "on"]
<1>4. Whole(d) /\ Switched(d)
  BY <1>1, ToggledWhole
<1> QED
  BY <1>3, <1>4, EditStep

LEMMA DiscardStep ==
    ASSUME IInv, NEW p \in Pages, Discard(p)
    PROVE  IInv'
<1>1. /\ local' = [local EXCEPT ![p] = NoEdits]
      /\ table' = table /\ last' = last /\ shown' = shown /\ fetch' = fetch
      /\ st' = st /\ from' = from /\ list' = list /\ next' = next
      /\ restarts' = restarts /\ edits' = edits
      /\ away' = away /\ doubt' = doubt /\ freed' = freed /\ visits' = visits
  BY DEF Discard, tableVars, writeVars, visitVars
<1>2. TypeOK'
  <2>1. NoEdits \in Seq(Rows)
    BY DEF NoEdits
  <2>2. local' \in [Pages -> Seq(Rows)]
    BY <1>1, <2>1 DEF IInv, TypeOK
  <2> QED
    BY <1>1, <2>2 DEF IInv, TypeOK
<1>3. TableInv'
  BY <1>1, TableKept DEF IInv, Committed
<1>4. PageInv'
  <2>1. \A q \in Pages : local'[q] = IF q = p THEN NoEdits ELSE local[q]
    BY <1>1 DEF IInv, TypeOK
  <2> QED
    BY <1>1, <2>1 DEF IInv, PageInv
<1>5. WriteInv'
  BY <1>1 DEF IInv, WriteInv
<1>6. SeenInv'
  BY <1>1 DEF IInv, SeenInv, Seen, Committed
<1> QED
  BY <1>2, <1>3, <1>4, <1>5, <1>6 DEF IInv

\* A request that writes a whole chain, of a save or of a sort.
LEMMA SendStep ==
    ASSUME IInv, NEW p \in Pages, NEW w \in Writes, NEW chain, Whole(chain),
           Switched(chain) \/ Unswitched(chain), Send(p, w, chain)
    PROVE  IInv'
<1>1. /\ st[w] = "unused"
      /\ st' = [st EXCEPT ![w] = "open"] /\ from' = [from EXCEPT ![w] = p]
      /\ list' = [list EXCEPT ![w] = chain] /\ next' = next
      /\ table' = table /\ last' = last /\ shown' = shown /\ fetch' = fetch
      /\ local' = local /\ restarts' = restarts /\ edits' = edits
      /\ away' = away /\ doubt' = doubt /\ freed' = freed /\ visits' = visits
  BY DEF Send, tableVars, pageVars, visitVars
<1>2. chain \in Seq(Rows)
  BY DEF Whole
<1>3. \A v \in Writes :
        /\ st'[v] = IF v = w THEN "open" ELSE st[v]
        /\ from'[v] = IF v = w THEN p ELSE from[v]
        /\ list'[v] = IF v = w THEN chain ELSE list[v]
        /\ next'[v] = next[v]
  BY <1>1 DEF IInv, TypeOK
<1>4. TypeOK'
  <2>1. /\ st' \in [Writes -> Ended \cup {"open", "committed", "failed", "lost"}]
        /\ from' \in [Writes -> Pages] /\ list' \in [Writes -> Seq(Rows)]
    BY <1>1, <1>2 DEF IInv, TypeOK
  <2>2. \A v \in Writes : next'[v] \in 1..(Len(list'[v]) + 1)
    <3>1. next[w] = 1 /\ Len(chain) \in Nat
      BY <1>1, <1>2 DEF IInv, WriteInv
    <3>2. \A v \in Writes : next[v] \in 1..(Len(list[v]) + 1)
      BY DEF IInv, TypeOK
    <3>3. 1 \in 1..(Len(chain) + 1)
      BY <3>1
    <3> QED
      BY <1>3, <3>1, <3>2, <3>3
  <2> QED
    BY <1>1, <2>1, <2>2 DEF IInv, TypeOK
<1>5. TableInv'
  <2>1. \A v \in Writes : Committed(v) => Committed(v)' /\ list'[v] = list[v]
    BY <1>1, <1>3 DEF Committed
  <2> QED
    BY <1>1, <2>1, TableKept DEF IInv
<1>6. PageInv'
  BY <1>1 DEF IInv, PageInv
<1>7. WriteInv'
  BY <1>3 DEF IInv, WriteInv
<1>8. SeenInv'
  <2>1. last # Seeding => last \in Writes /\ last # w
    BY <1>1 DEF IInv, TypeOK, SeenInv, Committed
  <2> QED
    BY <1>1, <1>3, <2>1 DEF IInv, SeenInv, Seen, Committed
<1> QED
  BY <1>4, <1>5, <1>6, <1>7, <1>8 DEF IInv

LEMMA SaveStep ==
    ASSUME IInv, NEW p \in Pages, NEW w \in Writes, Save(p, w)
    PROVE  IInv'
<1>1. Whole(local[p]) /\ Switched(local[p])
  BY DEF Save, IInv, PageInv
<1> QED
  BY <1>1, SendStep DEF Save

LEMMA SortByStep ==
    ASSUME IInv, NEW p \in Pages, NEW w \in Writes, SortBy(p, w)
    PROVE  IInv'
<1>1. PICK order \in Presets : Send(p, w, Sorted(order))
  BY DEF SortBy
<1> QED
  BY <1>1, SendStep, SortedWhole

\* What a page has seen stays so if no write moves and every page still sees it.
LEMMA SeenKept ==
    ASSUME TypeOK, SeenInv, last' = last, st' = st, from' = from,
           \A q \in Pages : Seen(q) => Seen(q)'
    PROVE  SeenInv'
<1>1. last # Seeding => last \in Writes /\ from[last] \in Pages
  BY DEF TypeOK
<1> SUFFICES ASSUME last # Seeding
             PROVE  Committed(last)' /\ (st'[last] = "saved" => Seen(from[last])')
  BY DEF SeenInv
<1>2. Committed(last)'
  BY DEF SeenInv, Committed
<1>3. PICK q \in Pages : q = from[last]
  BY <1>1
<1>4. st[last] = "saved" => Seen(q)
  BY <1>3 DEF SeenInv, Seen
<1>5. st[last] = "saved" => Seen(q)'
  BY <1>4
<1> QED
  BY <1>2, <1>3, <1>5 DEF Seen

\* A page asks for the chain, reads it, fails or gets it.
LEMMA FetchStep ==
    ASSUME IInv, NEW p \in Pages,
           Refetch(p) \/ ReadChain(p) \/ FetchFails(p) \/ Deliver(p)
    PROVE  IInv'
<1>1. /\ table' = table /\ last' = last /\ local' = local /\ edits' = edits
      /\ st' = st /\ from' = from /\ list' = list /\ next' = next
      /\ restarts' = restarts /\ away' = away /\ freed' = freed /\ visits' = visits
  BY DEF Refetch, ReadChain, FetchFails, Deliver, tableVars, writeVars, visitVars
<1>2. TypeOK /\ SeenInv
  BY DEF IInv
<1>3. TableInv' /\ WriteInv'
  BY <1>1, TableKept DEF IInv, Committed, WriteInv
<1>4. Whole(Chain(table)) /\ Switched(Chain(table)) /\ Chain(table) \in Seq(Rows)
  BY <1>2, TableTyped, ChainWhole DEF IInv, TableInv, Whole
<1>5. ASSUME shown' = shown, fetch' = [fetch EXCEPT ![p] = <<"sent">>],
             doubt' = doubt
      PROVE  IInv'
  <2>1. \A q \in Pages : fetch'[q] = IF q = p THEN <<"sent">> ELSE fetch[q]
    BY <1>2, <1>5 DEF TypeOK
  <2>2. TypeOK'
    <3>1. fetch' \in [Pages -> {<<"none">>, <<"sent">>} \cup ({"read"} \X Seq(Rows))]
      BY <1>2, <1>5 DEF TypeOK
    <3> QED
      BY <1>1, <1>2, <1>5, <3>1 DEF TypeOK
  <2>3. PageInv'
    <3>1. \A q \in Pages : fetch'[q][1] = "read" => fetch'[q] = fetch[q]
      BY <2>1
    <3> QED
      BY <1>1, <1>5, <3>1 DEF IInv, PageInv
  <2>4. \A q \in Pages : Seen(q) => Seen(q)'
    BY <1>1, <1>5, <2>1 DEF Seen
  <2>5. SeenInv'
    BY <1>1, <1>2, <2>4, SeenKept
  <2> QED
    BY <1>3, <2>2, <2>3, <2>5 DEF IInv
<1>6. CASE Refetch(p)
  BY <1>2, <1>5, <1>6 DEF Refetch, TypeOK
<1>7. CASE ReadChain(p)
  <2> DEFINE read == <<"read", Chain(table)>>
  <2>1. /\ fetch[p] = <<"sent">> /\ shown' = shown /\ fetch' = [fetch EXCEPT ![p] = read]
        /\ doubt' = doubt \ {p}
        /\ \A q \in Pages : fetch'[q] = IF q = p THEN read ELSE fetch[q]
    BY <1>2, <1>7 DEF ReadChain, TypeOK
  <2>2. TypeOK'
    <3>1. read \in {<<"none">>, <<"sent">>} \cup ({"read"} \X Seq(Rows))
      BY <1>4, FetchTyped
    <3>2. fetch' \in [Pages -> {<<"none">>, <<"sent">>} \cup ({"read"} \X Seq(Rows))]
      BY <1>2, <2>1, <3>1 DEF TypeOK
    <3> QED
      BY <1>1, <1>2, <2>1, <3>2 DEF TypeOK
  <2>3. PageInv'
    <3>1. read[2] = Chain(table)
      OBVIOUS
    <3> HIDE DEF read
    <3> QED
      BY <1>1, <1>4, <2>1, <3>1 DEF IInv, PageInv
  <2>4. \A q \in Pages : Seen(q) => Seen(q)'
    BY <1>1, <2>1 DEF Seen
  <2>5. SeenInv'
    BY <1>1, <1>2, <2>4, SeenKept
  <2> QED
    BY <1>3, <2>2, <2>3, <2>5 DEF IInv
<1>8. CASE FetchFails(p)
  <2>1. CASE fetch' = [fetch EXCEPT ![p] = <<"sent">>] /\ doubt' = doubt
    BY <1>2, <1>5, <1>8, <2>1 DEF FetchFails, TypeOK
  <2>2. CASE fetch' = [fetch EXCEPT ![p] = <<"none">>] /\ doubt' = doubt \cup {p}
    <3>1. shown' = shown /\ \A q \in Pages : fetch'[q] = IF q = p THEN <<"none">> ELSE fetch[q]
      BY <1>2, <1>8, <2>2 DEF FetchFails, TypeOK
    <3>2. TypeOK'
      <4>1. fetch' \in [Pages -> {<<"none">>, <<"sent">>} \cup ({"read"} \X Seq(Rows))]
        BY <1>2, <2>2 DEF TypeOK
      <4> QED
        BY <1>1, <1>2, <2>2, <3>1, <4>1 DEF TypeOK
    <3>3. PageInv'
      <4>1. \A q \in Pages : fetch'[q][1] = "read" => fetch'[q] = fetch[q]
        BY <3>1
      <4> QED
        BY <1>1, <3>1, <4>1 DEF IInv, PageInv
    <3>4. \A q \in Pages : Seen(q) => Seen(q)'
      BY <1>1, <2>2, <3>1 DEF Seen
    <3>5. SeenInv'
      BY <1>1, <1>2, <3>4, SeenKept
    <3> QED
      BY <1>3, <3>2, <3>3, <3>5 DEF IInv
  <2> QED
    BY <1>8, <2>1, <2>2 DEF FetchFails
<1>9. CASE Deliver(p)
  <2>1. PICK c \in Seq(Rows) : fetch[p] = <<"read", c>>
    <3>1. fetch[p][1] = "read"
      BY <1>9 DEF Deliver
    <3>2. fetch[p] # <<"none">> /\ fetch[p] # <<"sent">>
      BY <3>1
    <3> QED
      BY <1>2, <3>2, FetchCases
  <2>2. Whole(c) /\ Switched(c)
    BY <2>1 DEF IInv, PageInv
  <2>3. /\ shown' = [shown EXCEPT ![p] = c] /\ fetch' = [fetch EXCEPT ![p] = <<"none">>]
        /\ doubt' = doubt
        /\ \A q \in Pages : /\ fetch'[q] = IF q = p THEN <<"none">> ELSE fetch[q]
                            /\ shown'[q] = IF q = p THEN c ELSE shown[q]
    BY <1>2, <1>9, <2>1 DEF Deliver, TypeOK
  <2>4. TypeOK'
    <3>1. /\ fetch' \in [Pages -> {<<"none">>, <<"sent">>} \cup ({"read"} \X Seq(Rows))]
          /\ shown' \in [Pages -> Seq(Rows)]
      BY <1>2, <2>3 DEF TypeOK
    <3> QED
      BY <1>1, <1>2, <2>3, <3>1 DEF TypeOK
  <2>5. PageInv'
    <3>1. \A q \in Pages : fetch'[q][1] = "read" => fetch'[q] = fetch[q]
      BY <2>3
    <3> QED
      BY <1>1, <2>2, <2>3, <3>1 DEF IInv, PageInv
  <2>6. SeenInv'
    <3>1. fetch[p] # <<"none">> /\ fetch[p] # <<"sent">>
      BY <2>1
    <3>2. fetch[p] = <<"read", Chain(table)>> => c = Chain(table)
      BY <2>1
    <3>3. \A q \in Pages : Seen(q) => Seen(q)'
      BY <1>1, <2>3, <3>1, <3>2 DEF Seen
    <3> QED
      BY <1>1, <1>2, <3>3, SeenKept
  <2> QED
    BY <1>3, <2>4, <2>5, <2>6 DEF IInv
<1> QED
  BY <1>6, <1>7, <1>8, <1>9

\* A tab goes to another page, or comes back.
LEMMA VisitStep ==
    ASSUME IInv, NEW p \in Pages, Leave(p) \/ Return(p)
    PROVE  IInv'
<1>1. /\ table' = table /\ last' = last /\ edits' = edits
      /\ st' = st /\ from' = from /\ list' = list /\ next' = next /\ restarts' = restarts
  BY DEF Leave, Return, tableVars, writeVars
<1>2. TypeOK /\ SeenInv
  BY DEF IInv
<1>3. TableInv' /\ WriteInv'
  BY <1>1, TableKept DEF IInv, Committed, WriteInv
<1>4. CASE Leave(p)
  <2>1. /\ visits < MaxVisits /\ visits' = visits + 1 /\ away' = away \cup {p}
        /\ local' = [local EXCEPT ![p] = NoEdits] /\ freed' \subseteq Writes
        /\ shown' = shown /\ fetch' = fetch /\ doubt' = doubt
    BY <1>2, <1>4 DEF Leave, TypeOK
  <2>2. \A q \in Pages : local'[q] = IF q = p THEN NoEdits ELSE local[q]
    BY <1>2, <2>1 DEF TypeOK
  <2>3. TypeOK'
    <3>1. NoEdits \in Seq(Rows)
      BY DEF NoEdits
    <3>2. local' \in [Pages -> Seq(Rows)]
      BY <1>2, <2>1, <3>1 DEF TypeOK
    <3>3. visits' \in 0..MaxVisits
      BY <1>2, <2>1, NumberAssumption DEF TypeOK
    <3> QED
      BY <1>1, <1>2, <2>1, <3>2, <3>3 DEF TypeOK
  <2>4. PageInv'
    BY <1>1, <2>1, <2>2 DEF IInv, PageInv
  <2>5. \A q \in Pages : Seen(q) => Seen(q)'
    BY <1>1, <2>1 DEF Seen
  <2> QED
    BY <1>1, <1>2, <1>3, <2>3, <2>4, <2>5, SeenKept DEF IInv
<1>5. CASE Return(p)
  <2>1. /\ p \in away /\ away' = away \ {p} /\ local' = local /\ freed' = freed
        /\ visits' = visits /\ doubt' = doubt
    BY <1>5 DEF Return
  <2>2. CASE fetch[p] # <<"none">> /\ shown' = shown /\ fetch' = fetch
    <3>1. TypeOK' /\ PageInv'
      BY <1>1, <1>2, <2>1, <2>2 DEF IInv, TypeOK, PageInv
    <3>2. \A q \in Pages : Seen(q) => Seen(q)'
      BY <1>1, <2>1, <2>2 DEF Seen
    <3> QED
      BY <1>1, <1>2, <1>3, <3>1, <3>2, SeenKept DEF IInv
  <2>3. CASE /\ fetch' = [fetch EXCEPT ![p] = <<"sent">>]
             /\ shown' \in {shown, [shown EXCEPT ![p] = NoData]}
    <3>1. \A q \in Pages :
            /\ fetch'[q] = IF q = p THEN <<"sent">> ELSE fetch[q]
            /\ shown'[q] = shown[q] \/ (q = p /\ shown'[q] = NoData)
      BY <1>2, <2>3 DEF TypeOK
    <3>2. TypeOK'
      <4>1. NoData \in Seq(Rows)
        BY DEF NoData
      <4>2. shown' \in [Pages -> Seq(Rows)]
        BY <1>2, <2>3, <4>1 DEF TypeOK
      <4>3. fetch' \in [Pages -> {<<"none">>, <<"sent">>} \cup ({"read"} \X Seq(Rows))]
        BY <1>2, <2>3 DEF TypeOK
      <4> QED
        BY <1>1, <1>2, <2>1, <2>3, <4>2, <4>3 DEF TypeOK
    <3>3. PageInv'
      <4>1. \A q \in Pages : fetch'[q][1] = "read" => fetch'[q] = fetch[q]
        BY <3>1
      <4>2. \A q \in Pages : shown'[q] # NoData => shown'[q] = shown[q]
        BY <3>1
      <4> QED
        BY <1>1, <2>1, <4>1, <4>2 DEF IInv, PageInv
    <3>4. \A q \in Pages : Seen(q) => Seen(q)'
      BY <1>1, <2>1, <2>3, <3>1 DEF Seen
    <3> QED
      BY <1>1, <1>2, <1>3, <3>2, <3>3, <3>4, SeenKept DEF IInv
  <2> QED
    BY <1>5, <2>2, <2>3 DEF Return
<1> QED
  BY <1>4, <1>5

-----------------------------------------------------------------------------
(* The steps of the server.                                                 *)

LEMMA UpdateStep ==
    ASSUME IInv, NEW w \in Writes, Update(w)
    PROVE  IInv'
<1>1. /\ st[w] = "open" /\ next[w] <= Len(list[w])
      /\ next' = [next EXCEPT ![w] = next[w] + 1]
      /\ table' = table /\ last' = last /\ shown' = shown /\ fetch' = fetch
      /\ local' = local /\ edits' = edits
      /\ st' = st /\ from' = from /\ list' = list /\ restarts' = restarts
      /\ away' = away /\ doubt' = doubt /\ freed' = freed /\ visits' = visits
  BY DEF Update, tableVars, pageVars, visitVars
<1>2. \A v \in Writes : next'[v] = IF v = w THEN next[w] + 1 ELSE next[v]
  BY <1>1 DEF IInv, TypeOK
<1>3. TypeOK'
  <2>1. next[w] \in Nat /\ Len(list[w]) \in Nat
    BY DEF IInv, TypeOK
  <2>2. next[w] + 1 \in 1..(Len(list[w]) + 1) /\ next[w] + 1 \in Nat
    BY <1>1, <2>1
  <2>3. next' \in [Writes -> Nat]
    BY <1>1, <2>2 DEF IInv, TypeOK
  <2>4. \A v \in Writes : next'[v] \in 1..(Len(list'[v]) + 1)
    BY <1>1, <1>2, <2>2 DEF IInv, TypeOK
  <2> QED
    BY <1>1, <2>3, <2>4 DEF IInv, TypeOK
<1>4. TableInv'
  BY <1>1, TableKept DEF IInv, Committed
<1>5. PageInv'
  BY <1>1 DEF IInv, PageInv
<1>6. WriteInv'
  BY <1>1, <1>2 DEF IInv, WriteInv
<1>7. SeenInv'
  BY <1>1 DEF IInv, SeenInv, Seen, Committed
<1> QED
  BY <1>3, <1>4, <1>5, <1>6, <1>7 DEF IInv

\* A commit puts one whole chain over the table.
LEMMA CommitStep ==
    ASSUME IInv, NEW w \in Writes, Commit(w)
    PROVE  IInv'
<1> DEFINE rows == list[w]
           written == AllWritten(table, rows)
<1>0. PICK s \in {"committed", "lost"} : st' = [st EXCEPT ![w] = s]
  BY DEF Commit
<1>1. /\ st[w] = "open" /\ table' = written /\ last' = w
      /\ st' = [st EXCEPT ![w] = s]
      /\ shown' = shown /\ fetch' = fetch /\ local' = local /\ edits' = edits
      /\ from' = from /\ list' = list /\ next' = next /\ restarts' = restarts
      /\ away' = away /\ doubt' = doubt /\ freed' = freed /\ visits' = visits
  BY <1>0 DEF Commit, pageVars, visitVars
<1>2. \A v \in Writes : st'[v] = IF v = w THEN s ELSE st[v]
  BY <1>1 DEF IInv, TypeOK
<1>3. Whole(rows) /\ (Switched(rows) \/ Unswitched(rows))
  BY <1>1 DEF IInv, WriteInv
<1>4. table \in Tables /\ SeededTable \in Tables
  BY TableTyped, SeedsDiffer DEF IInv
<1>5. /\ written \in Tables /\ Distinct(written)
      /\ \A m \in Models : written[m].prio = AllWritten(SeededTable, rows)[m].prio
      /\ Switched(rows) => \A m \in Models :
           written[m].on = AllWritten(SeededTable, rows)[m].on
      /\ Unswitched(rows) => \A m \in Models : written[m].on = table[m].on
  <2> HIDE DEF rows
  <2> QED
    BY <1>3, <1>4, WrittenTable
<1>6. TypeOK'
  <2>1. table' \in [Models -> [prio : 1..Len(SeedChain), on : Switch]]
    BY <1>1, <1>5 DEF Tables, N
  <2>2. st' \in [Writes -> Ended \cup {"open", "committed", "failed", "lost"}]
    BY <1>1 DEF IInv, TypeOK
  <2> QED
    BY <1>1, <2>1, <2>2 DEF IInv, TypeOK
<1>7. TableInv'
  <2>1. Committed(w)' /\ list'[w] = rows
    BY <1>1, <1>2 DEF Committed
  <2>2. \A v \in Writes : Committed(v) => Committed(v)' /\ list'[v] = list[v]
    BY <1>1, <1>2 DEF Committed
  <2>3. \A m \in Models : table'[m].prio = AllWritten(SeededTable, list'[w])[m].prio
    BY <1>1, <1>5
  <2>4. \/ \A m \in Models : table'[m].on = SeededTable[m].on
        \/ \E v \in Writes :
            /\ Committed(v)' /\ list'[v][1].on # Keep
            /\ \A m \in Models : table'[m].on = AllWritten(SeededTable, list'[v])[m].on
    <3>1. CASE N = 0
      <4>1. Models = {}
        BY <3>1, ModelsCount
      <4> QED
        BY <4>1
    <3>2. CASE N # 0 /\ Switched(rows)
      <4>1. 1 \in DOMAIN rows
        BY <1>3, <3>2, ModelsCount, LenProperties DEF Whole
      <4>2. rows[1].on # Keep
        BY <3>2, <4>1 DEF Switched, Switch, Keep
      <4>3. \A m \in Models : table'[m].on = AllWritten(SeededTable, list'[w])[m].on
        BY <1>1, <1>5, <3>2
      <4> QED
        BY <2>1, <4>2, <4>3
    <3>3. CASE Unswitched(rows)
      <4>1. \A m \in Models : table'[m].on = table[m].on
        BY <1>1, <1>5, <3>3
      <4>2. CASE \A m \in Models : table[m].on = SeededTable[m].on
        BY <4>1, <4>2
      <4>3. CASE \E v \in Writes :
                   /\ Committed(v) /\ list[v][1].on # Keep
                   /\ \A m \in Models : table[m].on = AllWritten(SeededTable, list[v])[m].on
        BY <2>2, <4>1, <4>3
      <4> QED
        BY <4>2, <4>3 DEF IInv, TableInv
    <3> QED
      BY <1>3, <3>1, <3>2, <3>3
  <2> HIDE DEF written
  <2>5. Distinct(table')
    BY <1>1, <1>5
  <2> QED
    BY <2>1, <2>3, <2>4, <2>5 DEF TableInv
<1>8. PageInv'
  BY <1>1 DEF IInv, PageInv
<1>9. WriteInv'
  BY <1>1, <1>2 DEF IInv, WriteInv
<1>10. SeenInv'
  BY <1>1, <1>2 DEF SeenInv, Committed
<1> QED
  BY <1>6, <1>7, <1>8, <1>9, <1>10 DEF IInv

LEMMA DeadlockedStep ==
    ASSUME IInv, NEW w \in Writes, Deadlocked(w)
    PROVE  IInv'
<1>1. /\ st' = [st EXCEPT ![w] = "failed"]
      /\ table' = table /\ last' = last /\ shown' = shown /\ fetch' = fetch
      /\ local' = local /\ edits' = edits
      /\ from' = from /\ list' = list /\ next' = next /\ restarts' = restarts
      /\ away' = away /\ doubt' = doubt /\ freed' = freed /\ visits' = visits
  BY DEF Deadlocked, tableVars, pageVars, visitVars
<1>2. st[w] = "open"
  BY DEF Deadlocked, Waits
<1>3. \A v \in Writes : st'[v] = IF v = w THEN "failed" ELSE st[v]
  BY <1>1 DEF IInv, TypeOK
<1>4. TypeOK'
  <2>1. st' \in [Writes -> Ended \cup {"open", "committed", "failed", "lost"}]
    BY <1>1 DEF IInv, TypeOK
  <2> QED
    BY <1>1, <2>1 DEF IInv, TypeOK
<1>5. TableInv'
  <2>1. \A v \in Writes : Committed(v) => Committed(v)' /\ list'[v] = list[v]
    BY <1>1, <1>2, <1>3 DEF Committed
  <2> QED
    BY <1>1, <2>1, TableKept DEF IInv
<1>6. PageInv'
  BY <1>1 DEF IInv, PageInv
<1>7. WriteInv'
  BY <1>1, <1>2, <1>3 DEF IInv, WriteInv
<1>8. SeenInv'
  <2>1. last # Seeding => last \in Writes /\ last # w
    BY <1>2 DEF IInv, TypeOK, SeenInv, Committed
  <2> QED
    BY <1>1, <1>3, <2>1 DEF IInv, SeenInv, Seen, Committed
<1> QED
  BY <1>4, <1>5, <1>6, <1>7, <1>8 DEF IInv

\* The answer makes its page ask for the chain again, or puts it in doubt.
LEMMA AnswerStep ==
    ASSUME IInv, NEW w \in Writes, Answer(w)
    PROVE  IInv'
<1>0. PICK p \in Pages : p = from[w]
  BY DEF IInv, TypeOK
<1>1. /\ st[w] = "committed" /\ st' = [st EXCEPT ![w] = "saved"]
      /\ local' \in {local, [local EXCEPT ![p] = NoEdits]}
      /\ next' = [next EXCEPT ![w] = 1]
      /\ table' = table /\ last' = last /\ shown' = shown /\ edits' = edits
      /\ from' = from /\ list' = list /\ restarts' = restarts
      /\ away' = away /\ freed' = freed /\ visits' = visits
      /\ \/ fetch' = [fetch EXCEPT ![p] = <<"sent">>] /\ doubt' = doubt
         \/ fetch' = fetch /\ fetch[p][1] = "read" /\ doubt' = doubt \cup {p}
         \/ /\ fetch' = fetch /\ fetch[p][1] # "read" /\ doubt' = doubt
            /\ p \in away \/ fetch[p] # <<"none">>
  BY <1>0 DEF Answer, Answered, tableVars, visitVars
<1>2. TypeOK
  BY DEF IInv
<1>3. /\ \A v \in Writes : /\ st'[v] = IF v = w THEN "saved" ELSE st[v]
                           /\ next'[v] = IF v = w THEN 1 ELSE next[v]
      /\ \A q \in Pages : /\ fetch'[q] = fetch[q] \/ (q = p /\ fetch'[q] = <<"sent">>)
                          /\ local'[q] = local[q] \/ local'[q] = NoEdits
  BY <1>1, <1>2 DEF TypeOK
<1>4. TypeOK'
  <2>1. st' \in [Writes -> Ended \cup {"open", "committed", "failed", "lost"}]
    BY <1>1, <1>2 DEF TypeOK, Ended
  <2>2. fetch' \in [Pages -> {<<"none">>, <<"sent">>} \cup ({"read"} \X Seq(Rows))]
    BY <1>1, <1>2 DEF TypeOK
  <2>3. local' \in [Pages -> Seq(Rows)]
    <3>1. NoEdits \in Seq(Rows)
      BY DEF NoEdits
    <3> QED
      BY <1>1, <1>2, <3>1 DEF TypeOK
  <2>4. next' \in [Writes -> Nat] /\ \A v \in Writes : next'[v] \in 1..(Len(list'[v]) + 1)
    <3>1. \A v \in Writes : Len(list[v]) \in Nat /\ next[v] \in 1..(Len(list[v]) + 1)
      BY <1>2 DEF TypeOK
    <3>2. \A v \in Writes : 1 \in 1..(Len(list[v]) + 1)
      BY <3>1
    <3>3. next' \in [Writes -> Nat]
      BY <1>1, <1>2 DEF TypeOK
    <3> QED
      BY <1>1, <1>3, <3>1, <3>2, <3>3
  <2> QED
    BY <1>1, <1>2, <2>1, <2>2, <2>3, <2>4 DEF TypeOK
<1>5. TableInv'
  <2>1. \A v \in Writes : Committed(v) => Committed(v)' /\ list'[v] = list[v]
    BY <1>1, <1>3 DEF Committed
  <2> QED
    BY <1>1, <2>1, TableKept DEF IInv
<1>6. PageInv'
  <2>1. \A q \in Pages : /\ fetch'[q][1] = "read" => fetch'[q] = fetch[q]
                         /\ local'[q] # NoEdits => local'[q] = local[q]
    BY <1>3
  <2> QED
    BY <1>1, <2>1 DEF IInv, PageInv
<1>7. WriteInv'
  BY <1>1, <1>3 DEF IInv, WriteInv
<1>8. SeenInv'
  <2>1. last # Seeding => last \in Writes /\ from[last] \in Pages /\ Committed(last)
    BY <1>2 DEF TypeOK, IInv, SeenInv
  <2>2. Seen(p)'
    <3>1. CASE fetch' = [fetch EXCEPT ![p] = <<"sent">>]
      <4>1. fetch'[p] = <<"sent">>
        BY <1>2, <3>1 DEF TypeOK
      <4> QED
        BY <4>1 DEF Seen
    <3>2. CASE p \in doubt'
      BY <3>2 DEF Seen
    <3>3. CASE /\ fetch' = fetch /\ fetch[p][1] # "read" /\ doubt' = doubt
               /\ p \in away \/ fetch[p] # <<"none">>
      <4>1. fetch[p] = <<"none">> \/ fetch[p] = <<"sent">>
        BY <1>2, <3>3, FetchCases
      <4> QED
        BY <1>1, <3>3, <4>1 DEF Seen
    <3> QED
      BY <1>1, <3>1, <3>2, <3>3
  <2>3. \A q \in Pages : q # p /\ Seen(q) => Seen(q)'
    <3>1. \A q \in Pages : q # p => fetch'[q] = fetch[q] /\ (q \in doubt => q \in doubt')
      BY <1>1, <1>3
    <3> QED
      BY <1>1, <3>1 DEF Seen
  <2>4. last # Seeding => Committed(last)'
    BY <1>1, <1>3, <2>1 DEF Committed
  <2>5. ASSUME last # Seeding, st'[last] = "saved"
        PROVE  \E q \in Pages : q = from[last] /\ Seen(q)'
    <3>1. CASE from[last] = p
      BY <1>2, <2>2, <3>1
    <3>2. CASE from[last] # p
      <4>1. PICK q \in Pages : q = from[last]
        BY <2>1, <2>5
      <4>2. last # w
        BY <1>0, <3>2
      <4>3. Seen(q)
        BY <1>3, <2>1, <2>5, <4>1, <4>2 DEF IInv, SeenInv, Seen
      <4> QED
        BY <2>3, <3>2, <4>1, <4>3
    <3> QED
      BY <3>1, <3>2
  <2> QED
    BY <1>1, <2>4, <2>5 DEF SeenInv, Committed, Seen
<1> QED
  BY <1>4, <1>5, <1>6, <1>7, <1>8 DEF IInv

LEMMA RefuseStep ==
    ASSUME IInv, NEW w \in Writes, Refuse(w)
    PROVE  IInv'
<1>1. /\ \/ /\ st[w] = "failed" /\ st' = [st EXCEPT ![w] = "refused"]
            /\ list' = [list EXCEPT ![w] = <<>>]
         \/ st[w] = "lost" /\ st' = [st EXCEPT ![w] = "unsure"] /\ list' = list
      /\ next' = [next EXCEPT ![w] = 1]
      /\ table' = table /\ last' = last /\ shown' = shown /\ fetch' = fetch
      /\ local' = local /\ edits' = edits /\ from' = from /\ restarts' = restarts
      /\ away' = away /\ doubt' = doubt /\ freed' = freed /\ visits' = visits
  BY DEF Refuse, tableVars, pageVars, visitVars
<1>2. /\ \A v \in Writes : /\ v # w => st'[v] = st[v] /\ list'[v] = list[v]
                           /\ next'[v] = IF v = w THEN 1 ELSE next[v]
      /\ \/ st[w] = "failed" /\ st'[w] = "refused" /\ list'[w] = <<>>
         \/ st[w] = "lost" /\ st'[w] = "unsure" /\ list'[w] = list[w]
  BY <1>1 DEF IInv, TypeOK
<1>3. TypeOK'
  <2>1. st' \in [Writes -> Ended \cup {"open", "committed", "failed", "lost"}]
    BY <1>1 DEF IInv, TypeOK, Ended
  <2>2. list' \in [Writes -> Seq(Rows)] /\ next' \in [Writes -> Nat]
    <3>1. <<>> \in Seq(Rows)
      OBVIOUS
    <3>2. list' \in [Writes -> Seq(Rows)]
      BY <1>1, <3>1 DEF IInv, TypeOK
    <3>3. next' \in [Writes -> Nat]
      BY <1>1 DEF IInv, TypeOK
    <3> QED
      BY <3>2, <3>3
  <2>3. \A v \in Writes : next'[v] \in 1..(Len(list'[v]) + 1)
    <3>1. \A v \in Writes : next[v] \in 1..(Len(list[v]) + 1)
      BY DEF IInv, TypeOK
    <3>2. 1 \in 1..(Len(<<>>) + 1) /\ 1 \in 1..(Len(list[w]) + 1)
      <4>1. Len(list[w]) \in Nat
        BY DEF IInv, TypeOK
      <4> QED
        BY <4>1
    <3> QED
      BY <1>2, <3>1, <3>2
  <2> QED
    BY <1>1, <2>1, <2>2, <2>3 DEF IInv, TypeOK
<1>4. TableInv'
  <2>1. \A v \in Writes : Committed(v) => Committed(v)' /\ list'[v] = list[v]
    BY <1>1, <1>2 DEF Committed
  <2> QED
    BY <1>1, <2>1, TableKept DEF IInv
<1>5. PageInv'
  BY <1>1 DEF IInv, PageInv
<1>6. WriteInv'
  BY <1>1, <1>2 DEF IInv, WriteInv
<1>7. SeenInv'
  <2>1. last # Seeding => last \in Writes /\ from[last] \in Pages /\ Committed(last)
    BY DEF IInv, TypeOK, SeenInv
  <2>2. last # Seeding => Committed(last)'
    BY <1>1, <1>2, <2>1 DEF Committed
  <2>3. last # Seeding /\ st'[last] = "saved" => st[last] = "saved"
    BY <1>2, <2>1
  <2> QED
    BY <1>1, <2>2, <2>3 DEF IInv, SeenInv, Seen, Committed
<1> QED
  BY <1>3, <1>4, <1>5, <1>6, <1>7 DEF IInv

\* A restart puts the seeds over the table.
LEMMA RestartStep ==
    ASSUME IInv, Restart
    PROVE  IInv'
<1> DEFINE ends == {w \in Writes : st[w] \notin Ended}
<1>1. /\ restarts < MaxRestarts /\ restarts' = restarts + 1
      /\ table' = SeededTable /\ last' = Seeding
      /\ st' = [w \in Writes |-> IF w \in ends THEN "refused" ELSE st[w]]
      /\ list' = [w \in Writes |-> IF w \in ends THEN <<>> ELSE list[w]]
      /\ next' = [w \in Writes |-> 1]
      /\ fetch' = [p \in Pages |-> IF fetch[p] = <<"none">> THEN fetch[p] ELSE <<"sent">>]
      /\ shown' = shown /\ local' = local /\ edits' = edits /\ from' = from
      /\ away' = away /\ doubt' = doubt /\ freed' = freed /\ visits' = visits
  BY DEF Restart, visitVars
<1>2. TypeOK
  BY DEF IInv
<1>3. SeededTable \in Tables /\ Distinct(SeededTable)
  BY SeedsDiffer
<1>4. TypeOK'
  <2>1. table' \in [Models -> [prio : 1..Len(SeedChain), on : Switch]]
    BY <1>1, <1>3 DEF Tables, N
  <2>2. st' \in [Writes -> Ended \cup {"open", "committed", "failed", "lost"}]
    BY <1>1, <1>2 DEF TypeOK, Ended
  <2>3. fetch' \in [Pages -> {<<"none">>, <<"sent">>} \cup ({"read"} \X Seq(Rows))]
    BY <1>1 DEF TypeOK
  <2>4. list' \in [Writes -> Seq(Rows)]
    <3>1. <<>> \in Seq(Rows)
      OBVIOUS
    <3> QED
      BY <1>1, <1>2, <3>1 DEF TypeOK
  <2>5. next' \in [Writes -> Nat] /\ \A v \in Writes : next'[v] \in 1..(Len(list'[v]) + 1)
    <3>1. \A v \in Writes : Len(list'[v]) \in Nat
      BY <2>4
    <3> QED
      BY <1>1, <3>1
  <2>6. restarts' \in 0..MaxRestarts
    BY <1>1, <1>2, NumberAssumption DEF TypeOK
  <2>7. last' \in {Seeding} \cup Writes
    BY <1>1
  <2> HIDE DEF ends
  <2> QED
    BY <1>1, <1>2, <2>1, <2>2, <2>3, <2>4, <2>5, <2>6, <2>7 DEF TypeOK
<1>5. TableInv'
  BY <1>1, <1>3 DEF TableInv
<1>6. PageInv'
  <2>1. \A q \in Pages : fetch'[q][1] # "read"
    BY <1>1
  <2> QED
    BY <1>1, <2>1 DEF IInv, PageInv
<1>7. WriteInv'
  <2>1. \A w \in Writes : st'[w] \in Ended /\ (st'[w] # "refused" => st'[w] = st[w])
    BY <1>1 DEF Ended
  <2>2. \A w \in Writes : st'[w] = st[w] => st[w] \in Ended /\ list'[w] = list[w]
    BY <1>1, <2>1
  <2>3. \A w \in Writes : next'[w] = 1
    BY <1>1
  <2> HIDE DEF ends
  <2> QED
    BY <2>1, <2>2, <2>3 DEF IInv, WriteInv, Ended
<1>8. SeenInv'
  BY <1>1 DEF SeenInv, Seen, Committed
<1> QED
  BY <1>4, <1>5, <1>6, <1>7, <1>8 DEF IInv

LEMMA StutterStep ==
    ASSUME IInv, UNCHANGED vars
    PROVE  IInv'
  BY DEF IInv, TypeOK, TableInv, PageInv, WriteInv, SeenInv, Committed, Ended,
         Seen, vars, tableVars, pageVars, visitVars, writeVars

LEMMA IInvStep == IInv /\ [Next]_vars => IInv'
<1> SUFFICES ASSUME IInv, [Next]_vars PROVE IInv'
  OBVIOUS
<1>1. ASSUME NEW p \in Pages, Drag(p) \/ Toggle(p) \/ Discard(p) PROVE IInv'
  BY <1>1, DragStep, ToggleStep, DiscardStep
<1>2. ASSUME NEW p \in Pages, Refetch(p) \/ ReadChain(p) \/ FetchFails(p) \/ Deliver(p)
      PROVE  IInv'
  BY <1>2, FetchStep
<1>8. ASSUME NEW p \in Pages, Leave(p) \/ Return(p) PROVE IInv'
  BY <1>8, VisitStep
<1>3. ASSUME NEW p \in Pages, NEW w \in Writes, Save(p, w) \/ SortBy(p, w) PROVE IInv'
  BY <1>3, SaveStep, SortByStep
<1>4. ASSUME NEW w \in Writes, Update(w) \/ Commit(w) \/ Deadlocked(w) PROVE IInv'
  BY <1>4, UpdateStep, CommitStep, DeadlockedStep
<1>5. ASSUME NEW w \in Writes, Answer(w) \/ Refuse(w) PROVE IInv'
  BY <1>5, AnswerStep, RefuseStep
<1>6. CASE Restart
  BY <1>6, RestartStep
<1>7. CASE UNCHANGED vars
  BY <1>7, StutterStep
<1> QED
  BY <1>1, <1>2, <1>3, <1>4, <1>5, <1>6, <1>7, <1>8 DEF Next

LEMMA IInvHolds == Spec => []IInv
<1>1. Init => IInv
  BY InitIInv
<1>2. IInv /\ [Next]_vars => IInv'
  BY IInvStep
<1> QED
  BY <1>1, <1>2, PTL DEF Spec

-----------------------------------------------------------------------------
(* The theorems.                                                            *)

\* The table is never a mixture of requests, and no two models share a priority
\* (PUT / and POST /sort/:preset of routes/fallback.ts, handleDragEnd of
\* FallbackPage.tsx).
THEOREM ChainIsWhole == Spec => []WholeChain
<1>1. IInv => WholeChain
  <2> SUFFICES ASSUME IInv PROVE WholeChain
    OBVIOUS
  <2>1. \A m, n \in Models : m # n => table[m].prio # table[n].prio
    BY DEF IInv, TableInv, Distinct
  <2>2. \/ \A m \in Models : table[m].prio = SeededTable[m].prio
        \/ \E w \in {v \in Writes : Committed(v)} :
             \A m \in Models : table[m].prio = AllWritten(SeededTable, list[w])[m].prio
    BY DEF IInv, TableInv
  <2>3. \/ \A m \in Models : table[m].on = SeededTable[m].on
        \/ \E w \in {v \in Writes : Committed(v)} :
             /\ list[w][1].on # Keep
             /\ \A m \in Models : table[m].on = AllWritten(SeededTable, list[w])[m].on
    BY DEF IInv, TableInv
  <2> QED
    BY <2>1, <2>2, <2>3 DEF IInv, WholeChain
<1> QED
  BY <1>1, IInvHolds, PTL

\* A page whose write has committed last, and which knows it, shows the table, unless
\* the fetch since then goes on, has failed or had been under way: onSuccess of the
\* mutations in FallbackPage.tsx asks for the chain anew.
THEOREM WriterSees == Spec => []WriterSeesOwn
<1>1. IInv => WriterSeesOwn
  <2> SUFFICES ASSUME IInv, NEW p \in Pages \ (away \cup doubt), last # Seeding,
                      from[last] = p, st[last] = "saved", fetch[p] = <<"none">>
               PROVE  shown[p] = Chain(table)
    BY DEF WriterSeesOwn
  <2>1. Seen(p)
    BY DEF IInv, SeenInv
  <2>2. fetch[p] # <<"sent">> /\ fetch[p] # <<"read", Chain(table)>>
    OBVIOUS
  <2> QED
    BY <2>1, <2>2 DEF Seen
<1> QED
  BY <1>1, IInvHolds, PTL
=============================================================================
