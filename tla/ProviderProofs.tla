----------------------------- MODULE ProviderProofs -----------------------------
(***************************************************************************)
(* Proofs about what the adapters of the providers do: about ProviderStream, *)
(* for every set of lines and every length of an answer, and about ToolChat, *)
(* for all calls that models may make and any number of answers.             *)
(*                                                                          *)
(* Whatever a step of ProviderStream writes, it appends it to what has been  *)
(* written.  Said is what the three properties need to know of the frames    *)
(* appended: that each action writes such frames is proved once, and that    *)
(* such frames preserve the properties, one by one.                          *)
(*                                                                          *)
(* In ToolChat the history is related to what the models have said: the k-th *)
(* answer is at a place of its own, with its calls as they were made and     *)
(* with ids that no other call has.                                          *)
(***************************************************************************)
EXTENDS ProviderStream, ToolChat, FiniteSetTheorems, SequenceTheorems, TLAPS

-----------------------------------------------------------------------------
(* Ranks in finite sets of numbers.                                         *)

Rank(S, i) == Cardinality({j \in S : j <= i})

\* The rank of an element is one of 1..Cardinality(S).
LEMMA RankType ==
    ASSUME NEW S, IsFiniteSet(S), S \subseteq Int, NEW i \in S
    PROVE  Rank(S, i) \in 1..Cardinality(S)
<1> DEFINE upTo == {j \in S : j <= i}
<1>1. upTo \in SUBSET S /\ i \in upTo
  OBVIOUS
<1>2. IsFiniteSet(upTo) /\ Cardinality(upTo) <= Cardinality(S)
  BY <1>1, FS_Subset
<1>3. Cardinality(upTo) \in Nat /\ Cardinality(S) \in Nat
  BY <1>2, FS_CardinalityType
<1>4. Cardinality(upTo) # 0
  BY <1>1, <1>2, FS_EmptySet
<1> QED
  BY <1>2, <1>3, <1>4 DEF Rank

\* Of two elements the greater one has the greater rank.
LEMMA RankGrows ==
    ASSUME NEW S, IsFiniteSet(S), S \subseteq Int, NEW i \in S, NEW j \in S, i < j
    PROVE  Rank(S, i) < Rank(S, j)
<1> DEFINE lower == {k \in S : k <= i}
           higher == {k \in S : k <= j}
<1>1. higher \in SUBSET S /\ lower \in SUBSET higher
  <2>1. \A k \in S : k <= i => k <= j
    OBVIOUS
  <2> QED
    BY <2>1
<1>2. IsFiniteSet(higher)
  BY <1>1, FS_Subset
<1>3. IsFiniteSet(lower) /\ Cardinality(lower) <= Cardinality(higher)
  BY <1>1, <1>2, FS_Subset
<1>4. j \in higher /\ j \notin lower
  OBVIOUS
<1>5. Cardinality(lower) # Cardinality(higher)
  BY <1>1, <1>2, <1>4, FS_Subset
<1>6. Cardinality(lower) \in Nat /\ Cardinality(higher) \in Nat
  BY <1>2, <1>3, FS_CardinalityType
<1> QED
  BY <1>3, <1>5, <1>6 DEF Rank

\* Every number up to the size of the set is the rank of an element, which Nth finds.
LEMMA NthElement ==
    ASSUME NEW S, IsFiniteSet(S), S \subseteq Int, NEW n \in 1..Cardinality(S)
    PROVE  Nth(S, n) \in S /\ Rank(S, Nth(S, n)) = n
<1> DEFINE N == 1..Cardinality(S)
           rank == [i \in S |-> Rank(S, i)]
<1>1. Cardinality(S) \in Nat
  BY FS_CardinalityType
<1>2. rank \in [S -> N]
  BY RankType
<1>3. ASSUME NEW i \in S, NEW j \in S, rank[i] = rank[j]
      PROVE  i = j
  <2>1. Rank(S, i) \in Int /\ Rank(S, j) \in Int /\ Rank(S, i) = Rank(S, j)
    BY <1>2, <1>3
  <2>2. (i < j => Rank(S, i) < Rank(S, j)) /\ (j < i => Rank(S, j) < Rank(S, i))
    BY RankGrows
  <2>3. ~(i < j) /\ ~(j < i)
    BY <2>1, <2>2
  <2> QED
    BY <2>3
<1>4. rank \in Injection(S, N)
  BY <1>2, <1>3 DEF Injection, IsInjective
<1>5. IsFiniteSet(N) /\ Cardinality(N) = Cardinality(S)
  BY <1>1, FS_Interval
<1>6. rank \in Surjection(S, N)
  BY <1>4, <1>5, FS_Injection
<1>7. \E i \in S : rank[i] = n
  BY <1>6 DEF Surjection
<1>8. \E i \in S : Cardinality({j \in S : j <= i}) = n
  BY <1>7 DEF Rank
<1> QED
  BY <1>8 DEF Nth, Rank

\* A non-empty one has a least element.
LEMMA LeastElement ==
    ASSUME NEW S, IsFiniteSet(S), S \subseteq Int, S # {}
    PROVE  \E i \in S : \A j \in S : i <= j
<1>1. Cardinality(S) \in Nat /\ Cardinality(S) # 0
  BY FS_CardinalityType, FS_EmptySet
<1>2. 1 \in 1..Cardinality(S)
  BY <1>1
<1> DEFINE i == Nth(S, 1)
<1>3. i \in S /\ Rank(S, i) = 1
  BY <1>2, NthElement
<1>4. ASSUME NEW j \in S, j < i
      PROVE  FALSE
  <2>1. Rank(S, j) < 1 /\ Rank(S, j) \in 1..Cardinality(S)
    BY <1>3, <1>4, RankGrows, RankType
  <2> QED
    BY <2>1
<1>5. \A j \in S : ~(j < i)
  BY <1>4
<1>6. i \in Int /\ \A j \in S : j \in Int
  BY <1>3
<1>7. \A j \in S : i <= j
  BY <1>5, <1>6
<1> QED
  BY <1>3, <1>7

\* Nth finds an element by its rank.
LEMMA NthRank ==
    ASSUME NEW S, IsFiniteSet(S), S \subseteq Int, NEW i \in S
    PROVE  Nth(S, Rank(S, i)) = i
<1> DEFINE j == Nth(S, Rank(S, i))
<1>1. j \in S /\ Rank(S, j) = Rank(S, i)
  BY RankType, NthElement
<1>2. Rank(S, i) \in Int
  <2>1. Cardinality(S) \in Nat
    BY FS_CardinalityType
  <2>2. Rank(S, i) \in 1..Cardinality(S)
    BY RankType
  <2> QED
    BY <2>1, <2>2
<1>3. (i < j => Rank(S, i) < Rank(S, j)) /\ (j < i => Rank(S, j) < Rank(S, i))
  BY <1>1, RankGrows
<1>4. ~(i < j) /\ ~(j < i)
  BY <1>1, <1>2, <1>3
<1> HIDE DEF j
<1>5. i \in Int /\ j \in Int
  BY <1>1
<1> QED
  BY <1>4, <1>5 DEF j

\* A non-empty finite set of numbers has a greatest element.
LEMMA GreatestElement ==
    ASSUME NEW S, IsFiniteSet(S), S \subseteq Int, S # {}
    PROVE  \E i \in S : \A j \in S : j <= i
<1> DEFINE N == Cardinality(S)
           i == Nth(S, N)
<1>1. N \in Nat /\ N # 0
  BY FS_CardinalityType, FS_EmptySet
<1>2. N \in 1..Cardinality(S)
  BY <1>1
<1>3. i \in S /\ Rank(S, i) = N
  BY <1>2, NthElement
<1> HIDE DEF i
<1>4. ASSUME NEW j \in S, i < j
      PROVE  FALSE
  <2>1. Rank(S, i) < Rank(S, j) /\ Rank(S, j) \in 1..Cardinality(S)
    BY <1>3, <1>4, RankGrows, RankType
  <2> QED
    BY <1>1, <1>3, <2>1
<1>5. i \in Int /\ \A j \in S : j \in Int /\ ~(i < j)
  BY <1>3, <1>4
<1> QED
  BY <1>3, <1>5

\* What At takes from a sequence stands at the ranks of the positions.
LEMMA AtElement ==
    ASSUME NEW s, NEW S, IsFiniteSet(S), S \subseteq Int
    PROVE  /\ DOMAIN At(s, S) = 1..Cardinality(S)
           /\ \A i \in S : Rank(S, i) \in DOMAIN At(s, S) /\ At(s, S)[Rank(S, i)] = s[i]
           /\ \A n \in DOMAIN At(s, S) : \E i \in S : n = Rank(S, i)
<1>1. DOMAIN At(s, S) = 1..Cardinality(S)
  BY DEF At
<1>2. ASSUME NEW i \in S
      PROVE  Rank(S, i) \in DOMAIN At(s, S) /\ At(s, S)[Rank(S, i)] = s[i]
  <2>1. Rank(S, i) \in 1..Cardinality(S) /\ Nth(S, Rank(S, i)) = i
    BY RankType, NthRank
  <2> QED
    BY <2>1 DEF At
<1>3. ASSUME NEW n \in DOMAIN At(s, S)
      PROVE  \E i \in S : n = Rank(S, i)
  BY <1>1, NthElement
<1> QED
  BY <1>1, <1>2, <1>3

-----------------------------------------------------------------------------
(* ProviderStream: calls.                                                   *)

\* A call as Gemini gives it, and as the client gets it.
Given == [id : STRING, name : STRING]
Calls == Given \cup [name : STRING, id : STRING \X Nat \X Nat]

LEMMA IdentifiedType ==
    ASSUME NEW calls \in Seq(Given), NoId \in STRING, now \in Nat
    PROVE  /\ Identified(calls) \in Seq(Calls)
           /\ \A c \in Range(calls) : c.id # NoId =>
                [name |-> c.name, id |-> <<c.id, 0, 0>>] \in Range(Identified(calls))
<1> DEFINE made(i) == {j \in 1..(i - 1) : calls[j].id = NoId}
<1>1. ASSUME NEW i \in 1..Len(calls)
      PROVE  Identified(calls)[i] \in Calls
  <2>1. i \in Int /\ i - 1 \in Int /\ calls[i] \in Given /\ i \in DOMAIN calls
    OBVIOUS
  <2>2. made(i) \in SUBSET (1..(i - 1))
    OBVIOUS
  <2>7. IsFiniteSet(1..(i - 1))
    BY <2>1, FS_Interval
  <2>3. Cardinality(made(i)) \in Nat
    BY <2>2, <2>7, FS_Subset, FS_CardinalityType
  <2>4. Identified(calls)[i] =
          [name |-> calls[i].name,
           id |-> IF calls[i].id # NoId THEN <<calls[i].id, 0, 0>>
                  ELSE <<NoId, now, Cardinality(made(i))>>]
    BY <2>1 DEF Identified
  <2>5. calls[i].name \in STRING /\ calls[i].id \in STRING
    BY <2>1 DEF Given
  <2>6. (IF calls[i].id # NoId THEN <<calls[i].id, 0, 0>>
         ELSE <<NoId, now, Cardinality(made(i))>>) \in STRING \X Nat \X Nat
    BY <2>3, <2>5
  <2> QED
    BY <2>4, <2>5, <2>6 DEF Calls
<1>2. DOMAIN Identified(calls) = 1..Len(calls) /\ DOMAIN calls = 1..Len(calls)
  BY DEF Identified
<1>3. Identified(calls) = [i \in 1..Len(calls) |-> Identified(calls)[i]]
  BY DEF Identified
<1>4. Identified(calls) \in Seq(Calls)
  <2>1. Len(calls) \in Nat
    OBVIOUS
  <2>2. Identified(calls) \in [1..Len(calls) -> Calls]
    BY <1>1, <1>3
  <2> QED
    BY <2>1, <2>2
<1>5. ASSUME NEW i \in DOMAIN calls, calls[i].id # NoId
      PROVE  Identified(calls)[i] = [name |-> calls[i].name, id |-> <<calls[i].id, 0, 0>>]
  BY <1>5 DEF Identified
<1> QED
  BY <1>2, <1>4, <1>5 DEF Range

\* Unseen gives each call of the line that has not been passed on, once.
LEMMA UnseenCalls ==
    ASSUME NEW g, NEW calls \in Seq(Calls)
    PROVE  /\ Unseen(g, calls) \in Seq(Calls)
           /\ IsInjective(Unseen(g, calls))
           /\ Range(Unseen(g, calls)) = Range(calls) \ g.seen
<1> DEFINE first == {i \in DOMAIN calls :
                       calls[i] \notin g.seen /\ \A j \in 1..(i - 1) : calls[j] # calls[i]}
           u == Unseen(g, calls)
           N == 1..Cardinality(first)
<1>1. DOMAIN calls = 1..Len(calls) /\ Len(calls) \in Nat
  OBVIOUS
<1>2. IsFiniteSet(1..Len(calls)) /\ first \in SUBSET (1..Len(calls))
  BY <1>1, FS_Interval
<1>3. IsFiniteSet(first) /\ first \subseteq Int /\ Cardinality(first) \in Nat
  BY <1>2, FS_Subset, FS_CardinalityType
<1>4. u = [n \in N |-> calls[Nth(first, n)]]
  BY DEF Unseen, At
<1>5. \A n \in N : Nth(first, n) \in first /\ Rank(first, Nth(first, n)) = n
  BY <1>3, NthElement
<1>6. u \in Seq(Calls)
  <2>1. \A i \in first : calls[i] \in Calls
    BY <1>1, <1>2
  <2>2. \A n \in N : calls[Nth(first, n)] \in Calls
    BY <1>5, <2>1
  <2>3. u \in [1..Cardinality(first) -> Calls]
    BY <1>4, <2>2
  <2>4. \A k \in Nat : \A f \in [1..k -> Calls] : f \in Seq(Calls)
    OBVIOUS
  <2> QED
    BY <1>3, <2>3, <2>4
<1>7. IsInjective(u)
  <2>1. SUFFICES ASSUME NEW m \in N, NEW n \in N, u[m] = u[n]
                 PROVE  m = n
    BY <1>4 DEF IsInjective
  <2> DEFINE i == Nth(first, m)
             j == Nth(first, n)
  <2>2. i \in first /\ j \in first /\ calls[i] = calls[j]
    BY <1>4, <1>5, <2>1
  <2>3. i \in Int /\ j \in Int /\ ~(i < j) /\ ~(j < i)
    BY <1>1, <2>2
  <2>4. i = j
    BY <2>3
  <2> QED
    BY <1>5, <2>4
<1>8. Range(u) \subseteq Range(calls) \ g.seen
  BY <1>4, <1>5 DEF Range
<1>9. ASSUME NEW c \in Range(calls), c \notin g.seen
      PROVE  c \in Range(u)
  <2> DEFINE at == {i \in DOMAIN calls : calls[i] = c}
  <2>1. at \in SUBSET (1..Len(calls)) /\ at # {}
    BY <1>1 DEF Range
  <2>2. IsFiniteSet(at) /\ at \subseteq Int
    BY <1>2, <2>1, FS_Subset
  <2>3. PICK i \in at : \A j \in at : i <= j
    BY <2>1, <2>2, LeastElement
  <2>4. \A j \in 1..(i - 1) : calls[j] # calls[i]
    BY <1>1, <2>1, <2>3
  <2>5. i \in first
    BY <1>9, <2>3, <2>4
  <2> DEFINE n == Rank(first, i)
  <2>6. n \in N
    BY <1>3, <2>5, RankType
  <2> DEFINE k == Nth(first, n)
  <2>7. k \in first /\ Rank(first, k) = n
    BY <1>5, <2>6
  <2>8. k = i
    <3>1. Rank(first, i) \in Int /\ Rank(first, k) \in Int
      BY <2>6, <2>7
    <3>2. k \in Int /\ i \in Int
      BY <1>3, <2>5, <2>7
    <3>4. /\ k < i => Rank(first, k) < Rank(first, i)
          /\ i < k => Rank(first, i) < Rank(first, k)
      BY <1>3, <2>5, <2>7, RankGrows
    <3>3. ~(k < i) /\ ~(i < k)
      BY <2>7, <3>1, <3>4
    <3> QED
      BY <3>2, <3>3
  <2>9. u[n] = c
    BY <1>4, <2>3, <2>6, <2>8
  <2> QED
    BY <1>4, <2>6, <2>9 DEF Range
<1> QED
  BY <1>6, <1>7, <1>8, <1>9

-----------------------------------------------------------------------------
(* ProviderStream: the invariant.                                           *)

Texts == {None} \cup {l.text : l \in Lines}
Reasons == {"tool_calls", "length", "content_filter", "stop"}
Fins == {None} \cup Reasons \cup {l.fin : l \in Lines}
Frames == [tag : {"chunk", "error", "done"}, text : Texts, calls : Seq(Calls), fin : Fins]
FrameOK(o) == o.tag # "chunk" => o \in {ErrorFrame, DoneFrame}

States == [seen : SUBSET Calls, saw : BOOLEAN, returned : BOOLEAN, failed : BOOLEAN,
           yields : {<<>>}]

FrameInv == out \in Seq(Frames) /\ \A i \in DOMAIN out : FrameOK(out[i])

\* As long as the answer goes on, nothing has ended it.
OpenInv ==
    phase \in {"fetching", "reading"} =>
        /\ ~state.returned /\ ~state.failed
        /\ \A i \in DOMAIN out : out[i].tag = "chunk"
        /\ kind = "google" => \A i \in DOMAIN out : out[i].fin = None
        /\ \A j \in 1..parsed : ~Ends(lines[j])
        /\ phase = "fetching" => read = 0

\* What the generator for Gemini remembers is what it has yielded.
MemoryInv ==
    kind = "google" =>
        /\ state.saw <=> \E i \in DOMAIN out : out[i].calls # <<>>
        /\ state.seen = UNION {Range(out[i].calls) : i \in DOMAIN out}

IInv ==
    /\ state \in States /\ FrameInv /\ OpenInv /\ MemoryInv
    /\ FinishSaysCalls /\ CallsOnce /\ TextWhole

-----------------------------------------------------------------------------
(* What a step may append.                                                  *)

NewFrames(new, over) ==
    /\ new \in Seq(Frames) /\ \A k \in DOMAIN new : FrameOK(new[k])
    /\ over => new # <<>> /\ new[Len(new)] = DoneFrame
    /\ ~over => \A k \in DOMAIN new :
                  new[k].tag = "chunk" /\ (kind = "google" => new[k].fin = None)

NewFinish(new, over) ==
    kind = "google" =>
        /\ \A k, m \in DOMAIN new : k < m /\ new[k].fin # None => new[m].tag # "chunk"
        /\ (over /\ \A k \in DOMAIN new : new[k].tag # "error")
           => \E k \in DOMAIN new : new[k].fin # None
        /\ \A k \in DOMAIN new :
            new[k].fin # None =>
                (new[k].fin = "tool_calls"
                   <=> state.saw \/ \E m \in 1..k : new[m].calls # <<>>)
        /\ state'.saw <=> state.saw \/ \E k \in DOMAIN new : new[k].calls # <<>>

NewCalls(new) ==
    kind = "google" =>
        /\ \A k \in DOMAIN new :
            /\ IsInjective(new[k].calls)
            /\ Range(new[k].calls) \cap state.seen = {}
            /\ \A m \in 1..(k - 1) : Range(new[k].calls) \cap Range(new[m].calls) = {}
        /\ \A x : x \in state'.seen
                    <=> x \in state.seen \/ \E k \in DOMAIN new : x \in Range(new[k].calls)

\* The line that the step has handled, if any, and if it counts.
NewLine(new, added) ==
    /\ added \in SUBSET {parsed + 1}
    /\ \A i \in added : /\ \A j \in Counted : j < i
                        /\ kind = "google" =>
                             \A c \in Range(lines[i].calls) :
                               c.id # NoId => [name |-> c.name, id |-> <<c.id, 0, 0>>]
                                                \in state'.seen
    /\ \A k \in DOMAIN new : new[k].text # None => k = 1 /\ added # {}
    /\ \A i \in added :
        /\ lines[i].text # None => new # <<>>
        /\ new # <<>> => new[1].text = lines[i].text

Said(new, over, added) ==
    /\ phase = "reading" /\ phase' = (IF over THEN "ended" ELSE "reading")
    /\ out' = out \o new /\ UNCHANGED <<kind, lines>>
    /\ Counted' = Counted \cup added
    /\ NewFrames(new, over) /\ NewFinish(new, over) /\ NewCalls(new) /\ NewLine(new, added)

\* The frames there were, and after them the new ones.
LEMMA Appended ==
    ASSUME out \in Seq(Frames), NEW new \in Seq(Frames), out' = out \o new
    PROVE  /\ out' \in Seq(Frames)
           /\ Len(out') = Len(out) + Len(new) /\ Len(out) \in Nat /\ Len(new) \in Nat
           /\ DOMAIN out = 1..Len(out) /\ DOMAIN new = 1..Len(new)
           /\ DOMAIN out' = 1..(Len(out) + Len(new))
           /\ \A i \in DOMAIN out : i \in DOMAIN out' /\ out'[i] = out[i]
           /\ \A k \in DOMAIN new :
                Len(out) + k \in DOMAIN out' /\ out'[Len(out) + k] = new[k]
           /\ \A i \in DOMAIN out' :
                i \in DOMAIN out \/ \E k \in DOMAIN new : i = Len(out) + k
<1>1. out' \in Seq(Frames) /\ Len(out') = Len(out) + Len(new)
  OBVIOUS
<1>2. /\ Len(out) \in Nat /\ Len(new) \in Nat
      /\ DOMAIN out = 1..Len(out) /\ DOMAIN new = 1..Len(new)
      /\ DOMAIN out' = 1..(Len(out) + Len(new))
  BY <1>1
<1>3. \A i \in DOMAIN out : i \in DOMAIN out' /\ out'[i] = out[i]
  BY <1>2
<1>4. \A k \in DOMAIN new : Len(out) + k \in DOMAIN out' /\ out'[Len(out) + k] = new[k]
  BY <1>2
<1>5. ASSUME NEW i \in DOMAIN out', i \notin DOMAIN out
      PROVE  \E k \in DOMAIN new : i = Len(out) + k
  <2>1. i - Len(out) \in DOMAIN new /\ i = Len(out) + (i - Len(out))
    BY <1>2, <1>5
  <2> QED
    BY <2>1
<1> QED
  BY <1>1, <1>2, <1>3, <1>4, <1>5

LEMMA FramesStep ==
    ASSUME IInv, NEW new, NEW over \in BOOLEAN, NEW added, Said(new, over, added)
    PROVE  /\ FrameInv'
           /\ ~over => \A i \in DOMAIN out' : out'[i].tag = "chunk"
           /\ ~over /\ kind = "google" => \A i \in DOMAIN out' : out'[i].fin = None
           /\ phase' = "ended" <=> out' # <<>> /\ out'[Len(out')] = DoneFrame
<1>1. /\ out \in Seq(Frames) /\ new \in Seq(Frames) /\ out' = out \o new
      /\ phase = "reading" /\ phase' = (IF over THEN "ended" ELSE "reading")
  BY DEF IInv, FrameInv, Said, NewFrames
<1> USE Appended, <1>1
<1>2. FrameInv'
  <2>1. \A i \in DOMAIN out : FrameOK(out[i])
    BY DEF IInv, FrameInv
  <2>2. \A k \in DOMAIN new : FrameOK(new[k])
    BY DEF Said, NewFrames
  <2>3. ASSUME NEW i \in DOMAIN out'
        PROVE  FrameOK(out'[i])
    <3>1. CASE i \in DOMAIN out
      BY <2>1, <3>1
    <3>2. CASE \E k \in DOMAIN new : i = Len(out) + k
      BY <2>2, <3>2
    <3> QED
      BY <3>1, <3>2
  <2> QED
    BY <2>3 DEF FrameInv, FrameOK
<1>3. ASSUME ~over
      PROVE  /\ \A i \in DOMAIN out' : out'[i].tag = "chunk"
             /\ kind = "google" => \A i \in DOMAIN out' : out'[i].fin = None
  <2>1. \A i \in DOMAIN out : out[i].tag = "chunk" /\ (kind = "google" => out[i].fin = None)
    BY DEF IInv, OpenInv
  <2>2. \A k \in DOMAIN new : new[k].tag = "chunk" /\ (kind = "google" => new[k].fin = None)
    BY <1>3 DEF Said, NewFrames
  <2> QED
    BY <2>1, <2>2
<1>4. CASE over
  <2>1. new # <<>> /\ new[Len(new)] = DoneFrame
    BY <1>4 DEF Said, NewFrames
  <2>2. Len(new) \in DOMAIN new
    BY <2>1
  <2>3. out'[Len(out')] = DoneFrame /\ Len(out') # 0
    BY <2>1, <2>2
  <2> QED
    BY <1>2, <1>3, <1>4, <2>3
<1>5. CASE ~over
  <2>1. out' # <<>> => Len(out') \in DOMAIN out'
    BY <1>1
  <2>2. out' # <<>> => out'[Len(out')].tag = "chunk"
    BY <1>3, <1>5, <2>1
  <2>3. DoneFrame.tag = "done"
    BY DEF DoneFrame
  <2> QED
    BY <1>2, <1>3, <1>5, <2>2, <2>3
<1> QED
  BY <1>4, <1>5

-----------------------------------------------------------------------------
(* Each property is preserved by what Said describes.                       *)

FinishPart ==
    kind = "google" =>
        /\ \A i, j \in DOMAIN out : i < j /\ out[i].fin # None => out[j].tag # "chunk"
        /\ (phase = "ended" /\ \A i \in DOMAIN out : out[i].tag # "error")
           => \E i \in DOMAIN out : out[i].fin # None
        /\ \A i \in DOMAIN out :
            out[i].fin # None =>
                (out[i].fin = "tool_calls" <=> \E j \in 1..i : out[j].calls # <<>>)

LEMMA FinishStep ==
    ASSUME IInv, NEW new, NEW over \in BOOLEAN, NEW added, Said(new, over, added)
    PROVE  FinishPart'
<1>1. /\ out \in Seq(Frames) /\ new \in Seq(Frames) /\ out' = out \o new
      /\ phase = "reading" /\ phase' = (IF over THEN "ended" ELSE "reading") /\ kind' = kind
  BY DEF IInv, FrameInv, Said, NewFrames
<1> USE Appended, <1>1
<1> SUFFICES ASSUME kind = "google"
             PROVE  FinishPart'
  BY DEF FinishPart
<1>2. \A i \in DOMAIN out : out[i].fin = None
  BY DEF IInv, OpenInv
<1>3. /\ \A k, m \in DOMAIN new : k < m /\ new[k].fin # None => new[m].tag # "chunk"
      /\ (over /\ \A k \in DOMAIN new : new[k].tag # "error")
         => \E k \in DOMAIN new : new[k].fin # None
      /\ \A k \in DOMAIN new :
            new[k].fin # None =>
                (new[k].fin = "tool_calls"
                   <=> state.saw \/ \E m \in 1..k : new[m].calls # <<>>)
  BY DEF Said, NewFinish
<1>4. state.saw <=> \E i \in DOMAIN out : out[i].calls # <<>>
  BY DEF IInv, MemoryInv
<1>5. ASSUME NEW i \in DOMAIN out', out'[i].fin # None
      PROVE  \E k \in DOMAIN new : i = Len(out) + k /\ new[k].fin # None
  <2>1. CASE i \in DOMAIN out
    <3>1. out'[i] = out[i]
      BY <2>1
    <3> QED
      BY <1>2, <1>5, <2>1, <3>1
  <2>2. CASE i \notin DOMAIN out
    <3>1. PICK k \in DOMAIN new : i = Len(out) + k
      BY <2>2
    <3>2. out'[i] = new[k]
      BY <3>1
    <3> QED
      BY <1>5, <3>1, <3>2
  <2> QED
    BY <2>1, <2>2
<1>6. ASSUME NEW i \in DOMAIN out', NEW j \in DOMAIN out', i < j, out'[i].fin # None
      PROVE  out'[j].tag # "chunk"
  <2>1. PICK k \in DOMAIN new : i = Len(out) + k /\ new[k].fin # None
    BY <1>5, <1>6
  <2>2. j \notin DOMAIN out
    BY <1>6, <2>1
  <2>3. PICK m \in DOMAIN new : j = Len(out) + m
    BY <2>2
  <2>4. k < m
    BY <1>6, <2>1, <2>3
  <2> QED
    BY <1>3, <2>1, <2>3, <2>4
<1>7. ASSUME phase' = "ended", \A i \in DOMAIN out' : out'[i].tag # "error"
      PROVE  \E i \in DOMAIN out' : out'[i].fin # None
  <2>1. over
    <3>1. CASE over
      BY <3>1
    <3>2. CASE ~over
      BY <1>7, <3>2
    <3> QED
      BY <3>1, <3>2
  <2>3. ASSUME NEW k \in DOMAIN new
        PROVE  new[k].tag # "error"
    <3>1. Len(out) + k \in DOMAIN out' /\ out'[Len(out) + k] = new[k]
      OBVIOUS
    <3>2. \A i \in DOMAIN out' : out'[i].tag # "error"
      BY <1>7
    <3> QED
      BY <3>1, <3>2
  <2>2. PICK k \in DOMAIN new : new[k].fin # None
    BY <1>3, <2>1, <2>3
  <2> QED
    BY <2>2
<1>8. ASSUME NEW i \in DOMAIN out', out'[i].fin # None
      PROVE  out'[i].fin = "tool_calls" <=> \E j \in 1..i : out'[j].calls # <<>>
  <2>1. PICK k \in DOMAIN new : i = Len(out) + k /\ new[k].fin # None
    BY <1>5, <1>8
  <2>2. k \in 1..Len(new)
    OBVIOUS
  <2>3. ASSUME state.saw
        PROVE  \E j \in 1..i : out'[j].calls # <<>>
    <3>1. PICK j \in DOMAIN out : out[j].calls # <<>>
      BY <1>4, <2>3
    <3>2. j \in 1..i /\ out'[j] = out[j]
      BY <2>1, <2>2
    <3> QED
      BY <3>1, <3>2
  <2>4. ASSUME NEW m \in 1..k, new[m].calls # <<>>
        PROVE  \E j \in 1..i : out'[j].calls # <<>>
    <3>1. m \in DOMAIN new /\ Len(out) + m \in 1..i
      BY <2>1, <2>2
    <3>2. out'[Len(out) + m] = new[m]
      BY <3>1
    <3> QED
      BY <2>4, <3>1, <3>2
  <2>5. ASSUME NEW j \in 1..i, out'[j].calls # <<>>
        PROVE  state.saw \/ \E m \in 1..k : new[m].calls # <<>>
    <3>1. CASE j \in DOMAIN out
      BY <1>4, <2>5, <3>1
    <3>2. CASE j \notin DOMAIN out
      <4>1. j \in DOMAIN out'
        BY <2>1, <2>2
      <4>2. PICK m \in DOMAIN new : j = Len(out) + m
        BY <3>2, <4>1
      <4>3. m \in 1..k /\ out'[j] = new[m]
        BY <2>1, <4>2
      <4> QED
        BY <2>5, <4>3
    <3> QED
      BY <3>1, <3>2
  <2>6. out'[i].fin = new[k].fin
    BY <2>1
  <2>7. new[k].fin = "tool_calls" <=> state.saw \/ \E m \in 1..k : new[m].calls # <<>>
    BY <1>3, <2>1
  <2> QED
    BY <2>3, <2>4, <2>5, <2>6, <2>7
<1> QED
  BY <1>6, <1>7, <1>8 DEF FinishPart

LEMMA MemoryStep ==
    ASSUME IInv, NEW new, NEW over \in BOOLEAN, NEW added, Said(new, over, added)
    PROVE  MemoryInv'
<1>1. /\ out \in Seq(Frames) /\ new \in Seq(Frames) /\ out' = out \o new /\ kind' = kind
  BY DEF IInv, FrameInv, Said, NewFrames
<1> SUFFICES ASSUME kind = "google"
             PROVE  MemoryInv'
  BY <1>1 DEF MemoryInv
<1>2. /\ state.saw <=> \E i \in DOMAIN out : out[i].calls # <<>>
      /\ state.seen = UNION {Range(out[i].calls) : i \in DOMAIN out}
  BY DEF IInv, MemoryInv
<1>3. /\ state'.saw <=> state.saw \/ \E k \in DOMAIN new : new[k].calls # <<>>
      /\ \A x : x \in state'.seen
                  <=> x \in state.seen \/ \E k \in DOMAIN new : x \in Range(new[k].calls)
  BY DEF Said, NewFinish, NewCalls
<1>4. /\ \A i \in DOMAIN out : i \in DOMAIN out' /\ out'[i] = out[i]
      /\ \A k \in DOMAIN new :
            Len(out) + k \in DOMAIN out' /\ out'[Len(out) + k] = new[k]
      /\ \A i \in DOMAIN out' :
            i \in DOMAIN out \/ \E k \in DOMAIN new : i = Len(out) + k
  BY <1>1, Appended
<1>5. state'.saw <=> \E i \in DOMAIN out' : out'[i].calls # <<>>
  BY <1>2, <1>3, <1>4
<1>6. ASSUME NEW c
      PROVE  c \in state'.seen <=> \E i \in DOMAIN out' : c \in Range(out'[i].calls)
  <2>1. c \in state'.seen <=> \/ \E i \in DOMAIN out : c \in Range(out[i].calls)
                             \/ \E k \in DOMAIN new : c \in Range(new[k].calls)
    BY <1>2, <1>3
  <2> QED
    BY <1>4, <2>1
<1>7. state'.seen = UNION {Range(out'[i].calls) : i \in DOMAIN out'}
  BY <1>6
<1> QED
  BY <1>5, <1>7 DEF MemoryInv

LEMMA CallsStep ==
    ASSUME IInv, NEW new, NEW over \in BOOLEAN, NEW added, Said(new, over, added)
    PROVE  CallsOnce'
<1>1. /\ out \in Seq(Frames) /\ new \in Seq(Frames) /\ out' = out \o new
      /\ kind' = kind /\ lines' = lines /\ Counted' = Counted \cup added
  BY DEF IInv, FrameInv, Said, NewFrames
<1>2. ASSUME kind = "google", NEW x \in state'.seen
      PROVE  \E j \in DOMAIN out' : x \in Range(out'[j].calls)
  <2>1. MemoryInv' /\ kind' = "google"
    BY <1>1, <1>2, MemoryStep
  <2>2. state'.seen = UNION {Range(out'[j].calls) : j \in DOMAIN out'}
    BY <2>1 DEF MemoryInv
  <2> QED
    BY <1>2, <2>2
<1> USE Appended, <1>1
<1> SUFFICES ASSUME kind = "google"
             PROVE  CallsOnce'
  BY DEF CallsOnce
<1>3. /\ \A i \in DOMAIN out :
            /\ IsInjective(out[i].calls)
            /\ \A j \in 1..(i - 1) : Range(out[i].calls) \cap Range(out[j].calls) = {}
      /\ \A i \in Counted : \A c \in Range(lines[i].calls) :
            c.id # NoId =>
                \E j \in DOMAIN out :
                    [name |-> c.name, id |-> <<c.id, 0, 0>>] \in Range(out[j].calls)
  BY DEF IInv, CallsOnce
<1>4. \A k \in DOMAIN new :
        /\ IsInjective(new[k].calls)
        /\ Range(new[k].calls) \cap state.seen = {}
        /\ \A m \in 1..(k - 1) : Range(new[k].calls) \cap Range(new[m].calls) = {}
  BY DEF Said, NewCalls
<1>5. \A i \in DOMAIN out : Range(out[i].calls) \subseteq state.seen
  BY DEF IInv, MemoryInv
<1>6. ASSUME NEW i \in DOMAIN out'
      PROVE  /\ IsInjective(out'[i].calls)
             /\ \A j \in 1..(i - 1) : Range(out'[i].calls) \cap Range(out'[j].calls) = {}
  <2>1. CASE i \in DOMAIN out
    <3>1. \A j \in 1..(i - 1) : j \in DOMAIN out
      BY <2>1
    <3> QED
      BY <1>3, <2>1, <3>1
  <2>2. CASE i \notin DOMAIN out
    <3>1. PICK k \in DOMAIN new : i = Len(out) + k
      BY <2>2
    <3>2. out'[i] = new[k]
      BY <3>1
    <3>3. ASSUME NEW j \in 1..(i - 1)
          PROVE  Range(out'[i].calls) \cap Range(out'[j].calls) = {}
      <4>1. j \in DOMAIN out'
        BY <3>1
      <4>2. CASE j \in DOMAIN out
        <5>1. Range(out'[j].calls) \subseteq state.seen
          BY <1>5, <4>2
        <5>2. Range(out'[i].calls) \cap state.seen = {}
          BY <1>4, <3>2
        <5> QED
          BY <5>1, <5>2
      <4>3. CASE j \notin DOMAIN out
        <5>1. PICK m \in DOMAIN new : j = Len(out) + m
          BY <4>1, <4>3
        <5>2. m \in 1..(k - 1) /\ out'[j] = new[m]
          BY <3>1, <5>1
        <5> QED
          BY <1>4, <3>2, <5>2
      <4> QED
        BY <4>2, <4>3
    <3> QED
      BY <1>4, <3>2, <3>3
  <2> QED
    BY <2>1, <2>2
<1>7. ASSUME NEW i \in Counted', NEW c \in Range(lines[i].calls), c.id # NoId
      PROVE  \E j \in DOMAIN out' :
                [name |-> c.name, id |-> <<c.id, 0, 0>>] \in Range(out'[j].calls)
  <2>1. CASE i \in Counted
    <3>1. PICK j \in DOMAIN out :
            [name |-> c.name, id |-> <<c.id, 0, 0>>] \in Range(out[j].calls)
      BY <1>3, <1>7, <2>1
    <3>2. j \in DOMAIN out' /\ out'[j] = out[j]
      OBVIOUS
    <3> QED
      BY <3>1, <3>2
  <2>2. CASE i \in added
    <3>1. [name |-> c.name, id |-> <<c.id, 0, 0>>] \in state'.seen
      BY <1>7, <2>2 DEF Said, NewLine
    <3> QED
      BY <1>2, <3>1
  <2> QED
    BY <2>1, <2>2
<1> QED
  BY <1>6, <1>7 DEF CallsOnce

LEMMA TextStep ==
    ASSUME IInv, NEW new, NEW over \in BOOLEAN, NEW added, Said(new, over, added)
    PROVE  TextWhole'
<1>1. /\ out \in Seq(Frames) /\ new \in Seq(Frames) /\ out' = out \o new
      /\ kind' = kind /\ lines' = lines /\ Counted' = Counted \cup added
      /\ added \in SUBSET {parsed + 1}
  BY DEF IInv, FrameInv, Said, NewFrames, NewLine
<1>2. /\ Len(out) \in Nat /\ DOMAIN out = 1..Len(out)
      /\ \A i \in DOMAIN out : i \in DOMAIN out' /\ out'[i] = out[i]
      /\ \A k \in DOMAIN new :
            Len(out) + k \in DOMAIN out' /\ out'[Len(out) + k] = new[k]
      /\ \A i \in DOMAIN out' :
            i \in DOMAIN out \/ \E k \in DOMAIN new : i = Len(out) + k
  BY <1>1, Appended
<1>3. PICK place \in [Due -> Got] :
        /\ \A i, j \in Due : i < j => place[i] < place[j]
        /\ Range(place) = Got
        /\ \A i \in Due : out[place[i]].text = lines[i].text
  BY DEF IInv, TextWhole
<1>4. /\ \A i \in added : \A j \in Counted : j < i
      /\ \A k \in DOMAIN new : new[k].text # None => k = 1 /\ added # {}
      /\ \A i \in added : /\ lines[i].text # None => new # <<>>
                          /\ new # <<>> => new[1].text = lines[i].text
  BY DEF Said, NewLine
<1>5. CASE \E i \in added : lines[i].text # None
  <2> DEFINE p == parsed + 1
             q == Len(out) + 1
             moved == [i \in Due' |-> IF i = p THEN q ELSE place[i]]
  <2>1. added = {p} /\ lines[p].text # None /\ new # <<>> /\ new[1].text = lines[p].text
    BY <1>1, <1>4, <1>5
  <2>2. 1 \in DOMAIN new
    BY <1>1, <2>1
  <2>3. Due' = Due \cup {p}
    BY <1>1, <2>1 DEF Due
  <2>4. \A i \in Due : i < p
    BY <1>4, <2>1 DEF Due
  <2>5. Got' = Got \cup {q}
    <3>1. q \in Got'
      BY <1>2, <2>1, <2>2 DEF Got
    <3>2. Got \subseteq Got'
      BY <1>2 DEF Got
    <3>3. ASSUME NEW i \in Got', i \notin Got
          PROVE  i = q
      <4>1. i \in DOMAIN out' /\ out'[i].text # None
        BY DEF Got
      <4>2. i \notin DOMAIN out
        BY <1>2, <3>3, <4>1 DEF Got
      <4> QED
        BY <1>2, <1>4, <4>1, <4>2
    <3> QED
      BY <3>1, <3>2, <3>3
  <2>6. p \notin Due /\ \A i \in Due : place[i] \in Got /\ moved[i] = place[i]
    <3>1. p \notin Due
      BY <1>4, <2>1 DEF Due, Counted
    <3> QED
      BY <1>3, <2>3, <3>1
  <2>7. moved[p] = q /\ moved \in [Due' -> Got']
    BY <2>3, <2>5, <2>6
  <2>8. \A i \in Got : i < q /\ i \in DOMAIN out
    BY <1>2 DEF Got
  <2>9. ASSUME NEW i \in Due', NEW j \in Due', i < j
        PROVE  moved[i] < moved[j]
    <3>1. CASE j = p
      <4>1. i \in Due
        BY <2>3, <2>9, <3>1
      <4> QED
        BY <2>6, <2>7, <2>8, <3>1, <4>1
    <3>2. CASE j # p
      <4>1. j \in Due
        BY <2>3, <3>2
      <4>2. i \in Due
        <5>1. i # p
          BY <2>4, <2>9, <4>1 DEF Due, Counted
        <5> QED
          BY <2>3, <5>1
      <4> QED
        BY <1>3, <2>6, <2>9, <4>1, <4>2
    <3> QED
      BY <3>1, <3>2
  <2>10. Range(moved) = Got'
    <3>1. DOMAIN moved = Due' /\ DOMAIN place = Due
      BY <1>3
    <3>2. \A r \in Got : \E i \in Due : place[i] = r
      BY <1>3, <3>1 DEF Range
    <3>3. Got' \subseteq Range(moved)
      BY <2>3, <2>5, <2>6, <2>7, <3>1, <3>2 DEF Range
    <3>4. Range(moved) \subseteq Got'
      BY <2>7, <3>1 DEF Range
    <3> QED
      BY <3>3, <3>4
  <2>11. ASSUME NEW i \in Due'
         PROVE  out'[moved[i]].text = lines'[i].text
    <3>1. CASE i = p
      BY <1>1, <1>2, <2>1, <2>2, <2>7, <3>1
    <3>2. CASE i \in Due
      <4>1. moved[i] = place[i] /\ place[i] \in DOMAIN out
        BY <2>6, <2>8, <3>2
      <4> QED
        BY <1>1, <1>2, <1>3, <3>2, <4>1
    <3> QED
      BY <2>3, <3>1, <3>2
  <2> QED
    BY <2>7, <2>9, <2>10, <2>11 DEF TextWhole
<1>6. CASE ~\E i \in added : lines[i].text # None
  <2>1. Due' = Due
    BY <1>1, <1>6 DEF Due
  <2>2. \A k \in DOMAIN new : new[k].text = None
    <3>1. \A k \in DOMAIN new : new # <<>>
      BY <1>1
    <3> QED
      BY <1>4, <1>6, <3>1
  <2>3. Got' = Got
    BY <1>2, <2>2 DEF Got
  <2>4. \A i \in Due : place[i] \in DOMAIN out
    BY <1>3 DEF Got
  <2>5. \A i \in Due : out'[place[i]].text = lines'[i].text
    BY <1>1, <1>2, <1>3, <2>4
  <2> QED
    BY <1>3, <2>1, <2>3, <2>5 DEF TextWhole
<1> QED
  BY <1>5, <1>6

-----------------------------------------------------------------------------
(* What the adapters make of a line.                                        *)

Locals == [seen : SUBSET Calls, saw : BOOLEAN, returned : BOOLEAN, failed : BOOLEAN,
           yields : Seq(Frames)]

Made(g, seen, saw, returned, failed, yields) ==
    /\ g \in Locals
    /\ g.seen = seen /\ (g.saw <=> saw)
    /\ (g.returned <=> returned) /\ (g.failed <=> failed)
    /\ g.yields = yields

\* The calls of a line that the generator yields, and its two chunks.
CallsOf(l) == Unseen(state, Identified(l.calls))
ContentOf(l) == Chunk(l.text, CallsOf(l), None)
HasContent(l) == l.sort = "data" /\ ~(l.text = None /\ CallsOf(l) = <<>>)
Reason(saw, fin) == IF saw THEN "tool_calls" ELSE FinishReason(fin)
FinOf(l) == IF l.sort = "done" THEN None ELSE l.fin
Saw(l) == state.saw \/ (HasContent(l) /\ CallsOf(l) # <<>>)
Seen(l) == state.seen \cup (IF HasContent(l) THEN Range(CallsOf(l)) ELSE {})
FinishOf(l) == Chunk(None, <<>>, Reason(Saw(l), FinOf(l)))

\* The line that is due is one that the provider may send.
LEMMA LineOfType ==
    ASSUME LineAssumption, NEW l \in Lines
    PROVE  /\ l.sort \in Sorts /\ l.text \in Texts /\ l.fin \in Fins
           /\ l.calls \in Seq(Given) /\ l.calls \in Seq(Calls)
<1>1. l \in [sort : Sorts, text : STRING, calls : Seq([id : STRING, name : STRING]),
             fin : STRING]
  BY DEF LineAssumption
<1>2. l.calls \in Seq(Given)
  BY <1>1 DEF Given
<1>3. \A s \in Seq(Given) : s \in Seq(Calls)
  <2>1. Given \subseteq Calls
    BY DEF Calls
  <2> QED
    BY <2>1
<1> QED
  BY <1>1, <1>2, <1>3 DEF Texts, Fins

LEMMA ChunkOfType ==
    ASSUME NEW text \in Texts, NEW calls \in Seq(Calls), NEW fin \in Fins
    PROVE  /\ Chunk(text, calls, fin) \in Frames
           /\ Chunk(text, calls, fin).tag = "chunk" /\ Chunk(text, calls, fin).text = text
           /\ Chunk(text, calls, fin).calls = calls /\ Chunk(text, calls, fin).fin = fin
BY DEF Chunk, Frames

LEMMA MarkOfType ==
    /\ ErrorFrame \in Frames /\ DoneFrame \in Frames
    /\ ErrorFrame.tag = "error" /\ DoneFrame.tag = "done"
    /\ ErrorFrame.text = None /\ ErrorFrame.calls = <<>> /\ ErrorFrame.fin = None
    /\ DoneFrame.text = None /\ DoneFrame.calls = <<>> /\ DoneFrame.fin = None
<1>1. <<>> \in Seq(Calls) /\ None \in Texts /\ None \in Fins
  BY DEF Texts, Fins
<1> QED
  BY <1>1 DEF ErrorFrame, DoneFrame, Frames

LEMMA ReasonOfType ==
    ASSUME NEW saw \in BOOLEAN, NEW fin
    PROVE  /\ Reason(saw, fin) \in Fins /\ Reason(saw, fin) # None
           /\ Reason(saw, fin) = "tool_calls" <=> saw
<1>1. FinishReason(fin) \in {"length", "content_filter", "stop"}
  BY DEF FinishReason
<1>2. Reason(saw, fin) \in Reasons
  BY <1>1 DEF Reason, Reasons
<1>3. Reason(saw, fin) # None
  BY <1>2 DEF Reasons, None
<1>4. Reason(saw, fin) = "tool_calls" <=> saw
  BY <1>1 DEF Reason
<1> QED
  BY <1>2, <1>3, <1>4 DEF Fins

LEMMA LineCalls ==
    ASSUME LineAssumption, now \in Nat, NEW l \in Lines
    PROVE  /\ CallsOf(l) \in Seq(Calls) /\ IsInjective(CallsOf(l))
           /\ Range(CallsOf(l)) \cap state.seen = {}
           /\ \A c \in Range(l.calls) : c.id # NoId =>
                [name |-> c.name, id |-> <<c.id, 0, 0>>]
                   \in state.seen \cup Range(CallsOf(l))
<1>1. l.calls \in Seq(Given) /\ NoId \in STRING
  BY LineOfType DEF LineAssumption
<1>2. /\ Identified(l.calls) \in Seq(Calls)
      /\ \A c \in Range(l.calls) : c.id # NoId =>
            [name |-> c.name, id |-> <<c.id, 0, 0>>] \in Range(Identified(l.calls))
  BY <1>1, IdentifiedType
<1>3. /\ CallsOf(l) \in Seq(Calls) /\ IsInjective(CallsOf(l))
      /\ Range(CallsOf(l)) = Range(Identified(l.calls)) \ state.seen
  BY <1>2, UnseenCalls DEF CallsOf
<1> QED
  BY <1>2, <1>3

LEMMA ContentOfType ==
    ASSUME LineAssumption, now \in Nat, NEW l \in Lines
    PROVE  /\ ContentOf(l) \in Frames /\ ContentOf(l).tag = "chunk"
           /\ ContentOf(l).text = l.text /\ ContentOf(l).calls = CallsOf(l)
           /\ ContentOf(l).fin = None
<1>1. l.text \in Texts /\ CallsOf(l) \in Seq(Calls) /\ None \in Fins
  BY LineOfType, LineCalls DEF Fins
<1> QED
  BY <1>1, ChunkOfType DEF ContentOf

LEMMA FinishOfType ==
    ASSUME NEW l, state \in States
    PROVE  /\ FinishOf(l) \in Frames /\ FinishOf(l).tag = "chunk"
           /\ FinishOf(l).text = None /\ FinishOf(l).calls = <<>>
           /\ FinishOf(l).fin # None /\ (FinishOf(l).fin = "tool_calls" <=> Saw(l))
<1>1. <<>> \in Seq(Calls) /\ None \in Texts /\ None \in Fins
  BY DEF Texts, Fins
<1>2. Saw(l) \in BOOLEAN
  BY DEF Saw, States
<1>4. /\ Reason(Saw(l), FinOf(l)) \in Fins /\ Reason(Saw(l), FinOf(l)) # None
      /\ Reason(Saw(l), FinOf(l)) = "tool_calls" <=> Saw(l)
  BY <1>2, ReasonOfType
<1>3. /\ FinishOf(l) \in Frames /\ FinishOf(l).tag = "chunk"
      /\ FinishOf(l).text = None /\ FinishOf(l).calls = <<>>
      /\ FinishOf(l).fin = Reason(Saw(l), FinOf(l))
  <2> DEFINE r == Reason(Saw(l), FinOf(l))
  <2>1. r \in Fins /\ FinishOf(l) = Chunk(None, <<>>, r)
    BY <1>4 DEF FinishOf
  <2> HIDE DEF r
  <2>2. /\ FinishOf(l) \in Frames /\ FinishOf(l).tag = "chunk"
        /\ FinishOf(l).text = None /\ FinishOf(l).calls = <<>> /\ FinishOf(l).fin = r
    <3> DEFINE noCalls == <<>>
    <3>1. noCalls \in Seq(Calls)
      BY <1>1
    <3>2. FinishOf(l) = Chunk(None, noCalls, r)
      BY <2>1
    <3> HIDE DEF noCalls
    <3>3. /\ FinishOf(l) \in Frames /\ FinishOf(l).tag = "chunk"
          /\ FinishOf(l).text = None /\ FinishOf(l).calls = noCalls /\ FinishOf(l).fin = r
      BY <1>1, <2>1, <3>1, <3>2, ChunkOfType
    <3> QED
      BY <3>3 DEF noCalls
  <2> QED
    BY <2>2 DEF r
<1> QED
  BY <1>3, <1>4

\* Finish adds one chunk.
LEMMA FinishMade ==
    ASSUME NEW g \in Locals, NEW fin
    PROVE  Made(Finish(g, fin), g.seen, g.saw, TRUE, g.failed,
                Append(g.yields, Chunk(None, <<>>, Reason(g.saw, fin))))
<1> DEFINE c == Chunk(None, <<>>, Reason(g.saw, fin))
           h == [g EXCEPT !.returned = TRUE, !.yields = Append(@, c)]
<1>1. Finish(g, fin) = h
  BY DEF Finish, Reason
<1>2. c \in Frames
  <2>1. <<>> \in Seq(Calls) /\ None \in Texts /\ g.saw \in BOOLEAN
    BY DEF Texts, Locals
  <2>2. Reason(g.saw, fin) \in Fins
    BY <2>1, ReasonOfType
  <2> QED
    BY <2>1, <2>2, ChunkOfType
<1> HIDE DEF c
<1>3. Append(g.yields, c) \in Seq(Frames)
  BY <1>2 DEF Locals
<1>4. h \in Locals
  BY <1>3 DEF Locals
<1>5. h.seen = g.seen /\ h.saw = g.saw /\ h.failed = g.failed
  BY DEF Locals
<1>6. h.returned
  BY DEF Locals
<1>7. h.yields = Append(g.yields, c)
  BY DEF Locals
<1>8. Made(h, g.seen, g.saw, TRUE, g.failed, Append(g.yields, c))
  BY <1>4, <1>5, <1>6, <1>7 DEF Made
<1> QED
  BY <1>1, <1>8 DEF c

LEMMA ContentMade ==
    ASSUME LineAssumption, now \in Nat, state \in States, NEW l \in Lines, l.sort = "data"
    PROVE  Made(Content(state, l), Seen(l), Saw(l), state.returned, state.failed,
                IF HasContent(l) THEN <<ContentOf(l)>> ELSE <<>>)
<1>1. state \in Locals /\ state.yields = <<>> /\ state.saw \in BOOLEAN
  <2>1. <<>> \in Seq(Frames)
    OBVIOUS
  <2> QED
    BY <2>1 DEF States, Locals
<1>2. CASE HasContent(l)
  <2> DEFINE h == [state EXCEPT !.seen = @ \cup Range(CallsOf(l)),
                                !.saw = @ \/ CallsOf(l) # <<>>,
                                !.yields = Append(@, ContentOf(l))]
  <2>1. Content(state, l) = h
    BY <1>2 DEF Content, HasContent, CallsOf, ContentOf
  <2>2. ContentOf(l) \in Frames /\ CallsOf(l) \in Seq(Calls)
    BY ContentOfType, LineCalls
  <2>3. Range(CallsOf(l)) \subseteq Calls
    BY <2>2 DEF Range
  <2>4. Append(<<>>, ContentOf(l)) = <<ContentOf(l)>>
    OBVIOUS
  <2>5. <<ContentOf(l)>> \in Seq(Frames)
    BY <2>2
  <2>6. /\ h.seen = state.seen \cup Range(CallsOf(l))
        /\ h.returned = state.returned /\ h.failed = state.failed
    BY <1>1 DEF Locals
  <2>7. h.yields = <<ContentOf(l)>>
    BY <1>1, <2>4 DEF Locals
  <2>8. h.saw = (state.saw \/ CallsOf(l) # <<>>)
    BY <1>1 DEF Locals
  <2>9. h \in Locals
    <3>1. DOMAIN h = {"seen", "saw", "returned", "failed", "yields"}
      BY <1>1 DEF Locals
    <3>2. state.seen \cup Range(CallsOf(l)) \in SUBSET Calls
      BY <1>1, <2>3 DEF Locals
    <3>3. (state.saw \/ CallsOf(l) # <<>>) \in BOOLEAN
      OBVIOUS
    <3>4. Append(state.yields, ContentOf(l)) \in Seq(Frames)
      BY <1>1, <2>4, <2>5
    <3> QED
      BY <1>1, <3>2, <3>3, <3>4 DEF Locals
  <2>10. Seen(l) = state.seen \cup Range(CallsOf(l)) /\ (Saw(l) <=> state.saw \/ CallsOf(l) # <<>>)
    BY <1>2 DEF Seen, Saw
  <2> HIDE DEF h
  <2>11. Made(h, Seen(l), Saw(l), state.returned, state.failed, <<ContentOf(l)>>)
    BY <2>6, <2>7, <2>8, <2>9, <2>10 DEF Made
  <2> QED
    BY <1>2, <2>1, <2>11
<1>3. CASE ~HasContent(l)
  <2>1. Content(state, l) = state
    BY <1>3 DEF Content, HasContent, CallsOf
  <2>2. Seen(l) = state.seen /\ (Saw(l) <=> state.saw)
    BY <1>3 DEF Seen, Saw
  <2> QED
    BY <1>1, <1>3, <2>1, <2>2 DEF Made
<1> QED
  BY <1>2, <1>3

LEMMA ShortAppend ==
    ASSUME NEW a \in Frames, NEW b \in Frames
    PROVE  Append(<<>>, b) = <<b>> /\ Append(<<a>>, b) = <<a, b>>
<1> DEFINE s == Append(<<a>>, b)
           t == <<a, b>>
<1>1. <<a>> \in Seq(Frames) /\ Len(<<a>>) = 1 /\ <<a>>[1] = a
  OBVIOUS
<1>2. s \in Seq(Frames) /\ Len(s) = 2 /\ s[1] = a /\ s[2] = b
  BY <1>1
<1>3. t \in Seq(Frames) /\ Len(t) = 2 /\ t[1] = a /\ t[2] = b
  OBVIOUS
<1> HIDE DEF s, t
<1>4. \A i \in 1..Len(s) : i = 1 \/ i = 2
  BY <1>2
<1>5. \A i \in 1..Len(s) : s[i] = t[i]
  BY <1>2, <1>3, <1>4
<1>6. s = t
  BY <1>2, <1>3, <1>5, SeqEqual
<1> QED
  BY <1>6 DEF s, t

LEMMA GeminiMade ==
    ASSUME LineAssumption, now \in Nat, kind = "google",
           state \in States, ~state.returned, ~state.failed, NEW l \in Lines
    PROVE  Made(Parse(state, l), Seen(l), Saw(l), Ends(l), FALSE,
                IF HasContent(l)
                THEN IF Ends(l) THEN <<ContentOf(l), FinishOf(l)>> ELSE <<ContentOf(l)>>
                ELSE IF Ends(l) THEN <<FinishOf(l)>> ELSE <<>>)
<1>1. state \in Locals /\ state.yields = <<>> /\ state.saw \in BOOLEAN
  <2>1. <<>> \in Seq(Frames)
    OBVIOUS
  <2> QED
    BY <2>1 DEF States, Locals
<1>2. Parse(state, l) = Gemini(state, l) /\ l.sort \in Sorts
  BY LineOfType DEF Parse
<1>3. l.sort # "data" => Seen(l) = state.seen /\ (Saw(l) <=> state.saw) /\ ~HasContent(l)
  BY DEF Seen, Saw, HasContent
<1>4. Append(<<>>, FinishOf(l)) = <<FinishOf(l)>>
      /\ Append(<<ContentOf(l)>>, FinishOf(l)) = <<ContentOf(l), FinishOf(l)>>
  <2>1. ContentOf(l) \in Frames /\ FinishOf(l) \in Frames
    BY ContentOfType, FinishOfType
  <2>2. \A a, b \in Frames : Append(<<>>, b) = <<b>> /\ Append(<<a>>, b) = <<a, b>>
    BY ShortAppend
  <2> QED
    BY <2>1, <2>2
<1>5. CASE l.sort = "done"
  <2>1. Ends(l) /\ FinOf(l) = None
    BY <1>5 DEF Ends, FinOf
  <2>2. Gemini(state, l) = Finish(state, None)
    BY <1>5 DEF Gemini
  <2>3. Made(Finish(state, None), state.seen, state.saw, TRUE, state.failed,
             Append(<<>>, Chunk(None, <<>>, Reason(state.saw, None))))
    BY <1>1, FinishMade
  <2>4. Chunk(None, <<>>, Reason(state.saw, None)) = FinishOf(l)
    BY <1>3, <1>5, <2>1 DEF FinishOf, Reason
  <2> QED
    BY <1>2, <1>3, <1>4, <1>5, <2>1, <2>2, <2>3, <2>4 DEF Made
<1>6. CASE l.sort = "data" /\ l.fin = None
  <2>1. ~Ends(l)
    BY <1>6 DEF Ends
  <2>2. Gemini(state, l) = Content(state, l)
    BY <1>6 DEF Gemini
  <2>3. Made(Content(state, l), Seen(l), Saw(l), state.returned, state.failed,
             IF HasContent(l) THEN <<ContentOf(l)>> ELSE <<>>)
    BY <1>6, ContentMade
  <2> QED
    BY <1>2, <2>1, <2>2, <2>3 DEF Made
<1>7. CASE l.sort = "data" /\ l.fin # None
  <2> DEFINE g == Content(state, l)
             yields == IF HasContent(l) THEN <<ContentOf(l)>> ELSE <<>>
  <2>1. Ends(l) /\ FinOf(l) = l.fin
    BY <1>7 DEF Ends, FinOf
  <2>2. Gemini(state, l) = Finish(g, l.fin)
    BY <1>7 DEF Gemini
  <2>3. Made(g, Seen(l), Saw(l), state.returned, state.failed, yields)
    BY <1>7, ContentMade
  <2> HIDE DEF g, yields
  <2>4. g \in Locals /\ g.seen = Seen(l) /\ (g.saw <=> Saw(l)) /\ ~g.failed /\ g.yields = yields
    BY <2>3 DEF Made
  <2>5. Made(Finish(g, l.fin), g.seen, g.saw, TRUE, g.failed,
             Append(g.yields, Chunk(None, <<>>, Reason(g.saw, l.fin))))
    BY <2>4, FinishMade
  <2>6. Chunk(None, <<>>, Reason(g.saw, l.fin)) = FinishOf(l)
    BY <2>1, <2>4 DEF FinishOf, Reason
  <2>7. Append(yields, FinishOf(l))
          = (IF HasContent(l) THEN <<ContentOf(l), FinishOf(l)>> ELSE <<FinishOf(l)>>)
    BY <1>4 DEF yields
  <2> QED
    BY <1>2, <2>1, <2>2, <2>4, <2>5, <2>6, <2>7 DEF Made
<1>8. CASE l.sort \notin {"done", "data"}
  <2>1. ~Ends(l) /\ Gemini(state, l) = state
    BY <1>8 DEF Ends, Gemini
  <2> QED
    BY <1>1, <1>2, <1>3, <1>8, <2>1 DEF Made
<1> QED
  BY <1>5, <1>6, <1>7, <1>8

RawOf(l) == Chunk(l.text, l.calls, l.fin)

LEMMA PassedMade ==
    ASSUME LineAssumption, kind = "openai",
           state \in States, ~state.returned, ~state.failed, NEW l \in Lines
    PROVE  Made(Parse(state, l), state.seen, state.saw, Ends(l), l.sort = "bare",
                IF l.sort = "data" THEN <<RawOf(l)>> ELSE <<>>)
<1>1. state \in Locals /\ state.yields = <<>>
  <2>1. <<>> \in Seq(Frames)
    OBVIOUS
  <2> QED
    BY <2>1 DEF States, Locals
<1>2. Parse(state, l) = Passed(state, l) /\ l.sort \in Sorts
  BY LineOfType DEF Parse
<1>3. CASE l.sort = "done"
  <2> DEFINE h == [state EXCEPT !.returned = TRUE]
  <2>1. Passed(state, l) = h /\ Ends(l)
    BY <1>3 DEF Passed, Ends
  <2>2. h \in Locals
    BY <1>1 DEF Locals
  <2>3. h.seen = state.seen /\ h.saw = state.saw /\ h.failed = state.failed /\ h.yields = <<>>
    BY <1>1 DEF Locals
  <2>4. h.returned
    BY <1>1 DEF Locals
  <2> HIDE DEF h
  <2> QED
    BY <1>2, <1>3, <2>1, <2>2, <2>3, <2>4 DEF Made
<1>4. CASE l.sort = "bare"
  <2> DEFINE h == [state EXCEPT !.returned = TRUE, !.failed = TRUE]
  <2>1. Passed(state, l) = h /\ Ends(l)
    BY <1>4 DEF Passed, Ends
  <2>2. h \in Locals
    BY <1>1 DEF Locals
  <2>3. h.seen = state.seen /\ h.saw = state.saw /\ h.yields = <<>>
    BY <1>1 DEF Locals
  <2>4. h.returned /\ h.failed
    BY <1>1 DEF Locals
  <2> HIDE DEF h
  <2> QED
    BY <1>2, <1>4, <2>1, <2>2, <2>3, <2>4 DEF Made
<1>5. CASE l.sort = "data"
  <2> DEFINE h == [state EXCEPT !.yields = Append(@, RawOf(l))]
  <2>1. Passed(state, l) = h /\ ~Ends(l)
    BY <1>5 DEF Passed, Ends, RawOf
  <2>2. RawOf(l) \in Frames
    BY LineOfType, ChunkOfType DEF RawOf
  <2>3. Append(<<>>, RawOf(l)) = <<RawOf(l)>> /\ <<RawOf(l)>> \in Seq(Frames)
    BY <2>2
  <2>4. h \in Locals
    BY <1>1, <2>3 DEF Locals
  <2>5. /\ h.seen = state.seen /\ h.saw = state.saw
        /\ h.returned = state.returned /\ h.failed = state.failed
    BY <1>1 DEF Locals
  <2>6. h.yields = <<RawOf(l)>>
    BY <1>1, <2>3 DEF Locals
  <2> HIDE DEF h
  <2> QED
    BY <1>2, <1>5, <2>1, <2>4, <2>5, <2>6 DEF Made
<1>6. CASE l.sort = "junk"
  <2>1. Passed(state, l) = state /\ ~Ends(l)
    BY <1>6 DEF Passed, Ends
  <2> QED
    BY <1>1, <1>2, <1>6, <2>1 DEF Made
<1> QED
  BY <1>2, <1>3, <1>4, <1>5, <1>6 DEF Sorts

-----------------------------------------------------------------------------
(* What is written of it.                                                   *)

\* Sequences of up to three frames.
LEMMA One ==
    ASSUME NEW a \in Frames, NEW new, new = <<a>>
    PROVE  /\ new \in Seq(Frames) /\ DOMAIN new = {1} /\ Len(new) = 1 /\ new # <<>>
           /\ new[1] = a
OBVIOUS

LEMMA Joined ==
    ASSUME NEW a \in Frames, NEW b \in Frames, NEW c \in Frames
    PROVE  /\ <<>> \o <<>> \o <<>> = <<>>
           /\ <<a>> \o <<>> \o <<>> = <<a>>
           /\ <<>> \o <<>> \o <<c>> = <<c>>
           /\ <<>> \o <<b>> \o <<c>> = <<b, c>>
           /\ <<a>> \o <<>> \o <<c>> = <<a, c>>
           /\ <<a, b>> \o <<>> \o <<c>> = <<a, b, c>>
<1>1. /\ <<>> \in Seq(Frames) /\ <<a>> \in Seq(Frames) /\ <<b>> \in Seq(Frames)
      /\ <<c>> \in Seq(Frames) /\ <<a, b>> \in Seq(Frames)
  OBVIOUS
<1>2. \A s \in Seq(Frames) : s \o <<>> = s /\ <<>> \o s = s
  BY ConcatEmptySeq
<1>3. \A x, y \in Frames : <<x>> \o <<y>> = <<x, y>>
  <2>1. SUFFICES ASSUME NEW x \in Frames, NEW y \in Frames
                 PROVE  <<x>> \o <<y>> = <<x, y>>
    OBVIOUS
  <2> DEFINE s == <<x>> \o <<y>>
             t == <<x, y>>
  <2>2. /\ <<x>> \in Seq(Frames) /\ <<y>> \in Seq(Frames) /\ Len(<<x>>) = 1 /\ Len(<<y>>) = 1
        /\ <<x>>[1] = x /\ <<y>>[1] = y
    OBVIOUS
  <2>3. s \in Seq(Frames) /\ Len(s) = 2 /\ s[1] = x /\ s[2] = y
    BY <2>2
  <2>4. t \in Seq(Frames) /\ Len(t) = 2 /\ t[1] = x /\ t[2] = y
    OBVIOUS
  <2> HIDE DEF s, t
  <2>5. \A i \in 1..Len(s) : i = 1 \/ i = 2
    BY <2>3
  <2>6. \A i \in 1..Len(s) : s[i] = t[i]
    BY <2>3, <2>4, <2>5
  <2>7. s = t
    BY <2>3, <2>4, <2>6, SeqEqual
  <2> QED
    BY <2>7 DEF s, t
<1>4. <<a, b>> \o <<c>> = <<a, b, c>>
  <2> DEFINE s == <<a, b>> \o <<c>>
             t == <<a, b, c>>
  <2>2. /\ <<a, b>> \in Seq(Frames) /\ <<c>> \in Seq(Frames)
        /\ Len(<<a, b>>) = 2 /\ Len(<<c>>) = 1
        /\ <<a, b>>[1] = a /\ <<a, b>>[2] = b /\ <<c>>[1] = c
    OBVIOUS
  <2>3. s \in Seq(Frames) /\ Len(s) = 3 /\ s[1] = a /\ s[2] = b /\ s[3] = c
    BY <2>2
  <2>4. t \in Seq(Frames) /\ Len(t) = 3 /\ t[1] = a /\ t[2] = b /\ t[3] = c
    OBVIOUS
  <2> HIDE DEF s, t
  <2>5. \A i \in 1..Len(s) : i = 1 \/ i = 2 \/ i = 3
    BY <2>3
  <2>6. \A i \in 1..Len(s) : s[i] = t[i]
    BY <2>3, <2>4, <2>5
  <2>7. s = t
    BY <2>3, <2>4, <2>6, SeqEqual
  <2> QED
    BY <2>7 DEF s, t
<1> QED
  BY <1>1, <1>2, <1>3, <1>4

\* What the three properties need of the frames that a line makes.
LineFrames(l, new) ==
    /\ NewFrames(new, Ends(l)) /\ NewFinish(new, Ends(l)) /\ NewCalls(new)
    /\ \A k \in DOMAIN new : new[k].text # None => k = 1 /\ l.sort = "data"
    /\ l.sort = "data" /\ l.text # None => new # <<>>
    /\ l.sort = "data" /\ new # <<>> => new[1].text = l.text

\* The frames that a line of a Gemini model makes.
GeminiNew(l) ==
    IF HasContent(l)
    THEN IF Ends(l) THEN <<ContentOf(l), FinishOf(l), DoneFrame>> ELSE <<ContentOf(l)>>
    ELSE IF Ends(l) THEN <<FinishOf(l), DoneFrame>> ELSE <<>>

LEMMA GeminiFrames ==
    ASSUME LineAssumption, now \in Nat, kind = "google", state \in States, NEW l \in Lines,
           state'.seen = Seen(l), state'.saw <=> Saw(l)
    PROVE  \A new : new = GeminiNew(l) => LineFrames(l, new)
<1>0. SUFFICES ASSUME NEW new, new = GeminiNew(l)
              PROVE  LineFrames(l, new)
  OBVIOUS
<1> DEFINE c == ContentOf(l)
           f == FinishOf(l)
           d == DoneFrame
<1>1. /\ c \in Frames /\ c.tag = "chunk" /\ c.text = l.text /\ c.calls = CallsOf(l)
      /\ c.fin = None
  BY ContentOfType
<1>2. /\ f \in Frames /\ f.tag = "chunk" /\ f.text = None /\ f.calls = <<>>
      /\ f.fin # None /\ (f.fin = "tool_calls" <=> Saw(l))
  BY FinishOfType
<1>3. d \in Frames /\ d.tag = "done" /\ d.text = None /\ d.calls = <<>> /\ d.fin = None
  BY MarkOfType
<1>4. FrameOK(c) /\ FrameOK(f) /\ FrameOK(d)
  BY <1>1, <1>2, <1>3 DEF FrameOK
<1>5. IsInjective(CallsOf(l)) /\ Range(CallsOf(l)) \cap state.seen = {}
  BY LineCalls
<1>6. Range(<<>>) = {} /\ IsInjective(<<>>)
  BY DEF Range, IsInjective
<1>7. HasContent(l) => l.sort = "data"
  BY DEF HasContent
<1>8. l.sort = "data" /\ ~HasContent(l) => l.text = None
  BY DEF HasContent
<1>9. d = DoneFrame
  OBVIOUS
<1> HIDE DEF c, f, d
<1>10. CASE HasContent(l) /\ Ends(l)
  <2>1. new = <<c, f, d>>
    BY <1>0, <1>10 DEF GeminiNew, c, f, d
  <2>2. /\ new \in Seq(Frames) /\ DOMAIN new = {1, 2, 3} /\ Len(new) = 3 /\ new # <<>>
        /\ new[1] = c /\ new[2] = f /\ new[3] = d
    BY <1>1, <1>2, <1>3, <2>1
  <2>3. NewFrames(new, Ends(l))
    BY <1>4, <1>9, <1>10, <2>2 DEF NewFrames
  <2>4. Saw(l) <=> state.saw \/ c.calls # <<>>
    BY <1>1, <1>10 DEF Saw
  <2>5. 1 \in 1..2 /\ 1..1 = {1} /\ 1..2 = {1, 2} /\ 1..3 = {1, 2, 3}
    OBVIOUS
  <2>6. NewFinish(new, Ends(l))
    <3>1. \A k, m \in DOMAIN new : k < m /\ new[k].fin # None => new[m].tag # "chunk"
      BY <1>1, <1>2, <1>3, <2>2
    <3>2. \E k \in DOMAIN new : new[k].fin # None
      BY <1>2, <2>2
    <3>3. \A k \in DOMAIN new : new[k].fin # None => k = 2
      BY <1>1, <1>3, <2>2
    <3>4. new[2].fin = "tool_calls" <=> state.saw \/ \E m \in 1..2 : new[m].calls # <<>>
      BY <1>2, <2>2, <2>4, <2>5
    <3>5. state'.saw <=> state.saw \/ \E k \in DOMAIN new : new[k].calls # <<>>
      BY <1>2, <1>3, <2>2, <2>4
    <3> QED
      BY <3>1, <3>2, <3>3, <3>4, <3>5 DEF NewFinish
  <2>7. NewCalls(new)
    <3>1. \A k \in DOMAIN new : /\ IsInjective(new[k].calls)
                                /\ Range(new[k].calls) \cap state.seen = {}
      BY <1>1, <1>2, <1>3, <1>5, <1>6, <2>2
    <3>2. \A k \in DOMAIN new : k # 1 => Range(new[k].calls) = {}
      BY <1>2, <1>3, <1>6, <2>2
    <3>3. \A k \in DOMAIN new : \A m \in 1..(k - 1) :
            Range(new[k].calls) \cap Range(new[m].calls) = {}
      <4>1. \A m \in 1..(1 - 1) : FALSE
        OBVIOUS
      <4>2. \A k \in DOMAIN new : k = 1 \/ Range(new[k].calls) = {}
        BY <3>2
      <4> QED
        BY <4>1, <4>2
    <3>4. Seen(l) = state.seen \cup Range(new[1].calls)
      BY <1>1, <1>10, <2>2 DEF Seen
    <3>5. ASSUME NEW x
          PROVE  (\E k \in DOMAIN new : x \in Range(new[k].calls)) <=> x \in Range(new[1].calls)
      BY <2>2, <3>2
    <3>6. \A x : x \in state'.seen <=> x \in state.seen \/ x \in Range(new[1].calls)
      BY <3>4
    <3>7. \A x : x \in state'.seen
                    <=> x \in state.seen \/ \E k \in DOMAIN new : x \in Range(new[k].calls)
      BY <3>5, <3>6
    <3> QED
      BY <3>1, <3>3, <3>7 DEF NewCalls
  <2> QED
    BY <1>1, <1>2, <1>3, <1>7, <1>10, <2>2, <2>3, <2>6, <2>7 DEF LineFrames
<1>11. CASE HasContent(l) /\ ~Ends(l)
  <2>1. new = <<c>>
    BY <1>0, <1>11 DEF GeminiNew, c
  <2>2. /\ new \in Seq(Frames) /\ DOMAIN new = {1} /\ new # <<>> /\ new[1] = c
    BY <1>1, <2>1, One
  <2>3. NewFrames(new, Ends(l))
    BY <1>1, <1>4, <1>11, <2>2 DEF NewFrames
  <2>4. Saw(l) <=> state.saw \/ c.calls # <<>>
    BY <1>1, <1>11 DEF Saw
  <2>5. NewFinish(new, Ends(l))
    BY <1>1, <1>11, <2>2, <2>4 DEF NewFinish
  <2>6. NewCalls(new)
    <3>1. Seen(l) = state.seen \cup Range(new[1].calls)
      BY <1>1, <1>11, <2>2 DEF Seen
    <3>2. \A k \in DOMAIN new : 1..(k - 1) = {}
      BY <2>2
    <3>3. ASSUME NEW x
          PROVE  (\E k \in DOMAIN new : x \in Range(new[k].calls)) <=> x \in Range(new[1].calls)
      BY <2>2
    <3>4. \A x : x \in state'.seen <=> x \in state.seen \/ x \in Range(new[1].calls)
      BY <3>1
    <3>5. \A x : x \in state'.seen
                    <=> x \in state.seen \/ \E k \in DOMAIN new : x \in Range(new[k].calls)
      BY <3>3, <3>4
    <3>6. \A k \in DOMAIN new : /\ IsInjective(new[k].calls)
                                /\ Range(new[k].calls) \cap state.seen = {}
      BY <1>1, <1>5, <2>2
    <3> QED
      BY <3>2, <3>5, <3>6 DEF NewCalls
  <2> QED
    BY <1>1, <1>7, <1>11, <2>2, <2>3, <2>5, <2>6 DEF LineFrames
<1>12. CASE ~HasContent(l) /\ Ends(l)
  <2>1. new = <<f, d>>
    BY <1>0, <1>12 DEF GeminiNew, f, d
  <2>2. /\ new \in Seq(Frames) /\ DOMAIN new = {1, 2} /\ Len(new) = 2 /\ new # <<>>
        /\ new[1] = f /\ new[2] = d
    BY <1>2, <1>3, <2>1
  <2>3. NewFrames(new, Ends(l))
    BY <1>4, <1>9, <1>12, <2>2 DEF NewFrames
  <2>4. Saw(l) <=> state.saw
    BY <1>12 DEF Saw
  <2>5. NewFinish(new, Ends(l))
    <3>1. \A k \in DOMAIN new : new[k].calls = <<>> /\ (new[k].fin # None => k = 1)
      BY <1>2, <1>3, <2>2
    <3>2. \A k, m \in DOMAIN new : k < m /\ new[k].fin # None => new[m].tag # "chunk"
      BY <1>3, <2>2
    <3>3. 1 \in DOMAIN new /\ new[1].fin # None /\ (new[1].fin = "tool_calls" <=> state.saw)
      BY <1>2, <2>2, <2>4
    <3>4. 1..1 = {1}
      OBVIOUS
    <3> QED
      BY <2>4, <3>1, <3>2, <3>3, <3>4 DEF NewFinish
  <2>6. NewCalls(new)
    <3>1. Seen(l) = state.seen
      BY <1>12 DEF Seen
    <3>2. \A k \in DOMAIN new : IsInjective(new[k].calls) /\ Range(new[k].calls) = {}
      BY <1>2, <1>3, <1>6, <2>2
    <3> QED
      BY <3>1, <3>2 DEF NewCalls
  <2> QED
    BY <1>2, <1>3, <1>8, <1>12, <2>2, <2>3, <2>5, <2>6 DEF LineFrames
<1>13. CASE ~HasContent(l) /\ ~Ends(l)
  <2>1. new = <<>> /\ new \in Seq(Frames) /\ DOMAIN new = {}
    BY <1>0, <1>13 DEF GeminiNew
  <2>2. (Saw(l) <=> state.saw) /\ Seen(l) = state.seen
    BY <1>13 DEF Saw, Seen
  <2>3. NewFrames(new, Ends(l))
    BY <1>13, <2>1 DEF NewFrames
  <2>4. NewFinish(new, Ends(l))
    BY <1>13, <2>1, <2>2 DEF NewFinish
  <2>5. NewCalls(new)
    BY <2>1, <2>2 DEF NewCalls
  <2> QED
    BY <1>8, <1>13, <2>1, <2>3, <2>4, <2>5 DEF LineFrames
<1> QED
  BY <1>10, <1>11, <1>12, <1>13

\* Those of a line of another model.
PassedNew(l) ==
    CASE l.sort = "data" -> <<RawOf(l)>>
      [] l.sort = "bare" -> <<ErrorFrame, DoneFrame>>
      [] l.sort = "done" -> <<DoneFrame>>
      [] OTHER -> <<>>

LEMMA PassedFrames ==
    ASSUME LineAssumption, kind = "openai", NEW l \in Lines
    PROVE  \A new : new = PassedNew(l) => LineFrames(l, new)
<1>0. SUFFICES ASSUME NEW new, new = PassedNew(l)
              PROVE  LineFrames(l, new)
  OBVIOUS
<1> DEFINE r == RawOf(l)
           e == ErrorFrame
           d == DoneFrame
<1>1. r \in Frames /\ r.tag = "chunk" /\ r.text = l.text
  BY LineOfType, ChunkOfType DEF RawOf
<1>2. /\ e \in Frames /\ e.tag = "error" /\ e.text = None
      /\ d \in Frames /\ d.tag = "done" /\ d.text = None
  BY MarkOfType
<1>3. FrameOK(r) /\ FrameOK(e) /\ FrameOK(d)
  BY <1>1 DEF FrameOK
<1>4. Ends(l) <=> l.sort \in {"done", "bare"}
  BY DEF Ends
<1>5. NewFinish(new, Ends(l)) /\ NewCalls(new)
  BY DEF NewFinish, NewCalls
<1>6. d = DoneFrame
  OBVIOUS
<1>7. CASE l.sort = "data"
  <2>1. new = <<r>>
    BY <1>0, <1>7 DEF PassedNew
  <2> HIDE DEF r, e, d
  <2>2. new \in Seq(Frames) /\ DOMAIN new = {1} /\ new # <<>> /\ new[1] = r
    BY <1>1, <2>1, One
  <2>3. NewFrames(new, Ends(l))
    BY <1>1, <1>3, <1>4, <1>7, <2>2 DEF NewFrames
  <2> QED
    BY <1>1, <1>5, <1>7, <2>2, <2>3 DEF LineFrames
<1>8. CASE l.sort = "bare"
  <2>1. new = <<e, d>>
    BY <1>0, <1>8 DEF PassedNew
  <2> HIDE DEF r, e, d
  <2>2. /\ new \in Seq(Frames) /\ DOMAIN new = {1, 2} /\ Len(new) = 2 /\ new # <<>>
        /\ new[1] = e /\ new[2] = d
    BY <1>2, <2>1
  <2>3. NewFrames(new, Ends(l))
    BY <1>3, <1>4, <1>6, <1>8, <2>2 DEF NewFrames
  <2> QED
    BY <1>2, <1>5, <1>8, <2>2, <2>3 DEF LineFrames
<1>9. CASE l.sort = "done"
  <2>1. new = <<d>>
    BY <1>0, <1>9 DEF PassedNew
  <2> HIDE DEF r, e, d
  <2>2. new \in Seq(Frames) /\ DOMAIN new = {1} /\ Len(new) = 1 /\ new # <<>> /\ new[1] = d
    BY <1>2, <2>1, One
  <2>3. NewFrames(new, Ends(l))
    BY <1>3, <1>4, <1>6, <1>9, <2>2 DEF NewFrames
  <2> QED
    BY <1>2, <1>5, <1>9, <2>2, <2>3 DEF LineFrames
<1>10. CASE l.sort \notin {"data", "bare", "done"}
  <2>1. new = <<>> /\ new \in Seq(Frames) /\ DOMAIN new = {}
    BY <1>0, <1>10 DEF PassedNew
  <2>2. NewFrames(new, Ends(l))
    BY <1>4, <1>10, <2>1 DEF NewFrames
  <2> QED
    BY <1>5, <1>10, <2>1, <2>2 DEF LineFrames
<1> QED
  BY <1>7, <1>8, <1>9, <1>10

-----------------------------------------------------------------------------
(* Each action that writes is one that Said describes.                      *)

\* Of the lines that count, the first ones stay as they are.
LEMMA CountedLine ==
    ASSUME TypeOK, OpenInv, phase = "reading", parsed < Complete,
           parsed' = parsed + 1, UNCHANGED <<kind, lines, read>>,
           phase' = (IF Ends(lines[parsed + 1]) THEN "ended" ELSE "reading")
    PROVE  /\ Counted' = Counted \cup
                (IF lines[parsed + 1].sort = "data" THEN {parsed + 1} ELSE {})
           /\ \A j \in Counted : j < parsed + 1
<1> DEFINE p == parsed + 1
<1>1. parsed \in Nat /\ Complete \in Nat /\ p <= Complete
  BY DEF TypeOK, Complete
<1>2. \A j \in 1..parsed : ~Ends(lines[j])
  BY DEF OpenInv
<1>3. Arrived = parsed /\ Complete' = Complete
  BY DEF Arrived, Complete
<1>4. \A l : Ends(l)' <=> Ends(l)
  BY DEF Ends
<1>5. Counted = {i \in 1..parsed : lines[i].sort = "data" /\ \A j \in 1..(i - 1) : ~Ends(lines[j])}
  BY <1>3 DEF Counted
<1>6. Counted' = {i \in 1..Arrived' :
                    lines[i].sort = "data" /\ \A j \in 1..(i - 1) : ~Ends(lines[j])}
  BY <1>4 DEF Counted, Ends
<1>7. ASSUME NEW i \in 1..Arrived', i > p
      PROVE  Ends(lines[p]) /\ p \in 1..(i - 1)
  <2>1. CASE Ends(lines[p])
    BY <1>1, <1>7, <2>1
  <2>2. CASE ~Ends(lines[p])
    BY <1>1, <1>7, <2>2 DEF Arrived
  <2> QED
    BY <2>1, <2>2
<1>8. Arrived' \in Nat /\ p <= Arrived'
  BY <1>1, <1>3 DEF Arrived
<1>9. \A i \in Counted' : i \in 1..p
  <2>1. SUFFICES ASSUME NEW i \in Counted', i > p
                 PROVE  FALSE
    BY <1>1, <1>6, <1>8
  <2>2. i \in 1..Arrived' /\ \A j \in 1..(i - 1) : ~Ends(lines[j])
    BY <1>6
  <2> QED
    BY <1>7, <2>1, <2>2
<1>10. \A i \in 1..p : i \in Counted' <=> lines[i].sort = "data"
  <2>1. ASSUME NEW i \in 1..p
        PROVE  i \in 1..Arrived' /\ \A j \in 1..(i - 1) : j \in 1..parsed
    BY <1>1, <1>8
  <2> QED
    BY <1>2, <1>6, <2>1
<1>11. \A i \in 1..parsed : i \in Counted <=> lines[i].sort = "data"
  <2>1. \A i \in 1..parsed : \A j \in 1..(i - 1) : j \in 1..parsed
    BY <1>1
  <2> QED
    BY <1>2, <1>5, <2>1
<1>12. Counted \subseteq 1..parsed
  BY <1>5
<1>13. \A i : i \in 1..p <=> i \in 1..parsed \/ i = p
  BY <1>1
<1>14. p \notin 1..parsed /\ \A j \in 1..parsed : j < p
  BY <1>1
<1> DEFINE added == IF lines[p].sort = "data" THEN {p} ELSE {}
           counts(i) == lines[i].sort = "data"
           C == Counted
           D == Counted'
<1>15. /\ \A i \in D : i \in 1..p
       /\ \A i \in 1..p : i \in D <=> counts(i)
       /\ \A i \in 1..parsed : i \in C <=> counts(i)
       /\ \A i \in C : i \in 1..parsed
  BY <1>9, <1>10, <1>11, <1>12
<1>16. \A i : i \in added <=> i = p /\ counts(i)
  OBVIOUS
<1> HIDE DEF p, added, counts, C, D
<1>17. \A i : i \in D <=> i \in C \cup added
  BY <1>13, <1>15, <1>16
<1>18. D = C \cup added
  BY <1>17
<1> QED
  BY <1>12, <1>14, <1>18 DEF p, added, counts, C, D

\* At the end of the body, or when it is interrupted, all has been handled.
LEMMA CountedEnd ==
    ASSUME TypeOK, phase = "reading", parsed = Complete, phase' # "reading",
           UNCHANGED <<kind, lines, read>>
    PROVE  Counted' = Counted
<1>1. Arrived = parsed /\ Arrived' = parsed
  BY DEF Arrived, Complete
<1>2. \A l : Ends(l)' <=> Ends(l)
  BY DEF Ends
<1> QED
  BY <1>1, <1>2 DEF Counted, Ends

LEMMA DueLine ==
    ASSUME LineAssumption, TypeOK, parsed < Complete
    PROVE  lines[parsed + 1] \in Lines /\ parsed + 1 \in 1..Len(lines)
<1>1. /\ lines \in Seq(Lines) /\ sent \in 0..(2 * Len(lines)) /\ read \in 0..sent
      /\ parsed \in 0..(read \div 2)
  BY DEF TypeOK
<1>2. Len(lines) \in Nat /\ \A i \in 1..Len(lines) : lines[i] \in Lines
  BY <1>1
<1>3. parsed + 1 \in 1..Len(lines)
  BY <1>1, <1>2 DEF Complete
<1> QED
  BY <1>2, <1>3

LEMMA NextLineSaid ==
    ASSUME LineAssumption, IInv, NextLine
    PROVE  LET l == lines[parsed + 1]
               added == IF l.sort = "data" THEN {parsed + 1} ELSE {}
           IN /\ \E new : Said(new, Ends(l), added)
              /\ state' \in States /\ (state'.returned <=> Ends(l))
              /\ (~Ends(l) => ~state'.failed)
<1> DEFINE l == lines[parsed + 1]
           added == IF l.sort = "data" THEN {parsed + 1} ELSE {}
           g == Parse(state, l)
           new == g.yields \o (IF g.failed THEN <<ErrorFrame>> ELSE <<>>)
                           \o (IF g.returned THEN <<DoneFrame>> ELSE <<>>)
<1>1. /\ TypeOK /\ OpenInv /\ state \in States /\ phase = "reading" /\ parsed < Complete
      /\ ~state.returned /\ ~state.failed /\ now \in Nat /\ kind \in {"google", "openai"}
  BY DEF IInv, FinishSaysCalls, NextLine, OpenInv, TypeOK
<1>2. l \in Lines
  BY <1>1, DueLine
<1>3. Write(g, g.returned) /\ parsed' = parsed + 1 /\ UNCHANGED <<kind, lines, read>>
  BY DEF NextLine
<1>4. /\ out' = out \o new
      /\ state' = [g EXCEPT !.yields = <<>>]
      /\ phase' = (IF g.returned THEN "ended" ELSE phase)
  BY <1>3 DEF Write
<1>5. ErrorFrame \in Frames /\ DoneFrame \in Frames
  BY MarkOfType
<1>6. /\ g \in Locals /\ (g.returned <=> Ends(l)) /\ (~Ends(l) => ~g.failed)
      /\ kind = "google" => g.seen = Seen(l) /\ (g.saw <=> Saw(l)) /\ new = GeminiNew(l)
      /\ kind = "openai" => new = PassedNew(l)
  <2>1. CASE kind = "google"
    <3>1. Made(g, Seen(l), Saw(l), Ends(l), FALSE,
               IF HasContent(l)
               THEN IF Ends(l) THEN <<ContentOf(l), FinishOf(l)>> ELSE <<ContentOf(l)>>
               ELSE IF Ends(l) THEN <<FinishOf(l)>> ELSE <<>>)
      BY <1>1, <1>2, <2>1, GeminiMade
    <3> DEFINE c == ContentOf(l)
               f == FinishOf(l)
               d == DoneFrame
    <3>2. c \in Frames /\ f \in Frames /\ d \in Frames
      BY <1>1, <1>2, <1>5, ContentOfType, FinishOfType
    <3>3. /\ <<>> \o <<>> \o <<>> = <<>> /\ <<c>> \o <<>> \o <<>> = <<c>>
          /\ <<f>> \o <<>> \o <<d>> = <<f, d>> /\ <<c, f>> \o <<>> \o <<d>> = <<c, f, d>>
      BY <3>2, Joined
    <3> HIDE DEF g, l
    <3>4. /\ g \in Locals /\ g.seen = Seen(l) /\ (g.saw <=> Saw(l)) /\ (g.returned <=> Ends(l))
          /\ ~g.failed
          /\ g.yields = (IF HasContent(l)
                         THEN IF Ends(l) THEN <<c, f>> ELSE <<c>>
                         ELSE IF Ends(l) THEN <<f>> ELSE <<>>)
      BY <3>1 DEF Made
    <3>5. new = GeminiNew(l)
      <4>1. new = g.yields \o <<>> \o (IF Ends(l) THEN <<d>> ELSE <<>>)
        BY <3>4
      <4> HIDE DEF new, c, f, d
      <4>2. CASE HasContent(l) /\ Ends(l)
        BY <3>3, <3>4, <4>1, <4>2 DEF GeminiNew, c, f, d
      <4>3. CASE HasContent(l) /\ ~Ends(l)
        BY <3>3, <3>4, <4>1, <4>3 DEF GeminiNew, c, f, d
      <4>4. CASE ~HasContent(l) /\ Ends(l)
        BY <3>3, <3>4, <4>1, <4>4 DEF GeminiNew, c, f, d
      <4>5. CASE ~HasContent(l) /\ ~Ends(l)
        BY <3>3, <3>4, <4>1, <4>5 DEF GeminiNew, c, f, d
      <4> QED
        BY <4>2, <4>3, <4>4, <4>5
    <3> QED
      BY <2>1, <3>4, <3>5
  <2>2. CASE kind = "openai"
    <3>1. Made(g, state.seen, state.saw, Ends(l), l.sort = "bare",
               IF l.sort = "data" THEN <<RawOf(l)>> ELSE <<>>)
      BY <1>1, <1>2, <2>2, PassedMade
    <3> DEFINE r == RawOf(l)
               e == ErrorFrame
               d == DoneFrame
    <3>2. r \in Frames /\ e \in Frames /\ d \in Frames
      BY <1>2, <1>5, LineOfType, ChunkOfType DEF RawOf
    <3>3. /\ <<>> \o <<>> \o <<>> = <<>> /\ <<r>> \o <<>> \o <<>> = <<r>>
          /\ <<>> \o <<>> \o <<d>> = <<d>> /\ <<>> \o <<e>> \o <<d>> = <<e, d>>
      BY <3>2, Joined
    <3>4. Ends(l) <=> l.sort \in {"done", "bare"}
      BY <2>2 DEF Ends
    <3> HIDE DEF g, l
    <3>5. /\ g \in Locals /\ (g.returned <=> Ends(l)) /\ (g.failed <=> l.sort = "bare")
          /\ g.yields = (IF l.sort = "data" THEN <<r>> ELSE <<>>)
      BY <3>1 DEF Made
    <3>6. new = PassedNew(l)
      <4>1. new = (IF l.sort = "data" THEN <<r>> ELSE <<>>)
                     \o (IF l.sort = "bare" THEN <<e>> ELSE <<>>)
                     \o (IF l.sort \in {"done", "bare"} THEN <<d>> ELSE <<>>)
        BY <3>4, <3>5
      <4> HIDE DEF new, r, e, d
      <4>2. CASE l.sort = "data"
        BY <3>3, <4>1, <4>2 DEF PassedNew, r, e, d
      <4>3. CASE l.sort = "bare"
        BY <3>3, <4>1, <4>3 DEF PassedNew, r, e, d
      <4>4. CASE l.sort = "done"
        BY <3>3, <4>1, <4>4 DEF PassedNew, r, e, d
      <4>5. CASE l.sort \notin {"data", "bare", "done"}
        BY <3>3, <4>1, <4>5 DEF PassedNew, r, e, d
      <4> QED
        BY <4>2, <4>3, <4>4, <4>5
    <3> QED
      BY <2>2, <3>4, <3>5, <3>6
  <2> QED
    BY <1>1, <2>1, <2>2
<1>7. phase' = (IF Ends(l) THEN "ended" ELSE "reading")
  BY <1>1, <1>4, <1>6
<1>8. /\ state' \in States /\ (state'.returned <=> Ends(l)) /\ (~Ends(l) => ~state'.failed)
      /\ state'.seen = g.seen /\ (state'.saw <=> g.saw)
  <2> HIDE DEF g
  <2>1. state' = [g EXCEPT !.yields = <<>>] /\ g \in Locals
    BY <1>4, <1>6
  <2>2. state' \in States
    BY <2>1 DEF States, Locals
  <2>3. /\ state'.seen = g.seen /\ state'.saw = g.saw /\ state'.returned = g.returned
        /\ state'.failed = g.failed
    BY <2>1 DEF Locals
  <2> QED
    BY <1>6, <2>2, <2>3
<1>9. LineFrames(l, new)
  <2> HIDE DEF g, new, l
  <2>1. CASE kind = "google"
    BY <1>1, <1>2, <1>6, <1>8, <2>1, GeminiFrames
  <2>2. CASE kind = "openai"
    BY <1>2, <1>6, <2>2, PassedFrames
  <2> QED
    BY <1>1, <2>1, <2>2
<1>10. Counted' = Counted \cup added /\ \A j \in Counted : j < parsed + 1
  BY <1>1, <1>3, <1>7, CountedLine
<1>11. kind = "google" /\ l.sort = "data" =>
         \A c \in Range(l.calls) :
            c.id # NoId => [name |-> c.name, id |-> <<c.id, 0, 0>>] \in state'.seen
  <2> SUFFICES ASSUME kind = "google", l.sort = "data",
                      NEW c \in Range(l.calls), c.id # NoId
               PROVE  [name |-> c.name, id |-> <<c.id, 0, 0>>] \in state'.seen
    OBVIOUS
  <2>1. [name |-> c.name, id |-> <<c.id, 0, 0>>] \in state.seen \cup Range(CallsOf(l))
    BY <1>1, <1>2, LineCalls
  <2>2. state'.seen = Seen(l)
    BY <1>6, <1>8
  <2>3. ~HasContent(l) => Range(CallsOf(l)) = {}
    BY DEF HasContent, Range
  <2> QED
    BY <2>1, <2>2, <2>3 DEF Seen
<1>12. NewLine(new, added)
  <2> HIDE DEF new
  <2>1. added \in SUBSET {parsed + 1}
    OBVIOUS
  <2>2. \A i \in added : i = parsed + 1 /\ l.sort = "data"
    OBVIOUS
  <2>3. l.sort = "data" => added # {}
    OBVIOUS
  <2> HIDE DEF added
  <2> QED
    BY <1>9, <1>10, <1>11, <2>1, <2>2, <2>3 DEF NewLine, LineFrames
<1>13. Said(new, Ends(l), added)
  <2> HIDE DEF new, added, g
  <2> QED
    BY <1>1, <1>3, <1>4, <1>7, <1>9, <1>10, <1>12 DEF Said, LineFrames
<1> QED
  BY <1>8, <1>13

\* What is appended when the answer is over: one frame at most before [DONE].
LEMMA EndingSaid ==
    ASSUME IInv, phase = "reading", parsed = Complete, phase' = "ended",
           UNCHANGED <<kind, lines, read>>,
           state'.seen = state.seen, state'.saw <=> state.saw,
           NEW new, out' = out \o new,
           \/ kind = "openai" /\ new = <<DoneFrame>>
           \/ \E a \in Frames :
                /\ new = <<a, DoneFrame>> /\ FrameOK(a) /\ a.text = None /\ a.calls = <<>>
                /\ \/ a.tag = "error" /\ a.fin = None
                   \/ a.fin # None /\ (a.fin = "tool_calls" <=> state.saw)
    PROVE  Said(new, TRUE, {})
<1> DEFINE d == DoneFrame
<1>1. d \in Frames /\ d.tag = "done" /\ d.text = None /\ d.calls = <<>> /\ d.fin = None
  BY MarkOfType
<1>2. d = DoneFrame /\ FrameOK(d)
  BY DEF FrameOK
<1>3. Counted' = Counted \cup {}
  BY CountedEnd DEF IInv, FinishSaysCalls
<1>4. IsInjective(<<>>) /\ Range(<<>>) = {}
  BY DEF IsInjective, Range
<1> DEFINE Fits == /\ NewFrames(new, TRUE) /\ NewFinish(new, TRUE) /\ NewCalls(new)
                   /\ \A k \in DOMAIN new : new[k].text = None
<1>5. ASSUME kind = "openai", new = <<DoneFrame>>
      PROVE  Fits
  <2>1. new = <<d>>
    BY <1>5
  <2> HIDE DEF d
  <2>2. new \in Seq(Frames) /\ DOMAIN new = {1} /\ Len(new) = 1 /\ new # <<>> /\ new[1] = d
    BY <1>1, <2>1, One
  <2>3. NewFrames(new, TRUE)
    BY <1>2, <2>2 DEF NewFrames
  <2> QED
    BY <1>1, <1>5, <2>2, <2>3 DEF NewFinish, NewCalls
<1>6. ASSUME NEW a \in Frames, new = <<a, DoneFrame>>, FrameOK(a), a.text = None,
             a.calls = <<>>,
             \/ a.tag = "error" /\ a.fin = None
             \/ a.fin # None /\ (a.fin = "tool_calls" <=> state.saw)
      PROVE  Fits
  <2>1. new = <<a, d>>
    BY <1>6
  <2> HIDE DEF d
  <2>2. /\ new \in Seq(Frames) /\ DOMAIN new = {1, 2} /\ Len(new) = 2 /\ new # <<>>
        /\ new[1] = a /\ new[2] = d
    BY <1>1, <2>1
  <2>3. NewFrames(new, TRUE)
    BY <1>2, <1>6, <2>2 DEF NewFrames
  <2>4. \A k \in DOMAIN new : new[k].text = None /\ new[k].calls = <<>>
    BY <1>1, <1>6, <2>2
  <2>5. NewFinish(new, TRUE)
    <3>1. \A k, m \in DOMAIN new : k < m => m = 2
      BY <2>2
    <3>2. \A k, m \in DOMAIN new : k < m /\ new[k].fin # None => new[m].tag # "chunk"
      BY <1>1, <2>2, <3>1
    <3>3. (\A k \in DOMAIN new : new[k].tag # "error") => new[1].fin # None
      BY <1>6, <2>2
    <3>4. ASSUME NEW k \in DOMAIN new, new[k].fin # None
          PROVE  new[k].fin = "tool_calls" <=> state.saw
      <4>1. k = 1
        BY <1>1, <2>2, <3>4
      <4> QED
        BY <1>6, <2>2, <3>4, <4>1
    <3>5. \A k \in DOMAIN new : \A m \in 1..k : m \in DOMAIN new
      BY <2>2
    <3> QED
      BY <2>2, <2>4, <3>2, <3>3, <3>4, <3>5 DEF NewFinish
  <2>6. NewCalls(new)
    <3>1. \A k \in DOMAIN new : IsInjective(new[k].calls) /\ Range(new[k].calls) = {}
      BY <1>4, <2>4
    <3> QED
      BY <3>1 DEF NewCalls
  <2> QED
    BY <2>3, <2>4, <2>5, <2>6
<1>7. Fits
  <2> HIDE DEF Fits
  <2> QED
    BY <1>5, <1>6
<1>8. NewLine(new, {})
  BY <1>7 DEF NewLine
<1> QED
  BY <1>3, <1>7, <1>8 DEF Said

\* The adapter takes the body for ended: it has, or has been silent for too long.
LEMMA BodyEndSaid ==
    ASSUME IInv, phase = "reading", parsed = Complete, Write(AtEnd(state), TRUE),
           UNCHANGED <<kind, lines, read>>
    PROVE  state' \in States /\ \E new : Said(new, TRUE, {})
<1> DEFINE g == AtEnd(state)
           d == DoneFrame
<1>1. /\ TypeOK /\ state \in States /\ phase = "reading" /\ parsed = Complete
      /\ ~state.returned /\ ~state.failed /\ kind \in {"google", "openai"}
  BY DEF IInv, FinishSaysCalls, TypeOK, OpenInv
<1>2. state \in Locals /\ state.yields = <<>>
  <2>1. <<>> \in Seq(Frames) /\ \A y \in {<<>>} : y \in Seq(Frames)
    OBVIOUS
  <2>2. state.yields \in {<<>>} /\ state.yields = <<>>
    BY <1>1 DEF States
  <2> DEFINE all == Seq(Frames)
  <2>3. state.yields \in all
    BY <2>1, <2>2
  <2> HIDE DEF all
  <2>4. state \in [seen : SUBSET Calls, saw : BOOLEAN, returned : BOOLEAN, failed : BOOLEAN,
                  yields : all]
    BY <1>1, <2>3 DEF States
  <2> QED
    BY <2>2, <2>4 DEF Locals, all
<1>3. /\ out' = out \o (g.yields \o (IF g.failed THEN <<ErrorFrame>> ELSE <<>>) \o <<d>>)
      /\ state' = [g EXCEPT !.yields = <<>>] /\ phase' = "ended"
      /\ UNCHANGED <<kind, lines, read>>
  BY DEF Write
<1>4. d \in Frames
  BY MarkOfType
<1>5. CASE kind = "openai"
  <2>1. g = state
    BY <1>5 DEF AtEnd
  <2>2. <<>> \o <<>> \o <<d>> = <<d>>
    BY <1>4, Joined
  <2> DEFINE new == <<DoneFrame>>
  <2>3. out' = out \o new
    <3> HIDE DEF g
    <3>1. g.yields = <<>> /\ ~g.failed
      BY <1>1, <1>2, <2>1
    <3> QED
      BY <1>3, <2>2, <3>1
  <2>4. state' \in States /\ state'.seen = state.seen /\ state'.saw = state.saw
    <3> HIDE DEF g
    <3> QED
      BY <1>1, <1>3, <2>1 DEF States
  <2>5. \A x : x = new => Said(x, TRUE, {})
    BY <1>1, <1>3, <1>5, <2>3, <2>4, EndingSaid
  <2> QED
    BY <2>4, <2>5
<1>6. CASE kind = "google"
  <2> DEFINE r == Reason(state.saw, None)
             f == Chunk(None, <<>>, r)
  <2>1. g = Finish(state, None)
    BY <1>1, <1>6 DEF AtEnd
  <2>2. Made(g, state.seen, state.saw, TRUE, state.failed, Append(state.yields, f))
    BY <1>2, <2>1, FinishMade
  <2>3. state.saw \in BOOLEAN /\ <<>> \in Seq(Calls) /\ None \in Texts
    BY <1>1 DEF States, Texts
  <2>4. r \in Fins /\ r # None /\ (r = "tool_calls" <=> state.saw)
    BY <2>3, ReasonOfType
  <2>5. /\ f \in Frames /\ f.tag = "chunk" /\ f.text = None /\ f.calls = <<>> /\ f.fin = r
    <3> DEFINE noCalls == <<>>
    <3>1. noCalls \in Seq(Calls) /\ f = Chunk(None, noCalls, r)
      BY <2>3
    <3> HIDE DEF r, noCalls, f
    <3>2. /\ f \in Frames /\ f.tag = "chunk" /\ f.text = None /\ f.calls = noCalls
          /\ f.fin = r
      BY <2>3, <2>4, <3>1, ChunkOfType
    <3> QED
      BY <3>2 DEF noCalls
  <2>6. <<f>> \o <<>> \o <<d>> = <<f, d>>
    BY <1>4, <2>5, Joined
  <2>7. Append(<<>>, f) = <<f>>
    OBVIOUS
  <2> DEFINE new == <<f, DoneFrame>>
  <2>8. out' = out \o new
    <3>1. g.yields = <<f>> /\ ~g.failed
      BY <1>1, <1>2, <2>2, <2>7 DEF Made
    <3> HIDE DEF g, f
    <3> QED
      BY <1>3, <2>6, <3>1
  <2>9. state' \in States /\ state'.seen = state.seen /\ (state'.saw <=> state.saw)
    <3>1. g \in Locals /\ g.seen = state.seen /\ (g.saw <=> state.saw)
      BY <2>2 DEF Made
    <3> HIDE DEF g
    <3> QED
      BY <1>3, <3>1 DEF States, Locals
  <2>10. FrameOK(f)
    BY <2>5 DEF FrameOK
  <2>11. \A x : x = new => Said(x, TRUE, {})
    <3> HIDE DEF f, r
    <3>1. SUFFICES ASSUME NEW x, x = new
                   PROVE  Said(x, TRUE, {})
      OBVIOUS
    <3>2. out' = out \o x /\ x = <<f, DoneFrame>>
      BY <2>8, <3>1
    <3> HIDE DEF new
    <3> QED
      BY <1>1, <1>3, <2>4, <2>5, <2>9, <2>10, <3>2, EndingSaid
  <2> QED
    BY <2>9, <2>11
<1> QED
  BY <1>1, <1>5, <1>6

\* An answer that is interrupted is told so when it has begun.
LEMMA InterruptedSaid ==
    ASSUME IInv, phase = "reading", parsed = Complete, Interrupted, out # <<>>,
           UNCHANGED <<kind, lines, read, state>>
    PROVE  \E new : Said(new, TRUE, {})
<1> DEFINE e == ErrorFrame
<1>1. phase' = "ended" /\ out' = out \o <<e, DoneFrame>>
  BY DEF Interrupted
<1>2. e \in Frames /\ e.tag = "error" /\ e.text = None /\ e.calls = <<>> /\ e.fin = None
  BY MarkOfType
<1>3. FrameOK(e)
  BY DEF FrameOK
<1> HIDE DEF e
<1>4. \A x : x = <<e, DoneFrame>> => Said(x, TRUE, {})
  <2>1. SUFFICES ASSUME NEW x, x = <<e, DoneFrame>>
                 PROVE  Said(x, TRUE, {})
    OBVIOUS
  <2>2. out' = out \o x
    BY <1>1, <2>1
  <2> QED
    BY <1>1, <1>2, <1>3, <2>1, <2>2, EndingSaid
<1> QED
  BY <1>4

-----------------------------------------------------------------------------
(* Every action preserves the invariant.                                    *)

LEMMA SaidPreserves ==
    ASSUME IInv, NEW new, NEW over \in BOOLEAN, NEW added, Said(new, over, added),
           state' \in States, UNCHANGED <<sent, body, read, now>>,
           parsed' \in 0..Complete,
           ~over => /\ ~state'.returned /\ ~state'.failed
                    /\ \A j \in 1..parsed' : ~Ends(lines[j])
    PROVE  IInv'
<1>1. /\ phase = "reading" /\ phase' = (IF over THEN "ended" ELSE "reading")
      /\ kind' = kind /\ lines' = lines
  BY DEF Said
<1>2. /\ FrameInv'
      /\ ~over => \A i \in DOMAIN out' : out'[i].tag = "chunk"
      /\ ~over /\ kind = "google" => \A i \in DOMAIN out' : out'[i].fin = None
      /\ phase' = "ended" <=> out' # <<>> /\ out'[Len(out')] = DoneFrame
  BY FramesStep
<1>3. OpenInv'
  <2>1. \A l : Ends(l)' <=> Ends(l)
    BY <1>1 DEF Ends
  <2>2. phase' \in {"fetching", "reading"} => ~over /\ phase' = "reading"
    BY <1>1
  <2> QED
    BY <1>1, <1>2, <2>1, <2>2 DEF OpenInv, Ends
<1>4. TypeOK'
  <2>1. /\ kind \in {"google", "openai"} /\ lines \in Seq(Lines) /\ Len(lines) <= MaxLines
        /\ sent \in 0..(2 * Len(lines)) /\ read \in 0..sent
        /\ body \in {"open", "ended", "broken"} /\ now \in 0..MaxLines
    BY DEF IInv, FinishSaysCalls, TypeOK
  <2>2. parsed' \in 0..(read' \div 2)
    BY DEF Complete
  <2>3. state'.yields = <<>> /\ state'.saw \in BOOLEAN /\ state'.returned \in BOOLEAN
    BY DEF States
  <2>4. phase' \in {"ended", "reading"}
    BY <1>1
  <2> QED
    BY <1>1, <1>2, <2>1, <2>2, <2>3, <2>4 DEF TypeOK
<1>5. FinishSaysCalls'
  BY <1>4, FinishStep DEF FinishSaysCalls, FinishPart
<1>6. MemoryInv' /\ CallsOnce' /\ TextWhole'
  BY MemoryStep, CallsStep, TextStep
<1> QED
  BY <1>2, <1>3, <1>5, <1>6 DEF IInv

LEMMA NextLinePreserves ==
    ASSUME LineAssumption, IInv, NextLine
    PROVE  IInv'
<1> DEFINE l == lines[parsed + 1]
           added == IF l.sort = "data" THEN {parsed + 1} ELSE {}
<1>1. /\ \E new : Said(new, Ends(l), added)
      /\ state' \in States /\ (state'.returned <=> Ends(l))
      /\ (~Ends(l) => ~state'.failed)
  BY NextLineSaid
<1>2. UNCHANGED <<sent, body, read, now>> /\ parsed' = parsed + 1 /\ parsed < Complete
  BY DEF NextLine, Write
<1>3. parsed \in Nat /\ Complete \in Nat /\ parsed' \in 0..Complete
  BY <1>2 DEF IInv, FinishSaysCalls, TypeOK, Complete
<1>4. \A j \in 1..parsed : ~Ends(lines[j])
  BY DEF IInv, OpenInv, NextLine
<1>5. ~Ends(l) => \A j \in 1..parsed' : ~Ends(lines[j])
  <2>1. \A j \in 1..parsed' : j \in 1..parsed \/ j = parsed + 1
    BY <1>2, <1>3
  <2> QED
    BY <1>4, <2>1
<1>6. Ends(l) \in BOOLEAN
  BY DEF Ends
<1> DEFINE over == Ends(l)
<1>7. /\ over \in BOOLEAN /\ \E new : Said(new, over, added)
      /\ ~over => /\ ~state'.returned /\ ~state'.failed
                  /\ \A j \in 1..parsed' : ~Ends(lines[j])
  BY <1>1, <1>5, <1>6
<1> HIDE DEF over, added, l
<1>8. PICK new : Said(new, over, added)
  BY <1>7
<1> QED
  BY <1>1, <1>2, <1>3, <1>7, <1>8, SaidPreserves

LEMMA BodyEndPreserves ==
    ASSUME IInv, phase = "reading", parsed = Complete, Write(AtEnd(state), TRUE),
           UNCHANGED <<kind, lines, sent, body, read, parsed, now>>
    PROVE  IInv'
<1>1. state' \in States /\ \E new : Said(new, TRUE, {})
  BY BodyEndSaid
<1>2. parsed' \in 0..Complete
  BY DEF IInv, FinishSaysCalls, TypeOK, Complete
<1> QED
  BY <1>1, <1>2, SaidPreserves

\* As long as the answer goes on, a line counts when it has been handled.
LEMMA CountedStays ==
    ASSUME phase = "reading", phase' = "reading", parsed' = parsed, kind' = kind,
           TypeOK, \A i \in 1..parsed : lines'[i] = lines[i]
    PROVE  Counted' = Counted
<1>1. Arrived = parsed /\ Arrived' = parsed
  BY DEF Arrived
<1>2. \A l : Ends(l)' <=> Ends(l)
  BY DEF Ends
<1>3. \A i \in 1..parsed : \A j \in 1..(i - 1) : j \in 1..parsed
  BY DEF TypeOK
<1>4. Counted' = {i \in 1..parsed :
                    lines'[i].sort = "data" /\ \A j \in 1..(i - 1) : ~Ends(lines'[j])}
  BY <1>1, <1>2 DEF Counted, Ends
<1>5. Counted = {i \in 1..parsed :
                    lines[i].sort = "data" /\ \A j \in 1..(i - 1) : ~Ends(lines[j])}
  BY <1>1 DEF Counted
<1> QED
  BY <1>3, <1>4, <1>5

\* Where nothing is written, the lines that count must not change.
LEMMA QuietPreserves ==
    ASSUME IInv, TypeOK', OpenInv', UNCHANGED <<kind, state, out>>,
           phase' = "ended" => phase = "ended",
           Counted' = Counted, \A i \in Counted : lines'[i] = lines[i]
    PROVE  IInv'
<1>1. state' \in States /\ FrameInv' /\ MemoryInv'
  BY DEF IInv, FrameInv, MemoryInv
<1>2. FinishSaysCalls'
  BY DEF IInv, FinishSaysCalls
<1>3. CallsOnce'
  BY DEF IInv, CallsOnce
<1>4. TextWhole'
  <2>1. Due' = Due /\ Got' = Got
    BY DEF Due, Got
  <2>2. \A i \in Due : lines'[i] = lines[i]
    BY DEF Due
  <2> QED
    BY <2>1, <2>2 DEF IInv, TextWhole
<1> QED
  BY <1>1, <1>2, <1>3, <1>4 DEF IInv

\* The provider, the clock and the reads, which leave what has been handled alone.
LEMMA GoesOnPreserves ==
    ASSUME IInv, TypeOK', phase = "reading", UNCHANGED <<kind, parsed, phase, state, out>>,
           \A i \in 1..parsed : lines'[i] = lines[i]
    PROVE  IInv'
<1>1. TypeOK /\ OpenInv
  BY DEF IInv, FinishSaysCalls
<1>2. Counted' = Counted
  BY <1>1, CountedStays
<1>3. Counted \subseteq 1..parsed
  BY DEF Counted, Arrived
<1>4. OpenInv'
  <2>1. \A l : Ends(l)' <=> Ends(l)
    BY DEF Ends
  <2>2. \A j \in 1..parsed : ~Ends(lines[j])
    BY <1>1 DEF OpenInv
  <2>3. \A j \in 1..parsed' : ~Ends(lines'[j])
    BY <2>2
  <2> QED
    BY <1>1, <2>1, <2>3 DEF OpenInv, Ends
<1> QED
  BY <1>2, <1>3, <1>4, QuietPreserves

\* The numbers and the answer's ends, which the next lemma takes apart.
LEMMA Bounds ==
    ASSUME TypeOK, NumberAssumption
    PROVE  /\ kind \in {"google", "openai"} /\ lines \in Seq(Lines)
           /\ Len(lines) \in Nat /\ Len(lines) <= MaxLines /\ MaxLines \in Nat
           /\ sent \in Nat /\ sent <= 2 * Len(lines) /\ read \in Nat /\ read <= sent
           /\ parsed \in Nat /\ parsed <= read \div 2 /\ parsed <= Len(lines)
           /\ now \in 0..MaxLines /\ body \in {"open", "ended", "broken"}
           /\ phase \in {"fetching", "reading", "ended", "thrown"}
           /\ state.yields = <<>> /\ state.saw \in BOOLEAN /\ state.returned \in BOOLEAN
           /\ phase \in {"fetching", "thrown"} => out = <<>>
           /\ phase = "ended" <=> out # <<>> /\ out[Len(out)] = DoneFrame
BY DEF TypeOK, NumberAssumption

LEMMA SendTextPreserves ==
    ASSUME NumberAssumption, IInv, SendText
    PROVE  IInv'
<1>1. TypeOK
  BY DEF IInv, FinishSaysCalls
<1> USE Bounds, <1>1
<1>2. PICK l \in Lines : lines' = Append(lines, l)
  BY DEF SendText
<1>3. /\ lines' \in Seq(Lines) /\ Len(lines') = Len(lines) + 1
      /\ \A i \in 1..Len(lines) : lines'[i] = lines[i]
  BY <1>2
<1>4. /\ sent = 2 * Len(lines) /\ Len(lines) < MaxLines /\ sent' = sent + 1
      /\ UNCHANGED <<kind, body, read, parsed, phase, now, state, out>> /\ phase = "reading"
  BY DEF SendText
<1>5. Len(lines') <= MaxLines /\ sent' \in 0..(2 * Len(lines')) /\ read' \in 0..sent'
  BY <1>3, <1>4
<1>6. parsed' \in 0..(read' \div 2)
  BY <1>4
<1>7. TypeOK'
  BY <1>3, <1>4, <1>5, <1>6 DEF TypeOK
<1>8. \A i \in 1..parsed : lines'[i] = lines[i]
  BY <1>3
<1> QED
  BY <1>4, <1>7, <1>8, GoesOnPreserves

LEMMA SendNewlinePreserves ==
    ASSUME NumberAssumption, IInv, SendNewline
    PROVE  IInv'
<1>1. TypeOK
  BY DEF IInv, FinishSaysCalls
<1> USE Bounds, <1>1
<1>2. /\ sent < 2 * Len(lines) /\ sent' = sent + 1 /\ phase = "reading"
      /\ UNCHANGED <<kind, lines, body, read, parsed, phase, now, state, out>>
  BY DEF SendNewline
<1>3. sent' \in 0..(2 * Len(lines')) /\ read' \in 0..sent' /\ parsed' \in 0..(read' \div 2)
  BY <1>2
<1>4. TypeOK'
  BY <1>2, <1>3 DEF TypeOK
<1> QED
  BY <1>2, <1>4, GoesOnPreserves

LEMMA EndBodyPreserves ==
    ASSUME NumberAssumption, IInv, EndBody
    PROVE  IInv'
<1>1. TypeOK
  BY DEF IInv, FinishSaysCalls
<1>2. /\ body' \in {"ended", "broken"} /\ phase = "reading"
      /\ UNCHANGED <<kind, lines, sent, read, parsed, phase, now, state, out>>
  BY DEF EndBody
<1>3. TypeOK'
  BY <1>1, <1>2 DEF TypeOK
<1> QED
  BY <1>2, <1>3, GoesOnPreserves

LEMMA ClockPreserves ==
    ASSUME NumberAssumption, IInv, Clock
    PROVE  IInv'
<1>1. TypeOK
  BY DEF IInv, FinishSaysCalls
<1>2. /\ now < MaxLines /\ now' = now + 1 /\ phase = "reading"
      /\ UNCHANGED <<kind, lines, sent, body, read, parsed, phase, state, out>>
  BY DEF Clock
<1>3. now' \in 0..MaxLines
  BY <1>1, <1>2, Bounds
<1>4. TypeOK'
  BY <1>1, <1>2, <1>3 DEF TypeOK
<1> QED
  BY <1>2, <1>4, GoesOnPreserves

LEMMA ReadOn ==
    ASSUME NEW r \in Nat, NEW s \in Nat, NEW p \in Nat, NEW n \in 1..(s - r), p <= r \div 2
    PROVE  r + n \in 0..s /\ p \in 0..((r + n) \div 2)
<1>1. r + n \in Nat /\ r <= r + n /\ r + n <= s
  OBVIOUS
<1>2. r \div 2 <= (r + n) \div 2 /\ (r + n) \div 2 \in Nat /\ r \div 2 \in Nat
  BY <1>1
<1> QED
  BY <1>1, <1>2

LEMMA ReadPreserves ==
    ASSUME NumberAssumption, IInv, Read
    PROVE  IInv'
<1>1. TypeOK
  BY DEF IInv, FinishSaysCalls
<1> USE Bounds, <1>1
<1>2. /\ phase = "reading"
      /\ UNCHANGED <<kind, lines, sent, body, parsed, phase, now, state, out>>
  BY DEF Read
<1>3. PICK n \in 1..(sent - read) : read' = read + n
  BY DEF Read
<1>4. read' \in 0..sent' /\ parsed' \in 0..(read' \div 2)
  BY <1>2, <1>3, ReadOn
<1>5. TypeOK'
  BY <1>2, <1>4 DEF TypeOK
<1> QED
  BY <1>2, <1>5, GoesOnPreserves

\* Before the headers have come nothing has been read.
LEMMA FetchPreserves ==
    ASSUME NumberAssumption, IInv, Fetch
    PROVE  IInv'
<1>1. TypeOK /\ OpenInv
  BY DEF IInv, FinishSaysCalls
<1>2. /\ phase = "fetching" /\ phase' \in {"reading", "thrown"}
      /\ UNCHANGED <<kind, lines, sent, body, read, parsed, now, state, out>>
  BY DEF Fetch, Started, NotOk, TimedOut
<1>3. read = 0 /\ parsed = 0 /\ out = <<>>
  BY <1>1, <1>2 DEF OpenInv, TypeOK
<1>4. Counted = {} /\ Counted' = {}
  <2>1. Complete = 0 /\ Complete' = 0
    BY <1>2, <1>3 DEF Complete
  <2>2. Arrived = 0 /\ Arrived' = 0
    BY <1>2, <1>3, <2>1 DEF Arrived
  <2> QED
    BY <2>2 DEF Counted
<1>5. TypeOK'
  BY <1>1, <1>2, <1>3 DEF TypeOK
<1>6. OpenInv'
  BY <1>1, <1>2, <1>3 DEF OpenInv
<1> QED
  BY <1>2, <1>4, <1>5, <1>6, QuietPreserves

LEMMA InterruptedPreserves ==
    ASSUME IInv, phase = "reading", parsed = Complete, Interrupted,
           UNCHANGED <<kind, lines, sent, body, read, parsed, now, state>>
    PROVE  IInv'
<1>1. TypeOK /\ OpenInv /\ state \in States
  BY DEF IInv, FinishSaysCalls
<1>2. CASE out = <<>>
  <2>1. phase' = "thrown" /\ out' = out
    BY <1>2 DEF Interrupted
  <2>2. Counted' = Counted
    BY <1>1, <2>1, CountedEnd
  <2>3. TypeOK'
    BY <1>1, <1>2, <2>1 DEF TypeOK
  <2>4. OpenInv'
    BY <2>1 DEF OpenInv
  <2> QED
    BY <2>1, <2>2, <2>3, <2>4, QuietPreserves
<1>3. CASE out # <<>>
  <2>1. \E new : Said(new, TRUE, {})
    BY <1>3, InterruptedSaid
  <2>2. parsed' \in 0..Complete
    BY <1>1 DEF TypeOK, Complete
  <2> QED
    BY <1>1, <2>1, <2>2, SaidPreserves
<1> QED
  BY <1>2, <1>3

LEMMA StutterPreserves ==
    ASSUME IInv, UNCHANGED vars
    PROVE  IInv'
<1>1. TypeOK' /\ OpenInv'
  BY DEF IInv, FinishSaysCalls, TypeOK, OpenInv, Ends, vars
<1>2. Counted' = Counted
  BY DEF Counted, Arrived, Complete, Ends, vars
<1> QED
  BY <1>1, <1>2, QuietPreserves DEF vars

LEMMA InitInvariant ==
    ASSUME NumberAssumption, Init
    PROVE  IInv
<1>1. /\ kind \in {"google", "openai"} /\ lines = <<>> /\ sent = 0 /\ read = 0 /\ parsed = 0
      /\ body = "open" /\ phase = "fetching" /\ now = 0 /\ state = Fresh /\ out = <<>>
  BY DEF Init
<1>2. /\ state \in States /\ state.seen = {} /\ ~state.saw /\ ~state.returned
      /\ ~state.failed /\ state.yields = <<>>
  BY <1>1 DEF Fresh, States
<1>3. out \in Seq(Frames) /\ DOMAIN out = {} /\ Len(lines) = 0 /\ lines \in Seq(Lines)
  BY <1>1
<1>4. TypeOK
  <2>1. /\ sent \in 0..(2 * Len(lines)) /\ read \in 0..sent /\ parsed \in 0..(read \div 2)
        /\ now \in 0..MaxLines /\ Len(lines) <= MaxLines
    BY <1>1, <1>3 DEF NumberAssumption
  <2>2. state.saw \in BOOLEAN /\ state.returned \in BOOLEAN
    BY <1>2 DEF States
  <2>3. phase # "ended" /\ phase \in {"fetching", "reading", "ended", "thrown"}
        /\ body \in {"open", "ended", "broken"}
    BY <1>1
  <2> QED
    BY <1>1, <1>2, <1>3, <2>1, <2>2, <2>3 DEF TypeOK
<1>5. FinishSaysCalls
  BY <1>1, <1>3, <1>4 DEF FinishSaysCalls
<1>6. FrameInv /\ OpenInv
  BY <1>1, <1>2, <1>3 DEF FrameInv, OpenInv
<1>7. MemoryInv
  BY <1>2, <1>3 DEF MemoryInv
<1>8. Counted = {}
  <2>1. Complete = 0
    BY <1>1 DEF Complete
  <2> QED
    BY <1>1, <2>1 DEF Counted, Arrived
<1>9. CallsOnce
  BY <1>3, <1>8 DEF CallsOnce
<1>10. TextWhole
  <2>1. Due = {} /\ Got = {}
    BY <1>3, <1>8 DEF Due, Got
  <2> DEFINE place == [i \in Due |-> 0]
  <2>2. place \in [Due -> Got] /\ Range(place) = Got
    BY <2>1 DEF Range
  <2> QED
    BY <2>1, <2>2 DEF TextWhole
<1> QED
  BY <1>2, <1>5, <1>6, <1>7, <1>9, <1>10 DEF IInv

LEMMA NextInvariant ==
    ASSUME LineAssumption, NumberAssumption, IInv, [Next]_vars
    PROVE  IInv'
<1>1. CASE SendText
  BY <1>1, SendTextPreserves
<1>2. CASE SendNewline
  BY <1>2, SendNewlinePreserves
<1>3. CASE EndBody
  BY <1>3, EndBodyPreserves
<1>4. CASE Clock
  BY <1>4, ClockPreserves
<1>5. CASE Fetch
  BY <1>5, FetchPreserves
<1>6. CASE Read
  BY <1>6, ReadPreserves
<1>7. CASE NextLine
  BY <1>7, NextLinePreserves
<1>8. CASE ReadEnd
  BY <1>8, BodyEndPreserves DEF ReadEnd
<1>9. CASE ReadBreaks
  BY <1>9, InterruptedPreserves DEF ReadBreaks
<1>10. CASE IdleTimeout
  BY <1>10, BodyEndPreserves DEF IdleTimeout
<1>11. CASE UNCHANGED vars
  BY <1>11, StutterPreserves
<1> QED
  BY <1>1, <1>2, <1>3, <1>4, <1>5, <1>6, <1>7, <1>8, <1>9, <1>10, <1>11 DEF Next

LEMMA Invariant == Spec => []IInv
<1>1. Init => IInv
  BY InitInvariant, NumberAssumption
<1>2. IInv /\ [Next]_vars => IInv'
  BY NextInvariant, LineAssumption, NumberAssumption
<1> QED
  BY <1>1, <1>2, PTL DEF Spec

-----------------------------------------------------------------------------
(* ProviderStream: the theorems.                                            *)

\* The stream of a Gemini model says once how it ended, and says "tool_calls" if and
\* only if the client has been sent a call; whatever a provider streams, an answer that
\* has begun is closed with [DONE], and one that has sent nothing goes on to another
\* model (toGeminiFinishReason and the end of streamChatCompletion in google.ts, the
\* loop of proxy.ts).
THEOREM FinishIsTold == Spec => []FinishSaysCalls
BY Invariant, PTL DEF IInv

\* The client gets each call of a Gemini model at most once, however often Gemini
\* repeats it, and gets each one with an id of its own from the lines that count (the
\* set of keys that streamChatCompletion of google.ts keeps).
THEOREM CallsReachOnce == Spec => []CallsOnce
BY Invariant, PTL DEF IInv

\* The texts that the client has got are those of the lines that count, in order and
\* without a gap, wherever the network has cut them (the buffer of the reading loops
\* in google.ts and openai-compat.ts).
THEOREM TextIsWhole == Spec => []TextWhole
BY Invariant, PTL DEF IInv

-----------------------------------------------------------------------------
(* ToolChat: the invariant.                                                 *)

\* The ids of the calls of the k-th answer: those that a provider gives, and those
\* that the proxy makes up.
IdsOf(k) == ({"given"} \X {k - 1} \X Nat) \cup ({"made"} \X {2 * k - 1, 2 * k} \X Nat)

\* The calls in the client's history are those that the model has made.
Faithful(made, got, k) ==
    /\ Len(got) = Len(made)
    /\ \A n \in DOMAIN got :
        /\ got[n].name = made[n].name /\ got[n].sig = made[n].sig
        /\ made[n].args = "object" => got[n].args = "object"
        /\ got[n].id \in IdsOf(k)
    /\ \A n, m \in DOMAIN got : got[n].id = got[m].id => n = m

\* at[k] is the position of the k-th answer in the history.
Placed(at) ==
    /\ \A k, l \in DOMAIN said : k < l => at[k] < at[l]
    /\ \A k \in DOMAIN said : history[at[k]].role = "assistant"
    /\ \A i \in DOMAIN history :
        history[i].role = "assistant" => \E k \in DOMAIN said : at[k] = i
    /\ NoClash =>
        \A k \in DOMAIN said : Faithful(said[k].calls, history[at[k]].calls, k)

\* The call that m, of a tool, is the result of.
ResultOf(m, c) == m.id = c.id /\ m.ran[2] = c.name /\ m.name \in {Absent, c.name}

AnswersPlaced == \E at \in [DOMAIN said -> DOMAIN history] : Placed(at)
OnlyModelsCall ==
    \A i \in DOMAIN history : history[i].role # "assistant" => history[i].calls = <<>>
ResultsPlaced ==
    \A j \in DOMAIN history :
        history[j].role = "tool" =>
            \E p \in CallsIn(history) :
                p[1] < j /\ ResultOf(history[j], history[p[1]].calls[p[2]])
RequestMade ==
    /\ request.to # Absent => stage = "asked"
    /\ request.to = "google" => request.turns = Contents(history)
AllAccepted ==
    (\E i \in DOMAIN said : said[i].mute # "no") \/ \A i \in DOMAIN history : Accepted(history[i])
RefusedForCause == stage = "refused" => \E i \in DOMAIN history : ~Accepted(history[i])

ChatInv ==
    /\ ChatTypeOK /\ AnswersPlaced /\ OnlyModelsCall /\ ResultsPlaced
    /\ RequestMade /\ AllAccepted /\ RefusedForCause

-----------------------------------------------------------------------------
(* ToolChat: a request to Gemini.                                           *)

LEMMA KeptType ==
    ASSUME NEW h \in Seq(Messages)
    PROVE  Kept(h) \in SUBSET (DOMAIN h) /\ IsFiniteSet(Kept(h)) /\ Kept(h) \subseteq Int
<1>1. Kept(h) \in SUBSET (1..Len(h))
  BY DEF Kept
<1>2. IsFiniteSet(1..Len(h))
  BY FS_Interval
<1>3. IsFiniteSet(Kept(h))
  BY <1>1, <1>2, FS_Subset
<1> QED
  BY <1>1, <1>3

\* The messages that are kept have their turns at their ranks, and there are no others.
LEMMA ContentsTurns ==
    ASSUME NEW h \in Seq(Messages)
    PROVE  /\ \A i \in Kept(h) :
                /\ Rank(Kept(h), i) \in DOMAIN Contents(h)
                /\ Contents(h)[Rank(Kept(h), i)] = TurnOf(h, h[i])
           /\ \A t \in DOMAIN Contents(h) : \E i \in Kept(h) : t = Rank(Kept(h), i)
<1> DEFINE K == Kept(h)
           kept == At(h, K)
<1>1. IsFiniteSet(K) /\ K \subseteq Int
  BY KeptType
<1>2. Contents(h) = [n \in DOMAIN kept |-> TurnOf(h, kept[n])]
  BY DEF Contents
<1> HIDE DEF K
<1>3. /\ \A i \in K : Rank(K, i) \in DOMAIN kept /\ kept[Rank(K, i)] = h[i]
      /\ \A n \in DOMAIN kept : \E i \in K : n = Rank(K, i)
  BY <1>1, AtElement
<1> HIDE DEF kept
<1>4. /\ \A i \in K : /\ Rank(K, i) \in DOMAIN Contents(h)
                      /\ Contents(h)[Rank(K, i)] = TurnOf(h, h[i])
      /\ \A t \in DOMAIN Contents(h) : \E i \in K : t = Rank(K, i)
  BY <1>2, <1>3
<1> QED
  BY <1>4 DEF K

\* The parts of a turn, by the role of the message.
LEMMA TurnParts ==
    ASSUME NEW h, NEW m \in Messages
    PROVE  /\ m.role = "assistant" =>
                /\ DOMAIN TurnOf(h, m).parts = DOMAIN m.calls
                /\ \A n \in DOMAIN m.calls :
                    TurnOf(h, m).parts[n] =
                        CallPart([m.calls[n] EXCEPT !.args = Parsed(m.calls[n].args)])
           /\ m.role = "tool" =>
                TurnOf(h, m).parts =
                    <<ResponsePart(m.id, IF m.name # Absent THEN m.name ELSE NameOf(h, m.id))>>
           /\ m.role = "user" => TurnOf(h, m).parts = <<>>
<1>1. CASE m.role = "assistant"
  BY <1>1 DEF TurnOf, ModelTurn, Turn, Mapped
<1>2. CASE m.role = "tool"
  BY <1>2 DEF TurnOf, ToolTurn, Turn
<1>3. CASE m.role = "user"
  BY <1>3 DEF TurnOf, UserTurn, Turn
<1> QED
  BY <1>1, <1>2, <1>3

\* What a part that is a call has of it.
LEMMA CallPartFields ==
    ASSUME NEW c \in HistoryCalls, NEW part, part = CallPart([c EXCEPT !.args = Parsed(c.args)])
    PROVE  /\ part.kind = "call" /\ part.id = c.id /\ part.name = c.name /\ part.sig = c.sig
           /\ c.args = "object" => part.args = "object"
<1>1. Parsed(c.args) = IF c.args \in {"object", "{}"} THEN c.args ELSE "wrapped"
  BY DEF Parsed
<1> QED
  BY <1>1 DEF CallPart, HistoryCalls

\* The kept messages that are answers, and those that are results, are all of them,
\* but for answers without a call.
LEMMA KeptRoles ==
    ASSUME NEW h, NEW i \in DOMAIN h
    PROVE  /\ h[i].role = "tool" => i \in Kept(h)
           /\ h[i].role = "assistant" /\ h[i].calls # <<>> => i \in Kept(h)
           /\ i \in Kept(h) => h[i].role # "system"
BY DEF Kept

\* Places in pairs.
LEMMA CallPlaces ==
    ASSUME NEW h
    PROVE  \A p : p \in CallsIn(h) <=>
                    \E i \in DOMAIN h : \E n \in DOMAIN h[i].calls : p = <<i, n>>
BY DEF CallsIn

LEMMA PartPlaces ==
    ASSUME NEW what
    PROVE  \A q : q \in PartsAt(what) <=>
                    \E t \in DOMAIN request.turns : \E n \in DOMAIN request.turns[t].parts :
                        request.turns[t].parts[n].kind = what /\ q = <<t, n>>
BY DEF PartsAt

LEMMA MadePlaces ==
    \A p : p \in MadeAt <=> \E k \in DOMAIN said : \E n \in DOMAIN said[k].calls : p = <<k, n>>
BY DEF MadeAt

\* The turn of the i-th message.
TurnAt(i) == Rank(Kept(history), i)

\* The parts of a request to Gemini that are calls are those of the history.
LEMMA CallsSent ==
    ASSUME history \in Seq(Messages), OnlyModelsCall, request.turns = Contents(history)
    PROVE  /\ \A i \in DOMAIN history : \A n \in DOMAIN history[i].calls :
                /\ <<TurnAt(i), n>> \in PartsAt("call")
                /\ LET part == Part(<<TurnAt(i), n>>)
                       c == history[i].calls[n]
                   IN /\ part.id = c.id /\ part.name = c.name /\ part.sig = c.sig
                      /\ c.args = "object" => part.args = "object"
           /\ \A q \in PartsAt("call") :
                \E i \in DOMAIN history : \E n \in DOMAIN history[i].calls : q = <<TurnAt(i), n>>
<1> DEFINE K == Kept(history)
<1>1. ASSUME NEW i \in DOMAIN history, NEW n \in DOMAIN history[i].calls
      PROVE  /\ <<TurnAt(i), n>> \in PartsAt("call")
             /\ LET part == Part(<<TurnAt(i), n>>)
                    c == history[i].calls[n]
                IN /\ part.id = c.id /\ part.name = c.name /\ part.sig = c.sig
                   /\ c.args = "object" => part.args = "object"
  <2> DEFINE m == history[i]
             t == TurnAt(i)
             part == request.turns[t].parts[n]
  <2>1. m \in Messages
    BY <1>1
  <2>2. m.calls \in Seq(HistoryCalls) /\ m.calls[n] \in HistoryCalls
    BY <2>1, <1>1 DEF Messages
  <2>3. m.calls # <<>>
    BY <1>1
  <2>4. m.role = "assistant"
    BY <1>1, <2>3 DEF OnlyModelsCall
  <2>5. i \in Kept(history)
    BY <2>3, <2>4, KeptRoles
  <2>6. t \in DOMAIN request.turns /\ request.turns[t] = TurnOf(history, m)
    BY <2>5, ContentsTurns DEF TurnAt
  <2>7. /\ n \in DOMAIN request.turns[t].parts
        /\ part = CallPart([m.calls[n] EXCEPT !.args = Parsed(m.calls[n].args)])
    BY <1>1, <2>1, <2>4, <2>6, TurnParts
  <2>8. /\ part.kind = "call" /\ part.id = m.calls[n].id /\ part.name = m.calls[n].name
        /\ part.sig = m.calls[n].sig
        /\ m.calls[n].args = "object" => part.args = "object"
    <3> HIDE DEF part
    <3> QED
      BY <2>2, <2>7, CallPartFields
  <2>9. <<t, n>> \in PartsAt("call")
    BY <2>6, <2>7, <2>8, PartPlaces
  <2>10. Part(<<t, n>>) = part
    BY DEF Part
  <2> QED
    BY <2>8, <2>9, <2>10
<1>2. ASSUME NEW q \in PartsAt("call")
      PROVE  \E i \in DOMAIN history : \E n \in DOMAIN history[i].calls : q = <<TurnAt(i), n>>
  <2>1. PICK t \in DOMAIN request.turns : \E n \in DOMAIN request.turns[t].parts :
                request.turns[t].parts[n].kind = "call" /\ q = <<t, n>>
    BY <1>2, PartPlaces
  <2>2. PICK n \in DOMAIN request.turns[t].parts :
                request.turns[t].parts[n].kind = "call" /\ q = <<t, n>>
    BY <2>1
  <2>3. PICK i \in Kept(history) : t = Rank(Kept(history), i)
    BY <2>1, ContentsTurns
  <2> DEFINE m == history[i]
  <2>4. i \in DOMAIN history /\ m \in Messages
    BY KeptType
  <2>5. request.turns[t] = TurnOf(history, m)
    BY <2>3, ContentsTurns
  <2>6. m.role \in {"system", "user", "assistant", "tool"}
    BY <2>4 DEF Messages
  <2>7. m.role # "system"
    BY <2>4, KeptRoles
  <2>8. m.role # "user"
    BY <2>2, <2>4, <2>5, TurnParts
  <2>9. m.role # "tool"
    <3> SUFFICES ASSUME m.role = "tool" PROVE FALSE
      OBVIOUS
    <3> DEFINE name == IF m.name # Absent THEN m.name ELSE NameOf(history, m.id)
    <3>1. request.turns[t].parts = <<ResponsePart(m.id, name)>>
      BY <2>4, <2>5, TurnParts
    <3> HIDE DEF name
    <3>2. request.turns[t].parts[n].kind = "response"
      BY <2>2, <3>1 DEF ResponsePart
    <3> QED
      BY <2>2, <3>2
  <2>10. n \in DOMAIN m.calls
    BY <2>2, <2>4, <2>5, <2>6, <2>7, <2>8, <2>9, TurnParts
  <2> QED
    BY <2>2, <2>3, <2>4, <2>10 DEF TurnAt
<1> QED
  BY <1>1, <1>2

\* Those that are responses are the messages of the tools.
LEMMA ResultsSent ==
    ASSUME history \in Seq(Messages), request.turns = Contents(history)
    PROVE  /\ \A i \in DOMAIN history : history[i].role = "tool" =>
                LET m == history[i]
                    part == Part(<<TurnAt(i), 1>>)
                IN /\ <<TurnAt(i), 1>> \in PartsAt("response")
                   /\ part.id = m.id
                   /\ part.name = IF m.name # Absent THEN m.name ELSE NameOf(history, m.id)
           /\ \A q \in PartsAt("response") :
                \E i \in DOMAIN history : history[i].role = "tool" /\ q = <<TurnAt(i), 1>>
<1>1. ASSUME NEW i \in DOMAIN history, history[i].role = "tool"
      PROVE  LET m == history[i]
                 part == Part(<<TurnAt(i), 1>>)
             IN /\ <<TurnAt(i), 1>> \in PartsAt("response")
                /\ part.id = m.id
                /\ part.name = IF m.name # Absent THEN m.name ELSE NameOf(history, m.id)
  <2> DEFINE m == history[i]
             t == TurnAt(i)
             name == IF m.name # Absent THEN m.name ELSE NameOf(history, m.id)
             part == request.turns[t].parts[1]
  <2>1. m \in Messages
    BY <1>1
  <2>2. i \in Kept(history)
    BY <1>1, KeptRoles
  <2>3. t \in DOMAIN request.turns /\ request.turns[t] = TurnOf(history, m)
    BY <2>2, ContentsTurns DEF TurnAt
  <2>4. request.turns[t].parts = <<ResponsePart(m.id, name)>>
    BY <1>1, <2>1, <2>3, TurnParts
  <2>5. Part(<<t, 1>>) = part
    BY DEF Part
  <2> HIDE DEF name, t, m
  <2>6. /\ 1 \in DOMAIN request.turns[t].parts
        /\ part.kind = "response" /\ part.id = m.id /\ part.name = name
    BY <2>4 DEF ResponsePart
  <2>7. <<t, 1>> \in PartsAt("response")
    BY <2>3, <2>6, PartPlaces
  <2> QED
    BY <2>5, <2>6, <2>7 DEF name, t, m
<1>2. ASSUME NEW q \in PartsAt("response")
      PROVE  \E i \in DOMAIN history : history[i].role = "tool" /\ q = <<TurnAt(i), 1>>
  <2>1. PICK t \in DOMAIN request.turns : \E n \in DOMAIN request.turns[t].parts :
                request.turns[t].parts[n].kind = "response" /\ q = <<t, n>>
    BY <1>2, PartPlaces
  <2>2. PICK n \in DOMAIN request.turns[t].parts :
                request.turns[t].parts[n].kind = "response" /\ q = <<t, n>>
    BY <2>1
  <2>3. PICK i \in Kept(history) : t = Rank(Kept(history), i)
    BY <2>1, ContentsTurns
  <2> DEFINE m == history[i]
  <2>4. i \in DOMAIN history /\ m \in Messages
    BY KeptType
  <2>5. request.turns[t] = TurnOf(history, m)
    BY <2>3, ContentsTurns
  <2>6. m.role \in {"system", "user", "assistant", "tool"}
    BY <2>4 DEF Messages
  <2>7. m.role # "system"
    BY <2>4, KeptRoles
  <2>8. m.role # "user"
    BY <2>2, <2>4, <2>5, TurnParts
  <2>9. m.role # "assistant"
    <3> SUFFICES ASSUME m.role = "assistant" PROVE FALSE
      OBVIOUS
    <3> DEFINE part == request.turns[t].parts[n]
    <3>1. /\ n \in DOMAIN m.calls
          /\ part = CallPart([m.calls[n] EXCEPT !.args = Parsed(m.calls[n].args)])
      BY <2>2, <2>4, <2>5, TurnParts
    <3>2. m.calls[n] \in HistoryCalls
      BY <2>4, <3>1 DEF Messages
    <3> HIDE DEF part
    <3>3. part.kind = "call"
      BY <3>1, <3>2, CallPartFields
    <3> QED
      BY <2>2, <3>3 DEF part
  <2>10. m.role = "tool"
    BY <2>6, <2>7, <2>8, <2>9
  <2>11. n = 1
    BY <2>2, <2>4, <2>5, <2>10, TurnParts
  <2> QED
    BY <2>2, <2>3, <2>4, <2>10, <2>11 DEF TurnAt
<1> QED
  BY <1>1, <1>2

\* Turns stand in the order of the messages.
LEMMA TurnsInOrder ==
    ASSUME history \in Seq(Messages), NEW i \in Kept(history), NEW j \in Kept(history), i < j
    PROVE  TurnAt(i) < TurnAt(j)
<1>1. IsFiniteSet(Kept(history)) /\ Kept(history) \subseteq Int
  BY KeptType
<1> QED
  BY <1>1, RankGrows DEF TurnAt

-----------------------------------------------------------------------------
(* ToolChat: what the invariant says about a request.                       *)

\* Ids of calls in two answers are different.
LEMMA IdsApart ==
    ASSUME NEW k \in Nat, NEW l \in Nat, NEW id, id \in IdsOf(k), id \in IdsOf(l)
    PROVE  k = l
<1>1. CASE id[1] = "given"
  <2>1. id[2] = k - 1 /\ id[2] = l - 1
    BY <1>1 DEF IdsOf
  <2> QED
    BY <2>1
<1>2. CASE id[1] # "given"
  <2>1. id[2] \in {2 * k - 1, 2 * k} /\ id[2] \in {2 * l - 1, 2 * l}
    BY <1>2 DEF IdsOf
  <2> QED
    BY <2>1
<1> QED
  BY <1>1, <1>2

LEMMA Typed ==
    ASSUME ChatTypeOK
    PROVE  /\ history \in Seq(Messages)
           /\ said \in Seq(Answers)
           /\ \A i \in DOMAIN history :
                history[i] \in Messages /\ history[i].calls \in Seq(HistoryCalls)
           /\ \A k \in DOMAIN said : said[k].calls \in Seq(AllCalls)
<1>1. /\ history \in Seq(Messages)
      /\ said \in Seq(Answers)
  BY DEF ChatTypeOK
<1>2. ASSUME NEW i \in DOMAIN history
      PROVE  history[i] \in Messages /\ history[i].calls \in Seq(HistoryCalls)
  <2>1. history[i] \in Messages
    BY <1>1
  <2> QED
    BY <2>1 DEF Messages
<1>3. ASSUME NEW k \in DOMAIN said
      PROVE  said[k].calls \in Seq(AllCalls)
  <2>1. said[k] \in Answers
    BY <1>1
  <2> QED
    BY <2>1 DEF Answers
<1> QED
  BY <1>1, <1>2, <1>3

\* A call in the history is one that the model has made in the answer at its place.
LEMMA CallOfAnswer ==
    ASSUME ChatTypeOK, OnlyModelsCall, NoClash, NEW at \in [DOMAIN said -> DOMAIN history],
           Placed(at), NEW i \in DOMAIN history, NEW n \in DOMAIN history[i].calls
    PROVE  \E k \in DOMAIN said : at[k] = i /\ n \in DOMAIN said[k].calls
                                  /\ history[i].calls[n].id \in IdsOf(k)
<1>2. history[i].calls \in Seq(HistoryCalls)
  BY Typed
<1>3. history[i].role = "assistant"
  BY <1>2 DEF OnlyModelsCall
<1>4. PICK k \in DOMAIN said : at[k] = i
  BY <1>3 DEF Placed
<1>5. Faithful(said[k].calls, history[i].calls, k)
  BY <1>4 DEF Placed
<1>6. said[k].calls \in Seq(AllCalls)
  BY Typed
<1> QED
  BY <1>2, <1>4, <1>5, <1>6 DEF Faithful

\* No two calls in the history have the same id.
LEMMA IdsDiffer ==
    ASSUME ChatTypeOK, OnlyModelsCall, AnswersPlaced, NoClash,
           NEW i \in DOMAIN history, NEW n \in DOMAIN history[i].calls,
           NEW j \in DOMAIN history, NEW m \in DOMAIN history[j].calls,
           history[i].calls[n].id = history[j].calls[m].id
    PROVE  i = j /\ n = m
<1>1. PICK at \in [DOMAIN said -> DOMAIN history] : Placed(at)
  BY DEF AnswersPlaced
<1>2. PICK k \in DOMAIN said : at[k] = i /\ history[i].calls[n].id \in IdsOf(k)
  BY <1>1, CallOfAnswer
<1>3. PICK l \in DOMAIN said : at[l] = j /\ history[j].calls[m].id \in IdsOf(l)
  BY <1>1, CallOfAnswer
<1>4. k \in Nat /\ l \in Nat
  BY DEF ChatTypeOK
<1>5. k = l
  BY <1>2, <1>3, <1>4, IdsApart
<1>6. Faithful(said[k].calls, history[i].calls, k)
  BY <1>1, <1>2 DEF Placed
<1> QED
  BY <1>2, <1>3, <1>5, <1>6 DEF Faithful

\* A call that has its id for itself is found by it.
LEMMA NameFound ==
    ASSUME NEW h, NEW p \in CallsIn(h), NEW id, h[p[1]].calls[p[2]].id = id,
           \A q \in CallsIn(h) : h[q[1]].calls[q[2]].id = id => q = p
    PROVE  NameOf(h, id) = h[p[1]].calls[p[2]].name
<1> DEFINE named == {q \in CallsIn(h) : h[q[1]].calls[q[2]].id = id}
           last == CHOOSE q \in named : \A r \in named : r = q \/ Before(r, q)
<1>1. named = {p}
  OBVIOUS
<1>2. NameOf(h, id) = IF named = {} THEN "tool" ELSE h[last[1]].calls[last[2]].name
  BY DEF NameOf
<1> HIDE DEF named
<1>3. last = p
  BY <1>1
<1> HIDE DEF last
<1> QED
  BY <1>1, <1>2, <1>3

\* The calls of the answers are the calls of the request.
LEMMA CallsMatch ==
    ASSUME ChatTypeOK, AnswersPlaced, OnlyModelsCall, RequestMade
    PROVE  CallsReturned
<1> SUFFICES ASSUME request.to = "google", NoClash
             PROVE  \E back \in Matchings(MadeAt, PartsAt("call")) :
                        \A p \in MadeAt :
                            LET made == said[p[1]].calls[p[2]]
                            IN /\ Part(back[p]).name = made.name /\ Part(back[p]).sig = made.sig
                               /\ made.args = "object" => Part(back[p]).args = "object"
  BY DEF CallsReturned
<1>1. /\ history \in Seq(Messages)
      /\ said \in Seq(Answers)
      /\ request.turns = Contents(history)
  BY DEF ChatTypeOK, RequestMade
<1>2. PICK at \in [DOMAIN said -> DOMAIN history] : Placed(at)
  BY DEF AnswersPlaced
<1> DEFINE back == [p \in MadeAt |-> <<TurnAt(at[p[1]]), p[2]>>]
\* Each call is where its answer is.
<1>3. ASSUME NEW k \in DOMAIN said, NEW n \in DOMAIN said[k].calls
      PROVE  LET made == said[k].calls[n]
                 i == at[k]
             IN /\ i \in DOMAIN history /\ i \in Kept(history) /\ n \in DOMAIN history[i].calls
                /\ <<TurnAt(i), n>> \in PartsAt("call")
                /\ Part(<<TurnAt(i), n>>).name = made.name
                /\ Part(<<TurnAt(i), n>>).sig = made.sig
                /\ made.args = "object" => Part(<<TurnAt(i), n>>).args = "object"
  <2> DEFINE i == at[k]
             c == history[i].calls[n]
  <2>1. i \in DOMAIN history /\ Faithful(said[k].calls, history[i].calls, k)
    BY <1>2 DEF Placed
  <2>2. said[k].calls \in Seq(AllCalls) /\ history[i].calls \in Seq(HistoryCalls)
    BY <2>1, Typed
  <2>3. /\ n \in DOMAIN history[i].calls
        /\ c.name = said[k].calls[n].name /\ c.sig = said[k].calls[n].sig
        /\ said[k].calls[n].args = "object" => c.args = "object"
    BY <2>1, <2>2 DEF Faithful
  <2>4. history[i].role = "assistant" /\ history[i].calls # <<>>
    BY <1>2, <2>3 DEF Placed
  <2>5. i \in Kept(history)
    BY <2>1, <2>4, KeptRoles
  <2>6. /\ <<TurnAt(i), n>> \in PartsAt("call")
        /\ LET part == Part(<<TurnAt(i), n>>)
           IN /\ part.id = c.id /\ part.name = c.name /\ part.sig = c.sig
              /\ c.args = "object" => part.args = "object"
    BY <1>1, <2>1, <2>3, CallsSent
  <2> QED
    BY <2>1, <2>3, <2>5, <2>6
<1>4. back \in [MadeAt -> PartsAt("call")]
  <2>1. ASSUME NEW p \in MadeAt
        PROVE  <<TurnAt(at[p[1]]), p[2]>> \in PartsAt("call")
    <3>1. PICK k \in DOMAIN said : \E n \in DOMAIN said[k].calls : p = <<k, n>>
      BY MadePlaces
    <3>2. PICK n \in DOMAIN said[k].calls : p = <<k, n>>
      BY <3>1
    <3>3. p[1] = k /\ p[2] = n
      BY <3>2
    <3> QED
      BY <1>3, <3>3
  <2> QED
    BY <2>1
\* They are in order.
<1>5. ASSUME NEW p \in MadeAt, NEW q \in MadeAt, Before(p, q)
      PROVE  Before(back[p], back[q])
  <2>1. PICK k \in DOMAIN said : \E n \in DOMAIN said[k].calls : p = <<k, n>>
    BY MadePlaces
  <2>2. PICK n \in DOMAIN said[k].calls : p = <<k, n>>
    BY <2>1
  <2>3. PICK l \in DOMAIN said : \E m \in DOMAIN said[l].calls : q = <<l, m>>
    BY MadePlaces
  <2>4. PICK m \in DOMAIN said[l].calls : q = <<l, m>>
    BY <2>3
  <2>5. p[1] = k /\ p[2] = n /\ q[1] = l /\ q[2] = m
    BY <2>2, <2>4
  <2>6. back[p] = <<TurnAt(at[k]), n>> /\ back[q] = <<TurnAt(at[l]), m>>
    BY <2>5
  <2>7. at[k] \in Kept(history) /\ at[l] \in Kept(history)
    BY <1>3
  <2>8. CASE k < l
    <3>1. at[k] < at[l]
      BY <1>2, <2>8 DEF Placed
    <3>2. TurnAt(at[k]) < TurnAt(at[l])
      BY <1>1, <2>7, <3>1, TurnsInOrder
    <3> QED
      BY <2>6, <3>2 DEF Before
  <2>9. CASE k = l /\ n < m
    BY <2>6, <2>9 DEF Before
  <2> QED
    BY <1>5, <2>5, <2>8, <2>9 DEF Before
\* There are no others.
<1>6. ASSUME NEW b \in PartsAt("call")
      PROVE  \E p \in MadeAt : back[p] = b
  <2>1. PICK i \in DOMAIN history : \E n \in DOMAIN history[i].calls : b = <<TurnAt(i), n>>
    BY <1>1, CallsSent
  <2>2. PICK n \in DOMAIN history[i].calls : b = <<TurnAt(i), n>>
    BY <2>1
  <2>3. PICK k \in DOMAIN said : at[k] = i /\ n \in DOMAIN said[k].calls
    BY <1>2, CallOfAnswer
  <2>4. <<k, n>> \in MadeAt
    BY <2>3, MadePlaces
  <2>5. back[<<k, n>>] = <<TurnAt(i), n>>
    BY <2>3, <2>4
  <2> QED
    BY <2>2, <2>4, <2>5
<1>7. back \in Matchings(MadeAt, PartsAt("call"))
  <2> HIDE DEF back
  <2> QED
    BY <1>4, <1>5, <1>6 DEF Matchings
<1>8. ASSUME NEW p \in MadeAt
      PROVE  LET made == said[p[1]].calls[p[2]]
             IN /\ Part(back[p]).name = made.name /\ Part(back[p]).sig = made.sig
                /\ made.args = "object" => Part(back[p]).args = "object"
  <2>1. PICK k \in DOMAIN said : \E n \in DOMAIN said[k].calls : p = <<k, n>>
    BY MadePlaces
  <2>2. PICK n \in DOMAIN said[k].calls : p = <<k, n>>
    BY <2>1
  <2>3. p[1] = k /\ p[2] = n /\ back[p] = <<TurnAt(at[k]), n>>
    BY <2>2
  <2> HIDE DEF back
  <2> QED
    BY <1>3, <2>3
<1> HIDE DEF back
<1> QED
  BY <1>7, <1>8

\* A result in the history is that of a call before it, which can be found by its id.
LEMMA ResultOfCall ==
    ASSUME ChatTypeOK, AnswersPlaced, OnlyModelsCall, ResultsPlaced, NoClash,
           NEW j \in DOMAIN history, history[j].role = "tool"
    PROVE  \E i \in DOMAIN history : \E n \in DOMAIN history[i].calls :
                LET m == history[j]
                    c == history[i].calls[n]
                IN /\ i < j /\ i \in Kept(history) /\ c.id = m.id /\ c.name = m.ran[2]
                   /\ (IF m.name # Absent THEN m.name ELSE NameOf(history, m.id)) = c.name
<1>1. PICK p \in CallsIn(history) :
            p[1] < j /\ ResultOf(history[j], history[p[1]].calls[p[2]])
  BY DEF ResultsPlaced
<1>2. PICK i \in DOMAIN history : \E n \in DOMAIN history[i].calls : p = <<i, n>>
  BY CallPlaces
<1>3. PICK n \in DOMAIN history[i].calls : p = <<i, n>>
  BY <1>2
<1> DEFINE m == history[j]
           c == history[i].calls[n]
<1>4. i < j /\ ResultOf(m, c)
  BY <1>1, <1>3
<1>5. c.id = m.id /\ c.name = m.ran[2] /\ m.name \in {Absent, c.name}
  BY <1>4 DEF ResultOf
<1>6. i \in Kept(history)
  <2>1. history[i].calls \in Seq(HistoryCalls)
    BY Typed
  <2>2. history[i].calls # <<>>
    BY <2>1
  <2>3. history[i].role = "assistant"
    BY <2>2 DEF OnlyModelsCall
  <2> QED
    BY <2>2, <2>3, KeptRoles
<1>7. NameOf(history, m.id) = c.name
  <2>1. ASSUME NEW q \in CallsIn(history), history[q[1]].calls[q[2]].id = m.id
        PROVE  q = p
    <3>1. PICK i2 \in DOMAIN history : \E n2 \in DOMAIN history[i2].calls : q = <<i2, n2>>
      BY CallPlaces
    <3>2. PICK n2 \in DOMAIN history[i2].calls : q = <<i2, n2>>
      BY <3>1
    <3>3. history[i2].calls[n2].id = history[i].calls[n].id
      BY <1>5, <2>1, <3>2
    <3>4. i2 = i /\ n2 = n
      BY <3>3, IdsDiffer
    <3> QED
      BY <1>3, <3>2, <3>4
  <2>2. history[p[1]].calls[p[2]] = c
    BY <1>3
  <2> HIDE DEF m, c
  <2>3. history[p[1]].calls[p[2]].id = m.id
    BY <1>5, <2>2
  <2>4. NameOf(history, m.id) = history[p[1]].calls[p[2]].name
    BY <2>1, <2>3, NameFound
  <2> QED
    BY <2>2, <2>4
<1>8. (IF m.name # Absent THEN m.name ELSE NameOf(history, m.id)) = c.name
  <2> HIDE DEF m, c
  <2> QED
    BY <1>5, <1>7
<1> QED
  BY <1>4, <1>5, <1>6, <1>8

\* The results of the history are the responses of the request.
LEMMA ResultsMatch ==
    ASSUME ChatTypeOK, AnswersPlaced, OnlyModelsCall, ResultsPlaced, RequestMade
    PROVE  ResponsesNamed
<1> DEFINE answered(id) == {q \in PartsAt("call") : Part(q).id = id}
           response == [p \in RanAt |-> <<TurnAt(p[1]), 1>>]
           Good(p, at) ==
                /\ Part(at).name = history[p[1]].ran[2]
                /\ Cardinality(answered(Part(at).id)) = 1
                /\ \A q \in answered(Part(at).id) : Part(q).name = Part(at).name /\ Before(q, at)
<1> SUFFICES ASSUME request.to = "google", NoClash
             PROVE  \E f \in Matchings(RanAt, PartsAt("response")) : \A p \in RanAt : Good(p, f[p])
  BY DEF ResponsesNamed
<1>1. history \in Seq(Messages) /\ request.turns = Contents(history)
  BY DEF ChatTypeOK, RequestMade
<1>2. ASSUME NEW p \in RanAt
      PROVE  p[1] \in DOMAIN history /\ history[p[1]].role = "tool" /\ p = <<p[1], 1>>
  BY DEF RanAt
<1>3. ASSUME NEW p \in RanAt
      PROVE  response[p] = <<TurnAt(p[1]), 1>> /\ response[p] \in PartsAt("response")
             /\ p[1] \in Kept(history)
  BY <1>1, <1>2, ResultsSent, KeptRoles
<1>4. response \in [RanAt -> PartsAt("response")]
  BY <1>3
<1>5. ASSUME NEW p \in RanAt, NEW q \in RanAt, Before(p, q)
      PROVE  Before(response[p], response[q])
  <2>1. p[2] = 1 /\ q[2] = 1
    BY <1>2
  <2>2. p[1] < q[1]
    BY <1>5, <2>1 DEF Before
  <2>3. TurnAt(p[1]) < TurnAt(q[1])
    BY <1>1, <1>3, <2>2, TurnsInOrder
  <2> HIDE DEF response
  <2> QED
    BY <1>3, <2>3 DEF Before
<1>6. ASSUME NEW b \in PartsAt("response")
      PROVE  \E p \in RanAt : response[p] = b
  <2>1. PICK i \in DOMAIN history : history[i].role = "tool" /\ b = <<TurnAt(i), 1>>
    BY <1>1, ResultsSent
  <2>2. <<i, 1>> \in RanAt
    BY <2>1 DEF RanAt
  <2>3. response[<<i, 1>>] = <<TurnAt(i), 1>>
    BY <2>2
  <2> QED
    BY <2>1, <2>2, <2>3
<1>7. response \in Matchings(RanAt, PartsAt("response"))
  <2> HIDE DEF response
  <2> QED
    BY <1>4, <1>5, <1>6 DEF Matchings
<1>8. ASSUME NEW p \in RanAt
      PROVE  Good(p, response[p])
  <2> DEFINE j == p[1]
             at == <<TurnAt(j), 1>>
             part == Part(at)
  <2>1. j \in DOMAIN history /\ history[j].role = "tool" /\ j \in Kept(history)
        /\ response[p] = at
    BY <1>2, <1>3
  <2>2. PICK i \in DOMAIN history : \E n \in DOMAIN history[i].calls :
                LET m == history[j]
                    c == history[i].calls[n]
                IN /\ i < j /\ i \in Kept(history) /\ c.id = m.id /\ c.name = m.ran[2]
                   /\ (IF m.name # Absent THEN m.name ELSE NameOf(history, m.id)) = c.name
    BY <2>1, ResultOfCall
  <2>3. PICK n \in DOMAIN history[i].calls :
                LET m == history[j]
                    c == history[i].calls[n]
                IN /\ i < j /\ i \in Kept(history) /\ c.id = m.id /\ c.name = m.ran[2]
                   /\ (IF m.name # Absent THEN m.name ELSE NameOf(history, m.id)) = c.name
    BY <2>2
  <2> DEFINE c == history[i].calls[n]
             q0 == <<TurnAt(i), n>>
  <2>4. part.id = c.id /\ part.name = c.name /\ part.name = history[j].ran[2]
    BY <1>1, <2>1, <2>3, ResultsSent
  <2>5. q0 \in PartsAt("call") /\ Part(q0).id = c.id /\ Part(q0).name = c.name
    BY <1>1, CallsSent
  <2>6. ASSUME NEW q \in PartsAt("call"), Part(q).id = c.id
        PROVE  q = q0
    <3>1. PICK i2 \in DOMAIN history : \E n2 \in DOMAIN history[i2].calls : q = <<TurnAt(i2), n2>>
      BY <1>1, CallsSent
    <3>2. PICK n2 \in DOMAIN history[i2].calls : q = <<TurnAt(i2), n2>>
      BY <3>1
    <3>3. Part(<<TurnAt(i2), n2>>).id = history[i2].calls[n2].id
      BY <1>1, CallsSent
    <3>4. history[i2].calls[n2].id = history[i].calls[n].id
      BY <2>6, <3>2, <3>3
    <3>5. i2 = i /\ n2 = n
      BY <3>4, IdsDiffer
    <3> QED
      BY <3>2, <3>5
  <2>7. Before(q0, at)
    <3>1. TurnAt(i) < TurnAt(j)
      BY <1>1, <2>1, <2>3, TurnsInOrder
    <3> QED
      BY <3>1 DEF Before
  <2> HIDE DEF response, at, c, q0, part
  <2>8. answered(part.id) = {q0}
    BY <2>4, <2>5, <2>6
  <2>9. Cardinality(answered(part.id)) = 1
    BY <2>8, FS_Singleton
  <2>10. \A q \in answered(part.id) : Part(q).name = part.name /\ Before(q, at)
    BY <2>4, <2>5, <2>7, <2>8
  <2> QED
    BY <2>1, <2>4, <2>9, <2>10 DEF part
<1> HIDE DEF response
<1> QED
  BY <1>7, <1>8

\* What is refused, a model has said.
LEMMA RefusalCause ==
    ASSUME AllAccepted, RefusedForCause
    PROVE  AnswersAccepted
BY DEF AllAccepted, RefusedForCause, AnswersAccepted

-----------------------------------------------------------------------------
(* ToolChat: answers.                                                       *)

LEMMA UpToTwoType ==
    ASSUME NEW S, NEW calls \in UpToTwo(S)
    PROVE  calls \in Seq(S) /\ Len(calls) \in {0, 1, 2}
<1>1. CASE calls = <<>>
  <2>1. <<>> \in Seq(S)
    OBVIOUS
  <2> QED
    BY <1>1, <2>1
<1>2. CASE \E c \in S : calls = <<c>>
  <2>1. PICK c \in S : calls = <<c>>
    BY <1>2
  <2> QED
    BY <2>1
<1>3. CASE \E c \in S, d \in S : calls = <<c, d>>
  <2>1. PICK c \in S, d \in S : calls = <<c, d>>
    BY <1>3
  <2> QED
    BY <2>1
<1>4. calls = <<>> \/ (\E c \in S : calls = <<c>>) \/ \E c \in S, d \in S : calls = <<c, d>>
  BY DEF UpToTwo
<1> QED
  BY <1>1, <1>2, <1>3, <1>4

\* A call that a model may make.
LEMMA CallType ==
    ASSUME CallAssumption, NEW c \in AllCalls
    PROVE  c.given \in BOOLEAN /\ c.name \in Names /\ c.sig \in Sigs /\ c.args \in Arguments
BY DEF CallAssumption, AllCalls, Names, Sigs

LEMMA IdsOfType ==
    ASSUME NEW k \in Nat, k # 0
    PROVE  IdsOf(k) \subseteq Ids
BY DEF IdsOf, Ids

\* The ids of an answer are its own, and of two calls they are different, unless both
\* come without one in two lines of one millisecond.
LEMMA IdOfType ==
    ASSUME said \in Seq(Answers), CallAssumption, NEW calls \in Seq(AllCalls),
           NEW n \in DOMAIN calls, Len(calls) \in {0, 1, 2}, NEW cut \in Cuts
    PROVE  IdOf(calls, n, cut) \in IdsOf(Len(said) + 1)
<1> DEFINE unnamed == {j \in 1..(n - 1) : ~calls[j].given}
           L == Len(said)
           time == 2 * L + (IF cut = "apart" THEN n ELSE 1)
           place == IF cut = "whole" THEN Cardinality(unnamed) ELSE 0
<1>1. n \in {1, 2} /\ L \in Nat
  OBVIOUS
<1>2. unnamed \in SUBSET (1..(n - 1)) /\ IsFiniteSet(1..(n - 1))
  <2>1. n - 1 \in Int
    BY <1>1
  <2>2. IsFiniteSet(1..(n - 1))
    BY <2>1, FS_Interval
  <2> QED
    BY <2>2
<1>3. Cardinality(unnamed) \in Nat
  BY <1>2, FS_Subset, FS_CardinalityType
<1>4. place \in Nat
  BY <1>3
<1> DEFINE k == Len(said) + 1
<1>5. k \in Nat /\ L = k - 1 /\ time \in {2 * k - 1, 2 * k}
  BY <1>1
<1>6. IdOf(calls, n, cut) =
            IF calls[n].given THEN <<"given", L, n>> ELSE <<"made", time, place>>
  BY DEF IdOf
<1> HIDE DEF time, place, L, k
<1>7. <<"given", L, n>> \in {"given"} \X {k - 1} \X Nat
  BY <1>1, <1>5
<1>8. <<"made", time, place>> \in {"made"} \X {2 * k - 1, 2 * k} \X Nat
  BY <1>4, <1>5
<1>9. IdOf(calls, n, cut) \in IdsOf(k)
  BY <1>6, <1>7, <1>8 DEF IdsOf
<1> QED
  BY <1>9 DEF k

LEMMA IdOfDiffers ==
    ASSUME said \in Seq(Answers), CallAssumption, NEW calls \in Seq(AllCalls), Len(calls) = 2,
           NEW cut \in Cuts, ~(cut = "together" /\ \A n \in DOMAIN calls : ~calls[n].given)
    PROVE  IdOf(calls, 1, cut) # IdOf(calls, 2, cut)
<1> DEFINE unnamed(n) == {j \in 1..(n - 1) : ~calls[j].given}
           L == Len(said)
           time(n) == 2 * L + (IF cut = "apart" THEN n ELSE 1)
           place(n) == IF cut = "whole" THEN Cardinality(unnamed(n)) ELSE 0
           id(n) == IF calls[n].given THEN <<"given", L, n>> ELSE <<"made", time(n), place(n)>>
<1>1. L \in Nat /\ calls[1].given \in BOOLEAN /\ calls[2].given \in BOOLEAN
  BY CallType
<1>2. IdOf(calls, 1, cut) = id(1) /\ IdOf(calls, 2, cut) = id(2)
  BY DEF IdOf
<1>3. CASE calls[1].given \/ calls[2].given
  BY <1>2, <1>3
<1>4. CASE ~calls[1].given /\ ~calls[2].given
  <2>1. cut \in {"whole", "apart"}
    <3>1. DOMAIN calls = {1, 2}
      OBVIOUS
    <3>2. \A n \in DOMAIN calls : ~calls[n].given
      BY <1>4, <3>1
    <3> QED
      BY <3>2 DEF Cuts
  <2>2. CASE cut = "apart"
    <3>1. time(1) # time(2)
      BY <1>1, <2>2
    <3> HIDE DEF time, place
    <3> QED
      BY <1>2, <1>4, <3>1
  <2>3. CASE cut = "whole"
    <3>1. unnamed(1) = {} /\ unnamed(2) = {1}
      BY <1>4
    <3>2. Cardinality({}) = 0 /\ Cardinality({1}) = 1
      BY FS_EmptySet, FS_Singleton
    <3> HIDE DEF unnamed
    <3>3. place(1) # place(2)
      BY <2>3, <3>1, <3>2
    <3> HIDE DEF time, place
    <3> QED
      BY <1>2, <1>4, <3>3
  <2> QED
    BY <2>1, <2>2, <2>3
<1> QED
  BY <1>3, <1>4

\* What the adapter for Gemini makes of an answer.
LEMMA ExtractedCalls ==
    ASSUME said \in Seq(Answers), CallAssumption,
           NEW calls \in UpToTwo(GeminiCalls), NEW cut \in Cuts
    PROVE  LET got == Distinct(Extracted(calls, cut))
               clash == cut = "together" /\ \A n \in DOMAIN calls : ~calls[n].given
           IN /\ got \in Seq(HistoryCalls) /\ (got = <<>> <=> calls = <<>>)
              /\ (Len(calls) < 2 => cut = "whole") /\ ~clash
                    => Faithful(calls, got, Len(said) + 1)
<1> DEFINE raw == Extracted(calls, cut)
           got == Distinct(raw)
           k == Len(said) + 1
           clash == cut = "together" /\ \A n \in DOMAIN calls : ~calls[n].given
<1>1. calls \in Seq(AllCalls) /\ Len(calls) \in {0, 1, 2}
  <2>1. calls \in Seq(GeminiCalls) /\ Len(calls) \in {0, 1, 2}
    BY UpToTwoType
  <2>2. \A s \in Seq(GeminiCalls) : s \in Seq(AllCalls)
    BY DEF AllCalls
  <2> QED
    BY <2>1, <2>2
<1>2. k \in Nat /\ k # 0
  OBVIOUS
<1>3. ASSUME NEW n \in DOMAIN calls
      PROVE  /\ raw[n] \in HistoryCalls /\ raw[n].id = IdOf(calls, n, cut)
             /\ raw[n].name = calls[n].name /\ raw[n].sig = calls[n].sig
             /\ calls[n].args = "object" => raw[n].args = "object"
             /\ raw[n].id \in IdsOf(k)
  <2>1. raw[n] = [id |-> IdOf(calls, n, cut), name |-> calls[n].name,
                  args |-> NormalizeArgs(calls[n].args), sig |-> calls[n].sig]
    BY <1>3 DEF Extracted
  <2>2. calls[n] \in AllCalls
    BY <1>1, <1>3
  <2>3. calls[n].name \in Names /\ calls[n].sig \in Sigs /\ calls[n].args \in Arguments
    BY <2>2, CallType
  <2>4. IdOf(calls, n, cut) \in IdsOf(k)
    BY <1>1, <1>3, IdOfType
  <2>5. IdOf(calls, n, cut) \in Ids
    BY <1>2, <2>4, IdsOfType
  <2>6. /\ NormalizeArgs(calls[n].args) \in Arguments
        /\ calls[n].args = "object" => NormalizeArgs(calls[n].args) = "object"
    BY <2>3 DEF NormalizeArgs, Arguments, Absent
  <2> QED
    BY <2>1, <2>3, <2>4, <2>5, <2>6 DEF HistoryCalls
<1>4. DOMAIN raw = DOMAIN calls
  BY DEF Extracted
<1> HIDE DEF raw
<1>5. raw \in Seq(HistoryCalls) /\ Len(raw) = Len(calls)
  <2>1. raw \in [1..Len(calls) -> HistoryCalls]
    <3>1. raw = [n \in DOMAIN calls |-> raw[n]]
      BY DEF raw, Extracted
    <3>2. DOMAIN calls = 1..Len(calls)
      BY <1>1
    <3> QED
      BY <1>3, <3>1, <3>2
  <2> QED
    BY <1>1, <2>1
<1>6. got \in Seq(HistoryCalls) /\ (got = <<>> <=> raw = <<>>)
  <2>1. got = raw \/ (Len(raw) = 2 /\ got = <<raw[1]>>)
    BY DEF Distinct
  <2> HIDE DEF got
  <2>2. CASE Len(raw) = 2 /\ got = <<raw[1]>>
    <3>1. raw[1] \in HistoryCalls /\ raw # <<>>
      BY <1>5, <2>2
    <3> QED
      BY <2>2, <3>1
  <2> QED
    BY <1>5, <2>1, <2>2
<1>7. raw = <<>> <=> calls = <<>>
  BY <1>1, <1>5
<1>8. ASSUME Len(calls) < 2 => cut = "whole", ~clash
      PROVE  Faithful(calls, got, k)
  <2>1. ASSUME Len(calls) = 2
        PROVE  raw[1].id # raw[2].id
    BY <1>1, <1>3, <1>8, <2>1, IdOfDiffers
  <2>2. got = raw
    <3>1. ASSUME Len(raw) = 2
          PROVE  [raw[1] EXCEPT !.sig = raw[2].sig] # raw[2]
      <4>1. raw[1] \in HistoryCalls /\ raw[1].id # raw[2].id
        BY <1>5, <2>1, <3>1
      <4>2. [raw[1] EXCEPT !.sig = raw[2].sig].id = raw[1].id
        BY <4>1 DEF HistoryCalls
      <4> QED
        BY <4>1, <4>2
    <3> QED
      BY <3>1 DEF Distinct
  <2>3. ASSUME NEW n \in DOMAIN raw, NEW m \in DOMAIN raw, raw[n].id = raw[m].id
        PROVE  n = m
    <3> DEFINE length == Len(calls)
    <3>1. length \in {0, 1, 2} /\ n \in 1..length /\ m \in 1..length
      BY <1>1, <1>4
    <3> HIDE DEF length
    <3>2. n = m \/ (length = 2 /\ n = 1 /\ m = 2) \/ (length = 2 /\ n = 2 /\ m = 1)
      BY <3>1
    <3> QED
      BY <2>1, <2>3, <3>2 DEF length
  <2> HIDE DEF got
  <2> QED
    BY <1>3, <1>4, <1>5, <2>2, <2>3 DEF Faithful
<1> HIDE DEF got, clash
<1>9. /\ got \in Seq(HistoryCalls) /\ (got = <<>> <=> calls = <<>>)
      /\ (Len(calls) < 2 => cut = "whole") /\ ~clash => Faithful(calls, got, k)
  BY <1>6, <1>7, <1>8
<1> QED
  BY <1>9 DEF raw, got, clash, k

\* What comes of the answer of another model.
LEMMA PassedCalls ==
    ASSUME said \in Seq(Answers), CallAssumption, NEW calls \in UpToTwo(OtherCalls)
    PROVE  LET got == [n \in DOMAIN calls |->
                        [id |-> <<"given", Len(said), n>>, name |-> calls[n].name,
                         args |-> calls[n].args, sig |-> calls[n].sig]]
           IN /\ got \in Seq(HistoryCalls) /\ (got = <<>> <=> calls = <<>>)
              /\ Faithful(calls, got, Len(said) + 1)
<1> DEFINE got == [n \in DOMAIN calls |->
                    [id |-> <<"given", Len(said), n>>, name |-> calls[n].name,
                     args |-> calls[n].args, sig |-> calls[n].sig]]
           k == Len(said) + 1
<1>1. calls \in Seq(AllCalls)
  <2>1. calls \in Seq(OtherCalls)
    BY UpToTwoType
  <2>2. \A s \in Seq(OtherCalls) : s \in Seq(AllCalls)
    BY DEF AllCalls
  <2> QED
    BY <2>1, <2>2
<1>2. k \in Nat /\ k # 0 /\ Len(said) = k - 1
  OBVIOUS
<1>3. ASSUME NEW n \in DOMAIN calls
      PROVE  /\ got[n] \in HistoryCalls /\ got[n].id = <<"given", Len(said), n>>
             /\ got[n].name = calls[n].name /\ got[n].sig = calls[n].sig
             /\ got[n].args = calls[n].args
             /\ got[n].id \in IdsOf(k)
  <2>1. calls[n] \in AllCalls /\ n \in Nat
    BY <1>1, <1>3
  <2>2. calls[n].name \in Names /\ calls[n].sig \in Sigs /\ calls[n].args \in Arguments
    BY <2>1, CallType
  <2>3. <<"given", Len(said), n>> \in IdsOf(k)
    BY <1>2, <2>1 DEF IdsOf
  <2>4. <<"given", Len(said), n>> \in Ids
    BY <1>2, <2>3, IdsOfType
  <2> QED
    BY <2>2, <2>3, <2>4 DEF HistoryCalls
<1>4. DOMAIN got = DOMAIN calls
  OBVIOUS
<1>5. got \in Seq(HistoryCalls) /\ Len(got) = Len(calls)
  <2>1. got \in [1..Len(calls) -> HistoryCalls]
    <3>1. DOMAIN calls = 1..Len(calls)
      BY <1>1
    <3> QED
      BY <1>3, <3>1
  <2> HIDE DEF got
  <2> QED
    BY <1>1, <2>1
<1>6. \A n, m \in DOMAIN got : got[n].id = got[m].id => n = m
  OBVIOUS
<1> HIDE DEF got
<1>7. Faithful(calls, got, k)
  BY <1>3, <1>4, <1>5, <1>6 DEF Faithful
<1>8. got = <<>> <=> calls = <<>>
  BY <1>1, <1>5
<1> QED
  BY <1>5, <1>7, <1>8 DEF got

-----------------------------------------------------------------------------
(* ToolChat: steps, and the theorems.                                       *)

LEMMA Longer ==
    ASSUME history \in Seq(Messages), NEW m, history' = Append(history, m)
    PROVE  /\ DOMAIN history' = DOMAIN history \cup {Len(history) + 1}
           /\ DOMAIN history = 1..Len(history) /\ Len(history) \in Nat
           /\ \A i \in DOMAIN history : history'[i] = history[i]
           /\ history'[Len(history) + 1] = m
OBVIOUS

\* Calls that have been made stay where they are.
LEMMA CallsStay ==
    ASSUME history \in Seq(Messages), NEW m, history' = Append(history, m),
           NEW p \in CallsIn(history)
    PROVE  /\ p \in CallsIn(history') /\ history'[p[1]] = history[p[1]]
           /\ p[1] \in DOMAIN history /\ p[2] \in DOMAIN history[p[1]].calls
<1>1. PICK i \in DOMAIN history : \E n \in DOMAIN history[i].calls : p = <<i, n>>
  BY CallPlaces
<1>2. PICK n \in DOMAIN history[i].calls : p = <<i, n>>
  BY <1>1
<1>3. i \in DOMAIN history' /\ history'[i] = history[i]
  BY Longer
<1>4. p[1] = i /\ p[2] = n
  BY <1>2
<1> QED
  BY <1>2, <1>3, <1>4, CallPlaces

\* A message that is appended leaves the results where they were, and one that is a
\* result is that of a call before it.
LEMMA ResultsStay ==
    ASSUME history \in Seq(Messages), ResultsPlaced, NEW m, history' = Append(history, m),
           m.role = "tool" =>
                \E p \in CallsIn(history) : ResultOf(m, history[p[1]].calls[p[2]])
    PROVE  ResultsPlaced'
<1> SUFFICES ASSUME NEW j \in DOMAIN history', history'[j].role = "tool"
             PROVE  \E p \in CallsIn(history') :
                        p[1] < j /\ ResultOf(history'[j], history'[p[1]].calls[p[2]])
  BY DEF ResultsPlaced
<1>1. CASE j \in DOMAIN history
  <2>1. history'[j] = history[j]
    BY <1>1, Longer
  <2>2. PICK p \in CallsIn(history) :
                p[1] < j /\ ResultOf(history[j], history[p[1]].calls[p[2]])
    BY <1>1, <2>1 DEF ResultsPlaced
  <2> QED
    BY <2>1, <2>2, CallsStay
<1>2. CASE j = Len(history) + 1
  <2>1. history'[j] = m
    BY <1>2, Longer
  <2>2. PICK p \in CallsIn(history) : ResultOf(m, history[p[1]].calls[p[2]])
    BY <2>1
  <2>3. p[1] < j
    BY <1>2, CallsStay, Longer
  <2> QED
    BY <2>1, <2>2, <2>3, CallsStay
<1> QED
  BY <1>1, <1>2, Longer

LEMMA CallersStay ==
    ASSUME history \in Seq(Messages), OnlyModelsCall, NEW m, history' = Append(history, m),
           m.role # "assistant" => m.calls = <<>>
    PROVE  OnlyModelsCall'
BY Longer DEF OnlyModelsCall

\* What the client adds by itself, which is no answer, and only when it has no request
\* under way.
LEMMA ClientAdds ==
    ASSUME ChatInv, NEW m \in Messages, m.role \in {"user", "tool"}, m.calls = <<>>,
           m.role = "tool" =>
                \E p \in CallsIn(history) : ResultOf(m, history[p[1]].calls[p[2]]),
           history' = Append(history, m), stage = "client",
           UNCHANGED <<naming, stage, request, said>>
    PROVE  ChatInv'
<1>1. history \in Seq(Messages)
  BY DEF ChatInv, ChatTypeOK
<1>2. ChatTypeOK'
  BY DEF ChatInv, ChatTypeOK
<1>3. ResultsPlaced'
  BY <1>1, ResultsStay DEF ChatInv
<1>4. OnlyModelsCall'
  BY <1>1, CallersStay DEF ChatInv
<1>5. AnswersPlaced'
  <2>1. PICK at \in [DOMAIN said -> DOMAIN history] : Placed(at)
    BY DEF ChatInv, AnswersPlaced
  <2>2. at \in [DOMAIN said' -> DOMAIN history']
    BY <1>1, Longer
  <2>3. NoClash' <=> NoClash
    BY DEF NoClash
  <2>4. /\ \A i \in DOMAIN history' :
                i \in DOMAIN history \/ history'[i].role # "assistant"
        /\ \A i \in DOMAIN history : history'[i] = history[i]
    BY <1>1, Longer
  <2>5. Placed(at)'
    BY <2>1, <2>3, <2>4 DEF Placed
  <2> QED
    BY <2>2, <2>5 DEF AnswersPlaced
<1>6. RequestMade'
  BY DEF ChatInv, RequestMade, Absent
<1>7. AllAccepted' /\ RefusedForCause'
  <2>1. Accepted(m)
    BY DEF Accepted
  <2>2. AllAccepted'
    BY <1>1, <2>1, Longer DEF ChatInv, AllAccepted
  <2> QED
    BY <2>2 DEF RefusedForCause
<1> QED
  BY <1>2, <1>3, <1>4, <1>5, <1>6, <1>7 DEF ChatInv

LEMMA NothingType ==
    /\ NoCallId \in Ids /\ Absent \in Names /\ NotRun \in Nat \X Names
    /\ <<>> \in Seq(HistoryCalls)
<1>1. NoCallId \in Ids
  BY DEF NoCallId, Ids
<1>2. Absent \in Names
  BY DEF Names
<1>3. NotRun \in Nat \X Names
  BY <1>2 DEF NotRun
<1>4. <<>> \in Seq(HistoryCalls)
  OBVIOUS
<1> QED
  BY <1>1, <1>2, <1>3, <1>4

LEMMA SpeakPreserves ==
    ASSUME BoundAssumption, ChatInv, Speak
    PROVE  ChatInv'
<1>1. PICK f \in UserForms :
            history' = Append(history, Message("user", f, <<>>, NoCallId, Absent, NotRun))
  BY DEF Speak
<1> DEFINE m == Message("user", f, <<>>, NoCallId, Absent, NotRun)
<1>2. f \in Forms
  BY DEF BoundAssumption
<1>3. m \in Messages /\ m.role = "user" /\ m.calls = <<>>
  <2>1. /\ NoCallId \in Ids /\ Absent \in Names /\ NotRun \in Nat \X Names
        /\ <<>> \in Seq(HistoryCalls)
    BY NothingType
  <2> QED
    BY <1>2, <2>1 DEF Message, Messages
<1>4. history' = Append(history, m) /\ stage = "client"
      /\ UNCHANGED <<naming, stage, request, said>>
  BY <1>1 DEF Speak
<1> HIDE DEF m
<1> QED
  BY <1>3, <1>4, ClientAdds

LEMMA RunToolPreserves ==
    ASSUME ChatInv, RunTool
    PROVE  ChatInv'
<1> DEFINE a == CHOOSE i \in Asking : \A j \in Asking : j <= i
<1>1. PICK n \in Unanswered :
            LET c == history[a].calls[n]
            IN history' = Append(history, Message("tool", "string", <<>>, c.id,
                                            IF naming THEN c.name ELSE Absent, <<n, c.name>>))
  BY DEF RunTool
<1> DEFINE c == history[a].calls[n]
           name == IF naming THEN c.name ELSE Absent
           m == Message("tool", "string", <<>>, c.id, name, <<n, c.name>>)
<1>2. ChatTypeOK /\ history \in Seq(Messages)
  BY DEF ChatInv, ChatTypeOK
<1>3. Asking # {} /\ n \in DOMAIN history[a].calls
  BY DEF Unanswered
<1>4. a \in DOMAIN history
  <2>1. IsFiniteSet(Asking) /\ Asking \subseteq Int
    <3>1. Asking \in SUBSET (1..Len(history)) /\ IsFiniteSet(1..Len(history))
      <4>1. Len(history) \in Int
        BY <1>2
      <4>2. IsFiniteSet(1..Len(history))
        BY <4>1, FS_Interval
      <4> QED
        BY <1>2, <4>2 DEF Asking
    <3>2. IsFiniteSet(Asking)
      BY <3>1, FS_Subset
    <3> QED
      BY <3>1, <3>2
  <2>2. \E i \in Asking : \A j \in Asking : j <= i
    BY <1>3, <2>1, GreatestElement
  <2>3. a \in Asking
    BY <2>2
  <2> QED
    BY <2>3 DEF Asking
<1> HIDE DEF a
<1>5. c \in HistoryCalls /\ n \in Nat
  BY <1>2, <1>3, <1>4, Typed
<1>6. c.id \in Ids /\ c.name \in Names /\ name \in Names /\ <<n, c.name>> \in Nat \X Names
  BY <1>5, NothingType DEF HistoryCalls
<1>7. <<a, n>> \in CallsIn(history)
  BY <1>3, <1>4, CallPlaces
<1>8. history' = Append(history, m) /\ stage = "client"
      /\ UNCHANGED <<naming, stage, request, said>>
  BY <1>1 DEF RunTool
<1> HIDE DEF name
<1>9. /\ m \in Messages /\ m.role = "tool" /\ m.calls = <<>>
      /\ m.id = c.id /\ m.name = name /\ m.ran = <<n, c.name>>
  <2>1. "string" \in Forms /\ <<>> \in Seq(HistoryCalls)
    BY NothingType DEF Forms
  <2> DEFINE ran == <<n, c.name>>
             id == c.id
  <2>2. id \in Ids /\ ran \in Nat \X Names
    BY <1>6
  <2>3. m = Message("tool", "string", <<>>, id, name, ran)
    OBVIOUS
  <2> HIDE DEF c, ran, id, m
  <2>4. /\ m \in Messages /\ m.role = "tool" /\ m.calls = <<>>
        /\ m.id = id /\ m.name = name /\ m.ran = ran
    BY <1>6, <2>1, <2>2, <2>3 DEF Message, Messages
  <2> QED
    BY <2>4 DEF id, ran
<1>10. ResultOf(m, c)
  <2> HIDE DEF m, c
  <2> QED
    BY <1>9 DEF ResultOf, name
<1>11. \E p \in CallsIn(history) : ResultOf(m, history[p[1]].calls[p[2]])
  <2> DEFINE p == <<a, n>>
  <2>1. history[p[1]].calls[p[2]] = c
    OBVIOUS
  <2> QED
    BY <1>7, <1>10, <2>1
<1> HIDE DEF m
<1> QED
  BY <1>8, <1>9, <1>11, ClientAdds

\* An answer takes its place, whoever gives it.
LEMMA ReplyPreserves ==
    ASSUME BoundAssumption, ChatInv, Len(said) < MaxAnswers,
           NEW form \in Forms, NEW got \in Seq(HistoryCalls), NEW told \in Answers,
           ~told.clash => Faithful(told.calls, got, Len(said) + 1),
           told.mute # "no" \/ HasNonEmptyContent(form) \/ got # <<>>,
           Reply(form, got, told)
    PROVE  ChatInv'
<1> DEFINE m == Message("assistant", form, got, NoCallId, Absent, NotRun)
           K == Len(said) + 1
<1>1. /\ history \in Seq(Messages) /\ said \in Seq(Answers)
      /\ ChatTypeOK /\ AnswersPlaced /\ OnlyModelsCall /\ ResultsPlaced /\ AllAccepted
  BY DEF ChatInv, ChatTypeOK
<1>2. /\ history' = Append(history, m) /\ said' = Append(said, told)
      /\ stage' = "client" /\ request' = NoRequest /\ naming' = naming
  BY DEF Reply
<1>3. m \in Messages /\ m.role = "assistant" /\ m.form = form /\ m.calls = got
  <2>1. /\ NoCallId \in Ids /\ Absent \in Names /\ NotRun \in Nat \X Names
    BY NothingType
  <2> QED
    BY <2>1 DEF Message, Messages
<1> HIDE DEF m
<1>4. ChatTypeOK'
  <2>1. history' \in Seq(Messages)
    BY <1>1, <1>2, <1>3
  <2>2. said' \in Seq(Answers) /\ Len(said') <= MaxAnswers
    <3>1. Len(said) \in Nat /\ Len(said') = Len(said) + 1 /\ MaxAnswers \in Nat
      BY <1>1, <1>2 DEF BoundAssumption
    <3> QED
      BY <1>1, <1>2, <3>1
  <2>3. request'.to = Absent
    BY <1>2 DEF NoRequest
  <2> QED
    BY <1>1, <1>2, <2>1, <2>2, <2>3 DEF ChatTypeOK
<1>5. ResultsPlaced'
  BY <1>1, <1>2, <1>3, ResultsStay
<1>6. OnlyModelsCall'
  BY <1>1, <1>2, <1>3, CallersStay
\* The answers: those before it stay where they were.
<1>7. /\ DOMAIN said' = DOMAIN said \cup {K} /\ DOMAIN said = 1..Len(said) /\ Len(said) \in Nat
      /\ \A k \in DOMAIN said : said'[k] = said[k]
      /\ said'[K] = told
  BY <1>1, <1>2
<1>8. AnswersPlaced'
  <2>1. PICK at \in [DOMAIN said -> DOMAIN history] : Placed(at)
    BY <1>1 DEF AnswersPlaced
  <2> DEFINE H == Len(history) + 1
  <2>2. PICK new : new = [k \in DOMAIN said' |-> IF k = K THEN H ELSE at[k]]
    OBVIOUS
  <2>3. /\ DOMAIN history' = DOMAIN history \cup {H} /\ DOMAIN history = 1..Len(history)
        /\ Len(history) \in Nat
        /\ \A i \in DOMAIN history : history'[i] = history[i]
        /\ history'[H] = m
    BY <1>1, <1>2, Longer
  <2>4. /\ \A k \in DOMAIN said : k # K /\ at[k] \in DOMAIN history /\ new[k] = at[k]
        /\ new[K] = H
    BY <1>7, <2>1, <2>2
  <2>5. new \in [DOMAIN said' -> DOMAIN history']
    BY <1>7, <2>1, <2>3, <2>2
  <2>6. \A i \in DOMAIN history : i < H
    BY <2>3
  <2>7. \A k \in DOMAIN said : k < K
    BY <1>7
  <2> HIDE DEF H, K
  <2>8. ASSUME NEW k \in DOMAIN said', NEW l \in DOMAIN said', k < l
        PROVE  new[k] < new[l]
    <3>1. k \in DOMAIN said
      <4>1. k # K
        <5> SUFFICES ASSUME k = K PROVE FALSE
          OBVIOUS
        <5>1. l # K /\ l \in DOMAIN said
          BY <1>7, <2>8 DEF K
        <5>2. l < K /\ K < l /\ l \in Int /\ K \in Int
          BY <1>7, <2>7, <2>8, <5>1 DEF K
        <5> QED
          BY <5>2
      <4> QED
        BY <1>7, <4>1
    <3>2. CASE l = K
      BY <2>4, <2>6, <3>1, <3>2
    <3>3. CASE l \in DOMAIN said
      BY <2>1, <2>4, <2>8, <3>1, <3>3 DEF Placed
    <3> QED
      BY <1>7, <3>2, <3>3
  <2>9. ASSUME NEW k \in DOMAIN said'
        PROVE  history'[new[k]].role = "assistant"
    <3>1. CASE k = K
      BY <1>3, <2>3, <2>4, <3>1
    <3>2. CASE k \in DOMAIN said
      BY <2>1, <2>3, <2>4, <3>2 DEF Placed
    <3> QED
      BY <1>7, <3>1, <3>2
  <2>10. ASSUME NEW i \in DOMAIN history', history'[i].role = "assistant"
        PROVE  \E k \in DOMAIN said' : new[k] = i
    <3>1. CASE i = H
      BY <1>7, <2>4, <3>1
    <3>2. CASE i \in DOMAIN history
      <4>1. PICK k \in DOMAIN said : at[k] = i
        BY <2>1, <2>3, <2>10, <3>2 DEF Placed
      <4> QED
        BY <1>7, <2>4, <4>1
    <3> QED
      BY <2>3, <3>1, <3>2
  <2>11. ASSUME NoClash'
         PROVE  \A k \in DOMAIN said' : Faithful(said'[k].calls, history'[new[k]].calls, k)
    <3>1. NoClash /\ ~told.clash
      BY <1>7, <2>11 DEF NoClash
    <3>2. ASSUME NEW k \in DOMAIN said
          PROVE  Faithful(said'[k].calls, history'[new[k]].calls, k)
      <4>1. Faithful(said[k].calls, history[at[k]].calls, k)
        BY <2>1, <3>1 DEF Placed
      <4> QED
        BY <1>7, <2>3, <2>4, <4>1
    <3>3. Faithful(said'[K].calls, history'[new[K]].calls, K)
      <4>1. Faithful(told.calls, got, K)
        BY <3>1 DEF K
      <4> QED
        BY <1>3, <1>7, <2>3, <2>4, <4>1
    <3> QED
      BY <1>7, <3>2, <3>3
  <2>12. Placed(new)'
    BY <2>8, <2>9, <2>10, <2>11 DEF Placed
  <2> QED
    BY <2>5, <2>12 DEF AnswersPlaced
<1>9. RequestMade' /\ RefusedForCause'
  BY <1>2 DEF RequestMade, RefusedForCause, NoRequest, Absent
<1>10. AllAccepted'
  <2>1. CASE \E i \in DOMAIN said : said[i].mute # "no"
    BY <1>7, <2>1 DEF AllAccepted
  <2>2. CASE told.mute # "no"
    BY <1>7, <2>2 DEF AllAccepted
  <2>3. CASE (\A i \in DOMAIN history : Accepted(history[i])) /\ told.mute = "no"
    <3>1. Accepted(m)
      BY <1>3, <2>3 DEF Accepted
    <3> QED
      BY <1>1, <1>2, <2>3, <3>1, Longer DEF AllAccepted
  <2> QED
    BY <1>1, <2>1, <2>2, <2>3 DEF AllAccepted
<1> QED
  BY <1>4, <1>5, <1>6, <1>8, <1>9, <1>10 DEF ChatInv

LEMMA GeminiPreserves ==
    ASSUME BoundAssumption, CallAssumption, ChatInv, AnswerByGemini
    PROVE  ChatInv'
<1>1. PICK text \in BOOLEAN, calls \in UpToTwo(GeminiCalls), cut \in Cuts :
        /\ Len(calls) < 2 => cut = "whole"
        /\ Reply(IF text THEN "string" ELSE "null", Distinct(Extracted(calls, cut)),
                 Told(calls, cut = "together" /\ \A n \in DOMAIN calls : ~calls[n].given,
                      IF text \/ calls # <<>> THEN "no" ELSE "silent"))
  BY DEF AnswerByGemini
<1> DEFINE form == IF text THEN "string" ELSE "null"
           got == Distinct(Extracted(calls, cut))
           clash == cut = "together" /\ \A n \in DOMAIN calls : ~calls[n].given
           mute == IF text \/ calls # <<>> THEN "no" ELSE "silent"
           told == Told(calls, clash, mute)
<1>2. said \in Seq(Answers) /\ Len(said) < MaxAnswers
  BY DEF ChatInv, ChatTypeOK, AnswerByGemini
<1>3. /\ got \in Seq(HistoryCalls) /\ (got = <<>> <=> calls = <<>>)
      /\ ~clash => Faithful(calls, got, Len(said) + 1)
  BY <1>1, <1>2, ExtractedCalls
<1>4. calls \in Seq(AllCalls)
  <2>1. calls \in Seq(GeminiCalls)
    BY UpToTwoType
  <2>2. \A s \in Seq(GeminiCalls) : s \in Seq(AllCalls)
    BY DEF AllCalls
  <2> QED
    BY <2>1, <2>2
<1>5. form \in Forms /\ (text => HasNonEmptyContent(form))
  BY DEF Forms, HasNonEmptyContent
<1>6. Reply(form, got, told)
  BY <1>1
<1>7. clash \in BOOLEAN /\ mute \in Mutes
  BY DEF Mutes
<1>8. mute # "no" \/ HasNonEmptyContent(form) \/ got # <<>>
  <2> HIDE DEF form, got
  <2> QED
    BY <1>3, <1>5
<1> HIDE DEF clash, mute
<1>9. told \in Answers /\ told.calls = calls /\ told.clash = clash /\ told.mute = mute
  BY <1>4, <1>7 DEF Told, Answers
<1> HIDE DEF form, got, told
<1> QED
  BY <1>2, <1>3, <1>5, <1>6, <1>8, <1>9, ReplyPreserves

LEMMA OtherPreserves ==
    ASSUME BoundAssumption, CallAssumption, ChatInv, AnswerByOther
    PROVE  ChatInv'
<1>1. PICK raw \in {"string", "blocks", "null"}, calls \in UpToTwo(OtherCalls),
           reasoned \in BOOLEAN, stream \in BOOLEAN, compat \in BOOLEAN :
        Reply(IF compat /\ ~stream THEN Folded(raw, calls, reasoned) ELSE raw,
              [n \in DOMAIN calls |-> [id |-> <<"given", Len(said), n>>, name |-> calls[n].name,
                                       args |-> calls[n].args, sig |-> calls[n].sig]],
              Told(calls, FALSE, IF raw # "null" \/ calls # <<>> THEN "no"
                                 ELSE WhyMute(reasoned, stream, compat)))
  BY DEF AnswerByOther
<1> DEFINE form == IF compat /\ ~stream THEN Folded(raw, calls, reasoned) ELSE raw
           got == [n \in DOMAIN calls |->
                    [id |-> <<"given", Len(said), n>>, name |-> calls[n].name,
                     args |-> calls[n].args, sig |-> calls[n].sig]]
           mute == IF raw # "null" \/ calls # <<>> THEN "no"
                   ELSE WhyMute(reasoned, stream, compat)
           told == Told(calls, FALSE, mute)
<1>2. said \in Seq(Answers) /\ Len(said) < MaxAnswers
  BY DEF ChatInv, ChatTypeOK, AnswerByOther
<1>3. /\ got \in Seq(HistoryCalls) /\ (got = <<>> <=> calls = <<>>)
      /\ Faithful(calls, got, Len(said) + 1)
  BY <1>2, PassedCalls
<1>4. calls \in Seq(AllCalls)
  <2>1. calls \in Seq(OtherCalls)
    BY UpToTwoType
  <2>2. \A s \in Seq(OtherCalls) : s \in Seq(AllCalls)
    BY DEF AllCalls
  <2> QED
    BY <2>1, <2>2
<1>5. /\ Folded(raw, calls, reasoned) \in {"string", "null"}
      /\ raw # "null" \/ (calls = <<>> /\ reasoned)
            => Folded(raw, calls, reasoned) = "string"
  <2>1. CASE raw = "string"
    BY <2>1 DEF Folded
  <2>2. CASE raw = "blocks"
    BY <2>2 DEF Folded
  <2>3. CASE raw = "null" /\ calls = <<>> /\ reasoned
    BY <2>3 DEF Folded
  <2>4. CASE raw = "null" /\ ~(calls = <<>> /\ reasoned)
    BY <2>4 DEF Folded
  <2> QED
    BY <2>1, <2>2, <2>3, <2>4
<1>6. form \in Forms
  BY <1>5 DEF Forms
<1>7. mute # "no" \/ HasNonEmptyContent(form) \/ calls # <<>>
  BY <1>5 DEF HasNonEmptyContent, WhyMute
<1>8. Reply(form, got, told)
  BY <1>1
<1>9. mute \in Mutes
  BY DEF Mutes, WhyMute
<1> HIDE DEF mute
<1>10. told \in Answers /\ told.calls = calls /\ told.clash = FALSE /\ told.mute = mute
  BY <1>4, <1>9 DEF Told, Answers
<1> HIDE DEF form, got, told
<1> QED
  BY <1>2, <1>3, <1>6, <1>7, <1>8, <1>10, ReplyPreserves

LEMMA AskPreserves ==
    ASSUME ChatInv, Ask
    PROVE  ChatInv'
<1>1. UNCHANGED <<history, naming, request, said>> /\ stage = "client"
      /\ stage' = IF \A i \in DOMAIN history : Accepted(history[i]) THEN "asked" ELSE "refused"
  BY DEF Ask
<1>2. ChatTypeOK'
  BY <1>1 DEF ChatInv, ChatTypeOK
<1>3. AnswersPlaced'
  BY <1>1 DEF ChatInv, AnswersPlaced, Placed, NoClash
<1>4. OnlyModelsCall' /\ ResultsPlaced'
  BY <1>1 DEF ChatInv, OnlyModelsCall, ResultsPlaced
<1>5. RequestMade'
  BY <1>1 DEF ChatInv, RequestMade, Absent
<1>6. AllAccepted' /\ RefusedForCause'
  BY <1>1 DEF ChatInv, AllAccepted, RefusedForCause
<1> QED
  BY <1>2, <1>3, <1>4, <1>5, <1>6 DEF ChatInv

LEMMA RoutePreserves ==
    ASSUME ChatInv, NEW p \in {"google", "other"}, RouteTo(p)
    PROVE  ChatInv'
<1>1. /\ UNCHANGED <<history, naming, stage, said>> /\ stage = "asked"
      /\ request' = [to |-> p,
                     turns |-> IF p = "google" THEN Contents(history) ELSE Forwarded(history)]
  BY DEF RouteTo
<1>2. ChatTypeOK'
  <2>1. request'.to \in {Absent, "google", "other"}
    BY <1>1
  <2> QED
    BY <1>1, <2>1 DEF ChatInv, ChatTypeOK
<1>3. AnswersPlaced'
  BY <1>1 DEF ChatInv, AnswersPlaced, Placed, NoClash
<1>4. OnlyModelsCall' /\ ResultsPlaced'
  BY <1>1 DEF ChatInv, OnlyModelsCall, ResultsPlaced
<1>5. RequestMade'
  <2>1. p = "google" => request'.turns = Contents(history)
    BY <1>1
  <2>2. request'.to = p
    BY <1>1
  <2>3. Contents(history)' = Contents(history)
    BY <1>1
  <2> QED
    BY <1>1, <2>1, <2>2, <2>3 DEF RequestMade
<1>6. AllAccepted' /\ RefusedForCause'
  BY <1>1 DEF ChatInv, AllAccepted, RefusedForCause
<1> QED
  BY <1>2, <1>3, <1>4, <1>5, <1>6 DEF ChatInv

LEMMA ChatStutters ==
    ASSUME ChatInv, UNCHANGED chatVars
    PROVE  ChatInv'
<1>1. UNCHANGED <<history, naming, stage, request, said>>
  BY DEF chatVars
<1>2. ChatTypeOK'
  BY <1>1 DEF ChatInv, ChatTypeOK
<1>3. AnswersPlaced'
  BY <1>1 DEF ChatInv, AnswersPlaced, Placed, NoClash
<1>4. OnlyModelsCall' /\ ResultsPlaced'
  BY <1>1 DEF ChatInv, OnlyModelsCall, ResultsPlaced
<1>5. RequestMade' /\ AllAccepted' /\ RefusedForCause'
  BY <1>1 DEF ChatInv, RequestMade, AllAccepted, RefusedForCause
<1> QED
  BY <1>2, <1>3, <1>4, <1>5 DEF ChatInv

LEMMA ChatStarts ==
    ASSUME BoundAssumption, ChatInit
    PROVE  ChatInv
<1> DEFINE m == Message("system", "string", <<>>, NoCallId, Absent, NotRun)
<1>1. m \in Messages /\ m.role = "system" /\ m.calls = <<>>
  <2>1. /\ NoCallId \in Ids /\ Absent \in Names /\ NotRun \in Nat \X Names
        /\ <<>> \in Seq(HistoryCalls)
    BY NothingType
  <2>2. "string" \in Forms
    BY DEF Forms
  <2> QED
    BY <2>1, <2>2 DEF Message, Messages
<1>2. /\ history = <<>> \/ history = <<m>>
      /\ naming \in BOOLEAN /\ stage = "client" /\ request = NoRequest /\ said = <<>>
  BY DEF ChatInit
<1> HIDE DEF m
<1>3. history \in Seq(Messages) /\ \A i \in DOMAIN history : history[i] = m
  <2>1. CASE history = <<>>
    <3>1. <<>> \in Seq(Messages) /\ DOMAIN <<>> = {}
      OBVIOUS
    <3> QED
      BY <2>1, <3>1
  <2>2. CASE history = <<m>>
    <3>1. <<m>> \in Seq(Messages) /\ DOMAIN <<m>> = {1} /\ <<m>>[1] = m
      BY <1>1
    <3> QED
      BY <2>2, <3>1
  <2> QED
    BY <1>2, <2>1, <2>2
<1>4. said \in Seq(Answers) /\ Len(said) = 0 /\ DOMAIN said = {}
  <2>1. <<>> \in Seq(Answers)
    OBVIOUS
  <2> QED
    BY <1>2, <2>1
<1>5. request.to = Absent
  BY <1>2 DEF NoRequest
<1>6. ChatTypeOK
  BY <1>2, <1>3, <1>4, <1>5 DEF ChatTypeOK, BoundAssumption
<1>7. AnswersPlaced
  <2> DEFINE at == [k \in DOMAIN said |-> 1]
  <2>1. at \in [DOMAIN said -> DOMAIN history]
    BY <1>4
  <2>2. Placed(at)
    BY <1>1, <1>3, <1>4 DEF Placed
  <2> QED
    BY <2>1, <2>2 DEF AnswersPlaced
<1>8. OnlyModelsCall /\ ResultsPlaced
  BY <1>1, <1>3 DEF OnlyModelsCall, ResultsPlaced
<1>9. RequestMade /\ RefusedForCause
  BY <1>2, <1>5 DEF RequestMade, RefusedForCause, Absent
<1>10. AllAccepted
  BY <1>1, <1>3 DEF AllAccepted, Accepted
<1> QED
  BY <1>6, <1>7, <1>8, <1>9, <1>10 DEF ChatInv

LEMMA ChatStep ==
    ASSUME BoundAssumption, CallAssumption, ChatInv, [ChatNext]_chatVars
    PROVE  ChatInv'
<1>1. CASE Speak
  BY <1>1, SpeakPreserves
<1>2. CASE RunTool
  BY <1>2, RunToolPreserves
<1>3. CASE Ask
  BY <1>3, AskPreserves
<1>4. CASE \E p \in {"google", "other"} : RouteTo(p)
  BY <1>4, RoutePreserves
<1>5. CASE AnswerByGemini
  BY <1>5, GeminiPreserves
<1>6. CASE AnswerByOther
  BY <1>6, OtherPreserves
<1>7. CASE UNCHANGED chatVars
  BY <1>7, ChatStutters
<1> QED
  BY <1>1, <1>2, <1>3, <1>4, <1>5, <1>6, <1>7 DEF ChatNext

LEMMA ChatInvariant == ChatSpec => []ChatInv
<1>1. ChatInit => ChatInv
  BY BoundAssumption, ChatStarts
<1>2. ChatInv /\ [ChatNext]_chatVars => ChatInv'
  BY BoundAssumption, CallAssumption, ChatStep
<1> QED
  BY <1>1, <1>2, PTL DEF ChatSpec

\* A request to Gemini holds every call that has been made, with its signature:
\* toGeminiContents over a history that several models have had a part in.
THEOREM CallsComeBack == ChatSpec => []CallsReturned
<1>1. ChatInv => CallsReturned
  BY CallsMatch DEF ChatInv
<1> QED
  BY <1>1, ChatInvariant, PTL

\* It tells of every result which function it is of: toolNameByCallId.
THEOREM ResultsAreNamed == ChatSpec => []ResponsesNamed
<1>1. ChatInv => ResponsesNamed
  BY ResultsMatch DEF ChatInv
<1> QED
  BY <1>1, ChatInvariant, PTL

\* What the proxy has answered, its schema accepts as part of a history, unless a model
\* said nothing, or only reasoned where normalizeChoices does not apply.
THEOREM AnswersComeBack == ChatSpec => []AnswersAccepted
<1>1. ChatInv => AnswersAccepted
  BY RefusalCause DEF ChatInv
<1> QED
  BY <1>1, ChatInvariant, PTL
=================================================================================
