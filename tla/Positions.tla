------------------------------ MODULE Positions ------------------------------
(* Filters of sequences and orders of places, stated by positions.          *)
EXTENDS Integers, Sequences, FiniteSets

\* The n-th of a set of numbers.
Nth(S, n) == CHOOSE i \in S : Cardinality({j \in S : j <= i}) = n

\* The elements of s at the positions of S, in order: a filter.
At(s, S) == [n \in 1..Cardinality(S) |-> s[Nth(S, n)]]

\* Places in a sequence of sequences, in the order of reading.
Before(p, q) == p[1] < q[1] \/ (p[1] = q[1] /\ p[2] < q[2])

\* The ways to map A onto B in order: at most one.
Matchings(A, B) ==
    {f \in [A -> B] : /\ \A p, q \in A : Before(p, q) => Before(f[p], f[q])
                      /\ \A b \in B : \E a \in A : f[a] = b}
=============================================================================
