------------------------------- MODULE Order --------------------------------
(* Sequences by where each element belongs: sorting, and what a loop over a *)
(* slice keeps of it.                                                       *)
EXTENDS Integers, FiniteSets, Sequences

\* The elements of S, each after those that come before it.
InOrder(S, before) ==
    [k \in 1..Cardinality(S) |-> CHOOSE x \in S : Cardinality(before[x]) = k - 1]

\* The numbers of S from the least on.
Ascending(S) == InOrder(S, [k \in S |-> {j \in S : j < k}])

\* What s holds at some of its places, in the order of s.
Picked(s, places) ==
    LET at == Ascending(places) IN [n \in DOMAIN at |-> s[at[n]]]
=============================================================================
