-------------------------------- MODULE Lists --------------------------------
(* Lists as the code filters them. *)
EXTENDS Integers, Sequences, FiniteSets

\* Where the elements that pass are, and how many of them are met up to one.
Passing(s, S) == {i \in 1 .. Len(s) : s[i] \in S}
Place(s, S, i) == Cardinality({j \in Passing(s, S) : j <= i})

\* The elements of s that are in S, in their order: Array.filter() and the loops
\* that keep what passes a test.
Filter(s, S) ==
    [k \in 1 .. Cardinality(Passing(s, S)) |-> s[CHOOSE i \in Passing(s, S) : Place(s, S, i) = k]]
=============================================================================
