-------------------------------- MODULE Lists --------------------------------
(***************************************************************************)
(* What sort() and filter() of the standard library return: an entry has   *)
(* as many entries before it as are to stand before it.  SortSeq and       *)
(* SelectSeq return the same, but proofs cannot unfold them.               *)
(***************************************************************************)
EXTENDS Integers, Sequences, FiniteSets

\* The elements of a finite set S as a list: below[x] are those that stand
\* before x.
Ordered(S, below) ==
    [k \in 1..Cardinality(S) |-> CHOOSE x \in S : Cardinality(below[x]) = k - 1]

\* The entries of s at the indices in I, in the order they have in s.
Picked(s, I) ==
    LET at == Ordered(I, [i \in I |-> {j \in I : j < i}])
    IN  [k \in DOMAIN at |-> s[at[k]]]
=============================================================================
