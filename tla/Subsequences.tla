------------------------------ MODULE Subsequences ------------------------------
(***************************************************************************)
(* Parts and arrangements of a sequence, by the positions of its members.  *)
(* A position has as many others before it as its rank says, so what the   *)
(* k-th member is needs no recursion, and the proofs about it no induction *)
(* over sequences.                                                         *)
(***************************************************************************)
EXTENDS Naturals, FiniteSets, Sequences

\* The members of s at the positions in the domain of before, each behind those
\* that before gives it.
Listed(s, before) ==
    [k \in 1..Cardinality(DOMAIN before) |->
        s[CHOOSE i \in DOMAIN before : Cardinality(before[i]) = k - 1]]

\* The members of s that belong to P, in their order.
Only(s, P) ==
    LET I == {i \in DOMAIN s : s[i] \in P}
    IN  Listed(s, [i \in I |-> {j \in I : j < i}])
=============================================================================
