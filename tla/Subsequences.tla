---------------------------- MODULE Subsequences ----------------------------
(***************************************************************************)
(* Parts of a sequence in their order, as the scripts take them by filter  *)
(* and for loops.  They are defined without recursion: the place of an     *)
(* index is the number of indexes up to it.                                *)
(***************************************************************************)
EXTENDS Naturals, FiniteSets

\* The elements of a finite set of numbers in ascending order.
Ascending(I) ==
    [k \in 1..Cardinality(I) |-> CHOOSE i \in I : Cardinality({j \in I : j <= i}) = k]

\* What a sequence has at the indexes of I.
Subsequence(s, I) == [k \in 1..Cardinality(I) |-> s[Ascending(I)[k]]]

=============================================================================
