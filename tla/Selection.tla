------------------------------ MODULE Selection ------------------------------
(***************************************************************************)
(* What SelectSeq gives, by the set of the places that pass the test, so   *)
(* that it can be reasoned about (SelectionLemmas).                        *)
(***************************************************************************)
EXTENDS Integers, Sequences, FiniteSets

\* The place of i among the members of S.
RankIn(S, i) == Cardinality({j \in S : j <= i})

\* The elements of seq at the places in S, in their order.
Selected(seq, S) ==
  [k \in 1..Cardinality(S) |-> seq[CHOOSE i \in S : RankIn(S, i) = k]]
=============================================================================
