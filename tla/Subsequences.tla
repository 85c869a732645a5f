---------------------------- MODULE Subsequences -----------------------------
(***************************************************************************)
(* What a filter leaves of a sequence: the elements at the positions it    *)
(* picks, in their order.                                                  *)
(***************************************************************************)
EXTENDS Integers, Sequences, FiniteSets

\* How many of the positions in P are not after i.
Place(P, i) == Cardinality({j \in P : j <= i})

\* The k-th position of P.
Nth(P, k) == CHOOSE i \in P : Place(P, i) = k

Picked(seq, P) == [k \in 1 .. Cardinality(P) |-> seq[Nth(P, k)]]
=============================================================================
