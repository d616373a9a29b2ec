------------------------------ MODULE Ordering ------------------------------
(***************************************************************************)
(* Numbers in their order, and the elements of a sequence at such places:  *)
(* what the reference definitions of texts are made of.                    *)
(***************************************************************************)
EXTENDS Integers, FiniteSets

(* The numbers of a finite set in their order. *)
InOrder(S) ==
  [k \in 1 .. Cardinality(S) |-> CHOOSE i \in S : Cardinality({j \in S : j < i}) = k - 1]

(* What a sequence has at the places of S. *)
AtPlaces(seq, S) == [k \in 1 .. Cardinality(S) |-> seq[InOrder(S)[k]]]
=============================================================================
