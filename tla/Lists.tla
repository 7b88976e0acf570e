-------------------------------- MODULE Lists --------------------------------
(***************************************************************************)
(* Loops over a list that keep some of its elements (erase, remove_if, a   *)
(* push_back under a condition), in closed form.                           *)
(***************************************************************************)
EXTENDS Integers, Sequences, FiniteSets

\* The elements of a list at the positions I, in their order.
Position(I, r) == CHOOSE i \in I : Cardinality({j \in I : j <= i}) = r
Only(list, I) == [r \in 1 .. Cardinality(I) |-> list[Position(I, r)]]
==============================================================================
