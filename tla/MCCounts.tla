------------------------------- MODULE MCCounts -------------------------------
(***************************************************************************)
(* Instances of Counts for TLC: two products, of which two units each are  *)
(* held when the requests start and one or three are found.                *)
(***************************************************************************)
EXTENDS Counts, TLC

CONSTANTS p1, p2

TwoProducts == {p1, p2}

TwoEach == [p \in TwoProducts |-> 2]

\* Another document sells both units or brings two in.
InOrOut == {-2, 2}

Symmetry == Permutations(Requests) \cup Permutations(TwoProducts)
=============================================================================
