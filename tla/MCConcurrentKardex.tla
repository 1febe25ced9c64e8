------------------------- MODULE MCConcurrentKardex -------------------------
(***************************************************************************)
(* Instances of ConcurrentKardex for TLC.                                  *)
(***************************************************************************)
EXTENDS ConcurrentKardex, TLC

CONSTANTS p1, p2

TwoProducts == {p1, p2}

One(p) == [product |-> p, quantity |-> 1]
Two(p) == [product |-> p, quantity |-> 2]

\* One product in two sizes, and both products.
MixedLines == {<<One(p1)>>, <<Two(p1)>>, <<One(p1), Two(p2)>>}

SingleLine == {<<One(p1)>>}

SomeStock == (p1 :> 2) @@ (p2 :> 3)

MidYear == ("IN" :> 1) @@ ("EG" :> 0) @@ ("BI" :> 2) @@ ("AI" :> 1)

Symmetry == Permutations(Requests)
=============================================================================
