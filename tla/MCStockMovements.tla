--------------------------- MODULE MCStockMovements ---------------------------
(***************************************************************************)
(* Instances of StockMovements for TLC: two products, two or three         *)
(* requests, lines of one or two units.                                    *)
(***************************************************************************)
EXTENDS StockMovements, TLC

CONSTANTS p1, p2

TwoProducts == {p1, p2}

One(p) == [product |-> p, quantity |-> 1]
Two(p) == [product |-> p, quantity |-> 2]

\* One product, in two sizes, and both products in one order.
OrderedLines == {<<One(p1)>>, <<Two(p1)>>, <<One(p1), Two(p2)>>}

\* Both products in both orders.
CrossedLines == {<<One(p1), One(p2)>>, <<One(p2), One(p1)>>}

SingleLine == {<<One(p1)>>}

\* Enough of p1 for two sales but not for three; of p2 for one and a half.
SomeStock == (p1 :> 2) @@ (p2 :> 3)

\* The first exit of the year has no sequence row yet; entries, write-offs
\* and adjustments have been numbered before.
MidYear == ("IN" :> 1) @@ ("EG" :> 0) @@ ("BI" :> 2) @@ ("AI" :> 1)

Symmetry == Permutations(Requests)
=============================================================================
