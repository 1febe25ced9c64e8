------------------------------- MODULE MCKardex -------------------------------
(***************************************************************************)
(* Instances of Kardex and KardexReports for TLC.                          *)
(***************************************************************************)
EXTENDS KardexReports

CONSTANT p1

OneProduct == {p1}

Entering(p, quantity, cost) == [product |-> p, quantity |-> quantity, cost |-> cost]
Leaving(p, quantity) == Entering(p, quantity, 0)

\* Costs in thirds of a unit, which neither columns nor averages hold exactly.
Purchases == {<<Entering(p1, 1, 602)>>, <<Entering(p1, 2, 904)>>}

Sales == {<<Leaving(p1, 1)>>, <<Leaving(p1, 3)>>}

\* Bound: a history that goes into a second year has one document fewer.
FewerInSecondYear == year > 0 => Len(documents) < MaxDocuments
=============================================================================
