----------------------------- MODULE MCExchanges -----------------------------
(***************************************************************************)
(* Instances of Exchanges and SalesReports for TLC: two products and one   *)
(* opening sale of two units, of which one or two may come back; two days, *)
(* two sellers, and a price that has gone up on the second day.            *)
(***************************************************************************)
EXTENDS SalesReports, TLC

CONSTANTS p1, p2, r0, r1, r2, r3

TwoProducts == {p1, p2}

Some(p, n) == <<[product |-> p, quantity |-> n]>>

SoldTwo == Some(p1, 2)

LinesOfBoth == {Some(p1, 1), Some(p1, 2), Some(p2, 1), Some(p2, 3)}

\* One more unit of p1 in stock, and two of p2.
SomeStock == (p1 :> 1) @@ (p2 :> 2)

Cheap == (p1 :> 2) @@ (p2 :> 5)
Dearer == (p1 :> 3) @@ (p2 :> 5)

\* Two units of p1 pay for one of p2 when they were cheap, not when dear.
PriceList == (r0 :> Cheap) @@ (r1 :> Cheap) @@ (r2 :> Dearer) @@ (r3 :> Dearer)

TwoDays == (r0 :> 1) @@ (r1 :> 1) @@ (r2 :> 2) @@ (r3 :> 2)

OneMonthEach == <<"january", "february">>

TwoSellers == (r0 :> "ana") @@ (r1 :> "luis") @@ (r2 :> "ana") @@ (r3 :> "luis")
=============================================================================
