----------------------------- MODULE KardexReports -----------------------------
(***************************************************************************)
(* The reports on documents, stock and Kardex (app/api/v1/endpoints/       *)
(* reports.py and kardex.py), as functions of the state of Kardex.         *)
(*                                                                         *)
(* The lists of documents are read page by page with a cursor.  The        *)
(* valuation and the Kardex of a product trust the balances stored in the  *)
(* last entry they see; the Kardex endpoint leaves out the entries of      *)
(* voided documents, the reports keep them with their reversals.           *)
(*                                                                         *)
(* A page is the set of its documents: the newest come first, so its last  *)
(* document is its oldest.  A range of dates is a range of places in the   *)
(* Kardex of a product.                                                    *)
(***************************************************************************)
EXTENDS Kardex, FiniteSetsExt

CONSTANT PageSize   \* limit of a page of documents

ASSUME KardexReportsAssumption == PageSize \in Nat \ {0}

-----------------------------------------------------------------------------
(* The lists of documents: /ingresos, /egresos, /bajas, /ajustes.          *)

\* _DISCARDED_STATUSES
Kept(d) == documents[d].status # "voided"

\* The documents below the cursor.
Listed(kinds, cursor) ==
  {d \in DOMAIN documents : Kept(d) /\ documents[d].kind \in kinds /\ d < cursor}

PageOldestFirst(kinds, cursor) ==   \* variant: ORDER BY created_at ASC
  LET below == Listed(kinds, cursor)
  IN  {d \in below : Cardinality({e \in below : e < d}) < PageSize}

\* ORDER BY created_at DESC LIMIT PageSize
Page(kinds, cursor) ==
  LET below == Listed(kinds, cursor)
  IN  {d \in below : Cardinality({e \in below : e > d}) < PageSize}

\* How often each document is given to a client that asks for a page without a
\* cursor and then below the last document it was given.
AllPages(kinds) ==
  LET times[cursor \in 1..Len(documents) + 1] ==
        LET page == Page(kinds, cursor)
        IN  [d \in DOMAIN documents |->
               IF page = {} THEN 0
               ELSE (IF d \in page THEN 1 ELSE 0) + times[Min(page)][d]]
  IN  times[Len(documents) + 1]

ReportIngresos == AllPages({"ingreso", "adjustment_positive"})
ReportEgresos == AllPages({"egreso"})
ReportBajas == AllPages({"baja"})
ReportAjustes == AllPages({"increment", "decrement"})

-----------------------------------------------------------------------------
(* /stock and /stock-valorizado                                            *)

ReportStock == [p \in Products |-> stock[p]]

\* A product as of a moment; one without an entry by then shows its stock
\* of today, at no cost.
ValuedItem(p, upTo) ==
  IF upTo = 0 THEN [stock |-> stock[p], value |-> 0]
  ELSE [stock |-> kardex[p][upTo].qty, value |-> kardex[p][upTo].value]

TotalValue == SumFunction([p \in Products |-> ValuedItem(p, Len(kardex[p])).value])

-----------------------------------------------------------------------------
(* The Kardex of a product between two moments.                            *)

\* The balance stored with the last of some entries.
BalanceAt(entries, places) ==
  IF places = {} THEN NoBalance
  ELSE LET e == entries[Max(places)] IN [qty |-> e.qty, value |-> e.value, avg |-> e.avg]

\* /reports/kardex: the entries of the range, every one with its balance.
ReportKardex(p, first, last) == [x \in DOMAIN kardex[p] \cap (first..last) |-> kardex[p][x]]

\* /kardex/{product_id}: excluded_doc_ids.
Shown(p) == {x \in DOMAIN kardex[p] : Kept(kardex[p][x].document)}

\* Its opening and closing balance, and what the entries in between moved.
GetKardex(p, first, last) ==
  LET within == Shown(p) \cap (first..last)
      opening == BalanceAt(kardex[p], {x \in Shown(p) : x < first})
  IN  [opening |-> opening,
       closing |-> IF within = {} THEN opening ELSE BalanceAt(kardex[p], within),
       in |-> SumFunctionOnSet([x \in DOMAIN kardex[p] |-> kardex[p][x].in], within),
       out |-> SumFunctionOnSet([x \in DOMAIN kardex[p] |-> kardex[p][x].out], within)]

-----------------------------------------------------------------------------
(* Properties.                                                             *)

\* Read page by page, the lists name every document in force, once: the
\* approved ones add up to the stock of every product.
ListsExplainStock ==
  LET ingresos == ReportIngresos
      egresos == ReportEgresos
      bajas == ReportBajas
      ajustes == ReportAjustes
      listed == [d \in DOMAIN documents |-> ingresos[d] + egresos[d] + bajas[d] + ajustes[d]]
      approved == {d \in DOMAIN documents : documents[d].status = "approved"}
  IN  /\ \A d \in DOMAIN documents : listed[d] = IF Kept(d) THEN 1 ELSE 0
      /\ \A p \in Products :
           ReportStock[p] = SumFunction([d \in approved |->
             listed[d] * (Sign(documents[d].kind) * QuantityIn(documents[d].lines, p))])

\* The valuation of today shows the stock, and under PEPS what the lots cost, to a
\* unit per piece received (LotsAgree).
ValuationAgrees ==
  /\ \A p \in Products : ValuedItem(p, Len(kardex[p])).stock = ReportStock[p]
  /\ UsesPeps =>
       Abs(TotalValue - SumFunction([i \in DOMAIN lots |-> lots[i].available * lots[i].cost]))
         <= SumFunction([p \in Products |-> Received(p)])

\* From the balance shown with its first entry a range leads to that of its last.
AddsUp(report, first, last) ==
  report[last].qty = report[first].qty + Net(report, first + 1..last)

\* The whole Kardex of a product adds up, from its first entry until now (every
\* other range does: RangesAddUp in KardexProofs).  Without the entries of voided
\* documents the movements still add up to the stock; the balances shown with
\* them do only while nothing is left out.
KardexAddsUp ==
  \A p \in Products :
    LET n == Len(kardex[p])
        shown == GetKardex(p, 1, n)
    IN  /\ n > 0 => AddsUp(ReportKardex(p, 1, n), 1, n)
        /\ shown.in - shown.out = stock[p]
        /\ Shown(p) = DOMAIN kardex[p] => shown.closing.qty = stock[p]

\* Three ways of reading the same movements give the same stock: the lists of
\* documents, the valuation, and the Kardex of each product, also after voids
\* and a change of valuation method.
ReportsAgree == ListsExplainStock /\ ValuationAgrees /\ KardexAddsUp
=============================================================================
