----------------------------- MODULE SalesReports -----------------------------
(***************************************************************************)
(* The reports on sales (app/api/v1/endpoints/reports.py), as functions of *)
(* the documents that Exchanges leaves: the sales report of a period with  *)
(* its groupings (/ventas), the closing of a day (/cierre-dia) and the     *)
(* consolidated report (/consolidado).  Each tells what an exchange brought*)
(* in its own way, from the links, from the credit of the new sale and     *)
(* from the lines of both documents.                                       *)
(*                                                                         *)
(* A report is read in one moment here; the program runs several queries.  *)
(* A document is dated when its transaction began: the day of its request. *)
(***************************************************************************)
EXTENDS Exchanges, FiniteSetsExt

CONSTANTS
  Days,            \* local dates, numbered
  DayOf,           \* the day each request runs
  MonthOf,         \* the month, or the quarter, of each day
  SellerOf         \* seller_name of the sale each request makes

ASSUME SalesReportsAssumption ==
  /\ Days \subseteq Nat /\ Days # {} /\ IsFiniteSet(Days)
  /\ DayOf \in [Requests -> Days]
  /\ DOMAIN MonthOf = Days
  /\ DOMAIN SellerOf = Requests

\* _resolve_report_range; INVALID_DATE_RANGE for an empty one.
Ranges == {range \in Days \X Days : range[1] <= range[2]}

CreatedIn(d, range) ==
  documents[d] # Nil /\ DayOf[d[1]] \in range[1]..range[2]

\* _DISCARDED_STATUSES
Kept(d, range) == CreatedIn(d, range) /\ documents[d].status # "voided"

LineTotal(d) == Total(documents[d].lines, documents[d].prices)

SumOf(F(_), docs) == SumFunction([d \in docs |-> F(d)])

Sales(range) == {d \in DocumentIds : Kept(d, range) /\ documents[d].kind = "egreso"}

\* The returns of exchanges; plain customer returns are not in Exchanges.
Returns(range) == {d \in DocumentIds : Kept(d, range) /\ documents[d].kind = "ingreso"}

ReturnedAmountOfAll(d) ==   \* variant: counts voided returns too
  SumOf(LineTotal, {x \in DocumentIds : /\ documents[x] # Nil
                                        /\ documents[x].kind = "ingreso"
                                        /\ documents[x].original = documents[d].original})

\* _returned_amount_by_exchange: what came back of the sale an exchange is of.
ReturnedAmount(d) ==
  SumOf(LineTotal, {x \in DocumentIds : /\ Approved(x) /\ documents[x].kind = "ingreso"
                                        /\ documents[x].original = documents[d].original})

\* _net_exchange_sales
NetAmount(d) ==
  IF documents[d].original = Nil THEN LineTotal(d)
  ELSE LET net == LineTotal(d) - ReturnedAmount(d) IN IF net > 0 THEN net ELSE 0

-----------------------------------------------------------------------------
(* /ventas                                                                 *)

SalesTotal(range) == SumOf(NetAmount, Sales(range))

DailyTotal(range, day) ==
  SumOf(NetAmount, {d \in Sales(range) : DayOf[d[1]] = day})

MonthlyTotal(range, month) ==
  SumOf(NetAmount, {d \in Sales(range) : MonthOf[DayOf[d[1]]] = month})

\* An exchange is credited to the seller of the original sale.
Seller(d) ==
  IF documents[d].original = Nil THEN SellerOf[d[1]] ELSE SellerOf[documents[d].original[1]]

SellerTotal(range, seller) ==
  SumOf(NetAmount, {d \in Sales(range) : Seller(d) = seller})

Sellers == {SellerOf[r] : r \in Requests}

\* products_sold of a period: the lines of its sales, also what came back.
UnitsSold(range, p) ==
  SumOf(LAMBDA d : QuantityOf(documents[d].lines, p), Sales(range))

-----------------------------------------------------------------------------
(* /cierre-dia: sales, and returns that belong to no exchange, of one day. *)

\* An exchange older than credit_applied_amount falls back to its return.
Credit(d) ==
  CASE documents[d].credit # 0 -> documents[d].credit
    [] documents[d].credit = 0 /\ documents[d].original # Nil -> ReturnedAmount(d)
    [] OTHER -> 0

Collected(d) ==
  LET cash == LineTotal(d) - Credit(d) IN IF cash > 0 THEN cash ELSE 0

ClosingTotal(day) == SumOf(Collected, Sales(<<day, day>>))

-----------------------------------------------------------------------------
(* /consolidado                                                            *)

\* movements_amount_by_type: sales and customer returns at sale price.
AmountOf(kind, range) ==
  SumOf(LineTotal, IF kind = "egreso" THEN Sales(range) ELSE Returns(range))

\* movements and status_summary count discarded documents too.
MovementCount(kind, range) ==
  Cardinality({d \in DocumentIds : CreatedIn(d, range) /\ documents[d].kind = kind})

StatusCount(status, range) ==
  Cardinality({d \in DocumentIds : CreatedIn(d, range) /\ documents[d].status = status})

-----------------------------------------------------------------------------
(* /movimientos-por-usuario: each request is made by a user of its own.    *)

MovementsOfUser(r, range) == {d \in {r} \X {"sale", "return"} : Kept(d, range)}

-----------------------------------------------------------------------------
(* Properties.                                                             *)

\* What /ventas nets through the links is what the closings of the days
\* collected, and what /consolidado shows as sold less what it shows as returned.
PeriodsAgree ==
  \A range \in Ranges :
    /\ SalesTotal(range) = SumOf(ClosingTotal, {y \in Days : y \in range[1]..range[2]})
    /\ SalesTotal(range) = AmountOf("egreso", range) - AmountOf("ingreso", range)

\* Every grouping adds up to its total: no sale falls between two days, months
\* or sellers, and none is in two of them.
GroupsAddUp ==
  \A range \in Ranges :
    /\ SalesTotal(range) = SumOf(LAMBDA y : DailyTotal(range, y), Days)
    /\ SalesTotal(range) = SumOf(LAMBDA m : MonthlyTotal(range, m), {MonthOf[y] : y \in Days})
    /\ SalesTotal(range) = SumOf(LAMBDA s : SellerTotal(range, s), Sellers)
    /\ MovementCount("ingreso", range) + MovementCount("egreso", range) =
         StatusCount("approved", range) + StatusCount("voided", range)
    /\ UNION {MovementsOfUser(r, range) : r \in Requests} = Sales(range) \cup Returns(range)

UnitsReturned(range, p) ==
  SumOf(LAMBDA d : QuantityOf(documents[d].lines, p), Returns(range))

\* The units sold, less those returned, are what has left the stock.
UnitsAgree ==
  LET all == <<Min(Days), Max(Days)>>
  IN  \A p \in Products :
        UnitsSold(all, p) - UnitsReturned(all, p) =
          InitialStock[p] + QuantityOf(OpeningLines, p) - stock[p]

\* The three reports tell the same sales of every period, however often its
\* sales were exchanged, reverted and exchanged again.
ReportsAgree == PeriodsAgree /\ GroupsAddUp /\ UnitsAgree

\* The closings of all days are the money in the drawer: what customers paid,
\* less what reverted exchanges and voided sales gave back.
DrawerAgrees == drawer = SumOf(ClosingTotal, Days)
=============================================================================
