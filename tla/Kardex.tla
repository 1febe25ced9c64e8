-------------------------------- MODULE Kardex --------------------------------
(***************************************************************************)
(* The valuation of stock: kardex_entries and inventory_lots as            *)
(* KardexService (app/services/kardex_service.py) writes them for the      *)
(* documents of InventoryService, under both valuation methods.            *)
(*                                                                         *)
(* Handlers are atomic here (ConcurrentKardex interleaves them), so that   *)
(* the amounts can be followed exactly.  What the columns hold,            *)
(* Numeric(14, 4), is counted in their smallest unit: a cost of 200 is     *)
(* 0.02.  Clients may give costs with more decimals, which the service     *)
(* keeps in memory and computes with: costs of lines are counted in parts  *)
(* of a unit, Grain of them in each.  Quantities are whole.                *)
(*                                                                         *)
(* A document may name a product on several lines.  The session does not   *)
(* flush before a query, so what a handler has added for one line is not   *)
(* in the balance it reads for the next, unless something flushed it.      *)
(* (What was flushed is read here as its columns keep it; the session has  *)
(* the parts of a unit still, which a third line of one product would see.)*)
(***************************************************************************)
EXTENDS Integers, SequencesExt

CONSTANTS
  Products,
  Operations,      \* kinds of document, and "void", that clients use
  Grain,           \* parts of a unit in which clients give unit costs
  EntryLines,      \* lines of entries: product, quantity and unit cost
  ExitLines,       \* lines of everything else
  Methods,         \* values an administrator gives kardex_method
  OpeningMethod,   \* kardex_method when the system is installed
  MaxDocuments,    \* bound: documents created
  MaxYears         \* bound: fiscal years after the first

Line == [product : Products, quantity : Nat \ {0}, cost : Nat]

ASSUME KardexAssumption ==
  /\ EntryLines \cup ExitLines \subseteq Seq(Line)
  /\ Grain \in Nat \ {0} /\ MaxDocuments \in Nat /\ MaxYears \in Nat

VARIABLES
  documents,       \* inventory_documents in order of creation
  stock,           \* products.stock_actual
  kardex,          \* kardex_entries of each product in order of id
  lots,            \* inventory_lots in order of lot_date and id
  method,          \* system_params.kardex_method
  year,            \* fiscal years begun
  movedInYear      \* is there a kardex entry created in this year?

vars == <<documents, stock, kardex, lots, method, year, movedInYear>>

Kinds == {"ingreso", "adjustment_positive", "egreso", "baja", "increment", "decrement"}

\* The kinds whose DocumentType is IN; AI and BI documents are pending first.
IsEntry(kind) == kind \in {"ingreso", "adjustment_positive"}

IsPendingFirst(kind) == kind \in {"baja", "increment", "decrement"}

Init ==
  /\ documents = <<>>
  /\ stock = [p \in Products |-> 0]
  /\ kardex = [p \in Products |-> <<>>]
  /\ lots = <<>>
  /\ method = OpeningMethod
  /\ year = 0
  /\ movedInYear = FALSE

-----------------------------------------------------------------------------
(* Amounts.                                                                *)

\* value / quantity at four decimals, ROUND_HALF_UP: halves away from zero.
RoundHalfUp(value, quantity) == (2 * value + quantity) \div (2 * quantity)

UnitCost(value, quantity) ==
  IF value >= 0 THEN RoundHalfUp(value, quantity) ELSE -RoundHalfUp(-value, quantity)

Average(value, quantity) == IF quantity > 0 THEN UnitCost(value, quantity) ELSE 0

\* What a column keeps of an amount in parts of a unit.
Column(parts) == UnitCost(parts, Grain)

QuantityIn(lines, p) ==
  SumFunctionOnSet([i \in DOMAIN lines |-> lines[i].quantity],
                   {i \in DOMAIN lines : lines[i].product = p})

\* The sign with which an approved document of a kind moves stock.
Sign(kind) == IF IsEntry(kind) \/ kind = "increment" THEN 1 ELSE -1

\* What the entries at some places of a Kardex moved, and at what cost.
Net(entries, places) ==
  SumFunctionOnSet([i \in DOMAIN entries |-> entries[i].in - entries[i].out], places)

NetValue(entries, places) ==
  SumFunctionOnSet([i \in DOMAIN entries |->
                      entries[i].in * entries[i].costIn - entries[i].out * entries[i].costOut], places)

NoBalance == [qty |-> 0, value |-> 0, avg |-> 0]

\* _get_current_balance over the entries a query would find.
Balance(entries) ==
  IF entries = <<>> THEN NoBalance
  ELSE [qty |-> Last(entries).qty, value |-> Last(entries).value, avg |-> Last(entries).avg]

-----------------------------------------------------------------------------
(* The database session of one handler: rows flushed, rows only added.     *)

Session == [kardex |-> kardex, added |-> [p \in Products |-> <<>>], lots |-> lots]

Flush(s) == [s EXCEPT !.kardex = [p \in Products |-> s.kardex[p] \o s.added[p]],
                      !.added = [p \in Products |-> <<>>]]

Add(s, p, entry) == [s EXCEPT !.added[p] = Append(@, entry)]

\* The new value is computed from the cost in memory, in parts of a unit; the
\* columns round value, cost and average each on its own.
Incoming(d, lot, line, old) ==
  LET qty == old.qty + line.quantity
      parts == Grain * old.value + line.quantity * line.cost
  IN  [document |-> d, lot |-> lot, in |-> line.quantity, costIn |-> Column(line.cost),
       out |-> 0, costOut |-> 0,
       qty |-> qty, value |-> Column(parts), avg |-> Average(parts, Grain * qty)]

OutgoingPiece(d, lot, quantity, cost, old, avg) ==   \* variant: the cost of one piece
  [document |-> d, lot |-> lot, in |-> 0, costIn |-> 0,
   out |-> quantity, costOut |-> cost,
   qty |-> old.qty - quantity, value |-> old.value - cost, avg |-> avg]

Outgoing(d, lot, quantity, cost, old, avg) ==
  [document |-> d, lot |-> lot, in |-> 0, costIn |-> 0,
   out |-> quantity, costOut |-> cost,
   qty |-> old.qty - quantity, value |-> old.value - quantity * cost, avg |-> avg]

\* _record_peps, IN: the lot is flushed, and everything added before with it.
ReceiveLot(s, d, line) ==
  LET lot == [product |-> line.product, document |-> d, initial |-> line.quantity,
              available |-> line.quantity, cost |-> Column(line.cost)]
      flushed == Flush([s EXCEPT !.lots = Append(@, lot)])
  IN  Add(flushed, line.product,
          Incoming(d, Len(s.lots) + 1, line, Balance(s.kardex[line.product])))

\* SELECT ... WHERE quantity_available > 0: the query of _consume_lots_peps sees
\* the quantities as they were flushed.
AvailableLots(p) == {i \in DOMAIN lots : lots[i].product = p /\ lots[i].available > 0}

NewestFirst(i) == Len(lots) + 1 - i   \* variant: ORDER BY ... DESC

\* ORDER BY lot_date, id
OldestFirst(i) == i

\* One turn of the loop of _consume_lots_peps: it takes from the quantities in
\* memory until nothing remains.
TakeFrom(a, d, p, i) ==
  LET lot == a.s.lots[i]
      consumed == IF lot.available < a.remaining THEN lot.available ELSE a.remaining
      qty == a.balance.qty - consumed
      value == a.balance.value - consumed * lot.cost
      entry == Outgoing(d, i, consumed, lot.cost, a.balance, Average(value, qty))
  IN  IF i \notin AvailableLots(p) \/ a.remaining <= 0 THEN a
      ELSE [s |-> Add([a.s EXCEPT !.lots[i].available = @ - consumed], p, entry),
            remaining |-> a.remaining - consumed,
            balance |-> [a.balance EXCEPT !.qty = qty, !.value = value]]

\* _consume_lots_peps: oldest lot first; it stops without an error when the lots
\* run out.
ConsumeLots(s, d, line) ==
  LET p == line.product
      after[i \in 0..Len(lots)] ==
        IF i = 0 THEN [s |-> s, remaining |-> line.quantity, balance |-> Balance(s.kardex[p])]
        ELSE TakeFrom(after[i - 1], d, p, OldestFirst(i))
  IN  after[Len(lots)].s

\* _record_weighted_average.
RecordAverage(s, d, line, entry) ==
  LET old == Balance(s.kardex[line.product])
  IN  Add(s, line.product,
          IF entry THEN Incoming(d, 0, line, old)
          ELSE Outgoing(d, 0, line.quantity, old.avg, old,
                        IF old.qty - line.quantity > 0 THEN old.avg ELSE 0))

\* The comparison the service makes with the stored parameter.
UsesPeps == method = "PEPS"

\* record_entry; every document that is not IN is recorded as an exit.
RecordLine(s, d, kind, line) ==
  CASE UsesPeps /\ IsEntry(kind)  -> ReceiveLot(s, d, line)
    [] UsesPeps /\ ~IsEntry(kind) -> ConsumeLots(s, d, line)
    [] OTHER -> RecordAverage(s, d, line, IsEntry(kind))

RecordEntry(d, kind, lines) ==
  LET after[i \in 0..Len(lines)] ==
        IF i = 0 THEN Session ELSE RecordLine(after[i - 1], d, kind, lines[i])
  IN  Flush(after[Len(lines)])

Record(d, kind, lines) ==
  LET s == RecordEntry(d, kind, lines) IN
  /\ kardex' = s.kardex
  /\ lots' = s.lots
  /\ movedInYear' = (movedInYear \/ s.kardex # kardex)

\* update_product_stock of every line refuses to leave stock negative.
MoveStock(sign, lines) ==
  /\ \A p \in Products : stock[p] + sign * QuantityIn(lines, p) >= 0
  /\ stock' = [p \in Products |-> stock[p] + sign * QuantityIn(lines, p)]

-----------------------------------------------------------------------------
(* The handlers.                                                           *)

Create(kind, lines, status) ==
  /\ kind \in Operations
  /\ Len(documents) < MaxDocuments
  /\ documents' = Append(documents, [kind |-> kind, lines |-> lines, status |-> status])
  /\ UNCHANGED <<method, year>>

CreateApproved(kind, lines) ==
  /\ Create(kind, lines, "approved")
  /\ MoveStock(Sign(kind), lines)
  /\ Record(Len(documents) + 1, kind, lines)

CreateIngreso == \E lines \in EntryLines : CreateApproved("ingreso", lines)

CreateEgreso == \E lines \in ExitLines : CreateApproved("egreso", lines)

\* _get_last_historical_unit_cost, 0 when there is none.
LastCost(p) ==
  LET priced == {i \in DOMAIN kardex[p] : kardex[p][i].costIn > 0 \/ kardex[p][i].costOut > 0}
      last == kardex[p][CHOOSE i \in priced : \A j \in priced : j <= i]
  IN  IF priced = {} THEN 0 ELSE IF last.costIn > 0 THEN last.costIn ELSE last.costOut

\* _resolve_increment_adjustment_unit_costs for stock that was found: its
\* current cost, or what the client gives, or the last cost known.
FoundCost(line) ==
  LET b == Balance(kardex[line.product])
  IN  CASE b.qty > 0 /\ b.value > 0 /\ b.avg > 0 -> Grain * b.avg
        [] line.cost > 0 -> line.cost
        [] OTHER -> Grain * LastCost(line.product)

Resolved(given) == [i \in DOMAIN given |-> [given[i] EXCEPT !.cost = FoundCost(given[i])]]

\* UNIT_COST_REQUIRED below half a cent.
CreatePositiveAdjustment ==
  \E given \in EntryLines :
    /\ \A i \in DOMAIN given : FoundCost(given[i]) >= 50 * Grain
    /\ CreateApproved("adjustment_positive", Resolved(given))

\* create_ajuste of stock that was found: UNIT_COST_REQUIRED where no cost is.
CreateIncrement ==
  \E given \in ExitLines :
    /\ \A i \in DOMAIN given : FoundCost(given[i]) > 0
    /\ Create("increment", Resolved(given), "pending")

\* create_baja, and create_ajuste of stock that is missing.
CreateDecrease ==
  \E kind \in {"baja", "decrement"}, lines \in ExitLines :
    /\ \A i \in DOMAIN lines : stock[lines[i].product] >= lines[i].quantity
    /\ Create(kind, lines, "pending")

\* Neither touches stock or Kardex.
CreatePending ==
  /\ CreateIncrement \/ CreateDecrease
  /\ UNCHANGED <<stock, kardex, lots, movedInYear>>

ApproveDocument(d) ==
  LET doc == documents[d] IN
  /\ doc.status = "pending"
  /\ documents' = [documents EXCEPT ![d].status = "approved"]
  /\ MoveStock(Sign(doc.kind), doc.lines)
  /\ Record(d, doc.kind, doc.lines)
  /\ UNCHANGED <<method, year>>

\* The places in the Kardex of p of the entries of d, and of those about lot i.
EntriesOf(d, p) == {x \in DOMAIN kardex[p] : kardex[p][x].document = d}

LotEntriesOf(d, i) ==
  {x \in EntriesOf(d, lots[i].product) : kardex[lots[i].product][x].lot = i}

RestoreLotBackwards(lot, in, out) ==   \* variant: the signs exchanged
  [lot EXCEPT !.available = @ + in - out]

RestoreLotOfEntry(lot, in, out) ==   \* variant: consumed stock is not put back
  [lot EXCEPT !.available = @ - in, !.initial = @ - in]

RestoreLotKept(lot, in, out) ==   \* variant: the initial quantity stays
  [lot EXCEPT !.available = @ - in + out]

\* A lot into which a document being voided put units, and from which it took some.
RestoreLot(lot, in, out) == [lot EXCEPT !.available = @ - in + out, !.initial = @ - in]

Restored(d) ==
  [i \in DOMAIN lots |->
     LET entries == kardex[lots[i].product] IN
     RestoreLot(lots[i],
                SumFunctionOnSet([x \in DOMAIN entries |-> entries[x].in], LotEntriesOf(d, i)),
                SumFunctionOnSet([x \in DOMAIN entries |-> entries[x].out], LotEntriesOf(d, i)))]

NetQuantityIn(d, p) ==   \* variant: what went out again is not counted
  SumFunctionOnSet([x \in DOMAIN kardex[p] |-> kardex[p][x].in], EntriesOf(d, p))

NetQuantity(d, p) == Net(kardex[p], EntriesOf(d, p))

\* One entry per product that takes back the net quantity and value.
ReversalEntry(d, p) ==
  LET old == Balance(kardex[p])
      net == NetQuantity(d, p)
      netValue == NetValue(kardex[p], EntriesOf(d, p))
      unit == IF net = 0 THEN 0
              ELSE IF net > 0 THEN UnitCost(netValue, net) ELSE UnitCost(-netValue, -net)
  IN  [document |-> d, lot |-> 0,
       in |-> IF net < 0 THEN -net ELSE 0, costIn |-> IF net < 0 THEN unit ELSE 0,
       out |-> IF net > 0 THEN net ELSE 0, costOut |-> IF net > 0 THEN unit ELSE 0,
       qty |-> old.qty - net, value |-> old.value - netValue,
       avg |-> Average(old.value - netValue, old.qty - net)]

\* void_document and reverse_document; CANNOT_VOID_STOCK_CONSUMED when the
\* stock or the lot of an entry has been used.
VoidDocument(d) ==
  LET doc == documents[d] IN
  /\ "void" \in Operations
  /\ doc.status = "approved"
  /\ \A p \in Products : \A x \in EntriesOf(d, p) :
       LET e == kardex[p][x] IN e.lot # 0 /\ e.in > 0 => lots[e.lot].available >= e.in
  /\ documents' = [documents EXCEPT ![d].status = "voided"]
  /\ MoveStock(-Sign(doc.kind), doc.lines)
  /\ kardex' = [p \in Products |->
       IF EntriesOf(d, p) # {} THEN Append(kardex[p], ReversalEntry(d, p)) ELSE kardex[p]]
  /\ lots' = Restored(d)
  /\ movedInYear' = (movedInYear \/ \E p \in Products : EntriesOf(d, p) # {})
  /\ UNCHANGED <<method, year>>

\* update_param for kardex_method: the value is checked in upper case and
\* stored as it was given; KARDEX_METHOD_LOCKED once the year has entries.
SetMethod ==
  /\ ~movedInYear
  /\ method' \in Methods \ {method}
  /\ UNCHANGED <<documents, stock, kardex, lots, year, movedInYear>>

NewYear ==
  /\ year < MaxYears
  /\ year' = year + 1
  /\ movedInYear' = FALSE
  /\ UNCHANGED <<documents, stock, kardex, lots, method>>

Next ==
  \/ CreateIngreso
  \/ CreateEgreso
  \/ CreatePositiveAdjustment
  \/ CreatePending
  \/ \E d \in DOMAIN documents : ApproveDocument(d) \/ VoidDocument(d)
  \/ SetMethod
  \/ NewYear

Spec == Init /\ [][Next]_vars

-----------------------------------------------------------------------------
(* Properties.                                                             *)

Entry == [document : 1..MaxDocuments, lot : Nat, in : Nat, costIn : Int,
          out : Nat, costOut : Int, qty : Int, value : Int, avg : Int]

TypeOK ==
  /\ \A d \in DOMAIN documents :
       /\ documents[d].kind \in Kinds
       /\ documents[d].status \in {"pending", "approved", "voided"}
  /\ stock \in [Products -> Nat]
  /\ \A p \in Products : \A i \in DOMAIN kardex[p] : kardex[p][i] \in Entry
  /\ \A i \in DOMAIN lots : /\ lots[i].available \in 0..lots[i].initial
                            /\ lots[i].document \in DOMAIN documents
  /\ method \in Methods \cup {OpeningMethod}
  /\ year \in 0..MaxYears
  /\ movedInYear \in BOOLEAN

\* The balance of a product's Kardex is its stock: every movement of stock
\* is recorded, once and with its own sign.
BalancesAgree == \A p \in Products : Balance(kardex[p]).qty = stock[p]

LotsOf(p) == {i \in DOMAIN lots : lots[i].product = p}

Abs(n) == IF n < 0 THEN -n ELSE n

\* The pieces of a product that ever came into a lot.
Received(p) ==
  SumFunctionOnSet([x \in DOMAIN kardex[p] |-> kardex[p][x].in],
                   {x \in DOMAIN kardex[p] : kardex[p][x].lot # 0})

\* Under PEPS the lots hold exactly the stock, and the Kardex values it at what the
\* lots cost, to a unit per piece received: a receipt rounds the value of all its
\* pieces and the cost of one apart, and exits and voids, however many, add nothing.
LotsAgree ==
  UsesPeps => \A p \in Products :
    /\ SumFunctionOnSet([i \in DOMAIN lots |-> lots[i].available], LotsOf(p)) = stock[p]
    /\ Abs(SumFunctionOnSet([i \in DOMAIN lots |-> lots[i].available * lots[i].cost], LotsOf(p))
            - Balance(kardex[p]).value) <= Received(p)

\* Each entry continues the one before it: quantities exactly, values to half a
\* unit per piece (a receipt keeps a rounded cost, a voided exit of several lots
\* goes back at one) and half a unit for the value itself.
EntriesAddUp ==
  \A p \in Products : \A i \in DOMAIN kardex[p] :
    LET e == kardex[p][i]
        before == Balance(SubSeq(kardex[p], 1, i - 1))
    IN  /\ e.qty = before.qty + e.in - e.out
        /\ 2 * Abs(e.value - (before.value + e.in * e.costIn - e.out * e.costOut))
             <= e.in + e.out + 1

\* A voided document has taken back all it recorded, and holds no lot.
VoidedLeavesNothing ==
  \A d \in DOMAIN documents : documents[d].status = "voided" =>
    /\ \A p \in Products : Net(kardex[p], EntriesOf(d, p)) = 0
    /\ \A i \in DOMAIN lots : lots[i].document = d =>
         lots[i].available = 0 /\ lots[i].initial = 0

\* An exit takes from a lot only when every older lot of the product is empty,
\* also after a void has put stock back into an old lot.
OldestLotFirst ==
  [][\A i, j \in DOMAIN lots :
       (/\ i < j /\ lots[i].product = lots[j].product
        /\ lots'[j].available < lots[j].available
        /\ lots'[j].initial = lots[j].initial) => lots'[i].available = 0]_vars
=============================================================================
