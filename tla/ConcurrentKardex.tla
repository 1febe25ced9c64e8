--------------------------- MODULE ConcurrentKardex ---------------------------
(***************************************************************************)
(* The Kardex as the concurrent requests of StockMovements write it:       *)
(* quantities only, one list of entries per product (KardexService).       *)
(*                                                                         *)
(* A new entry continues the balance of the last entry of its product, and *)
(* "last" is by created_at, then id (_get_current_balance).  created_at is *)
(* the column default now(), which PostgreSQL fixes when the transaction   *)
(* starts: at the request's first query, before it waits for any lock.     *)
(***************************************************************************)
EXTENDS StockMovements

VARIABLES
  kardex,          \* committed kardex_entries of each product, by id: document,
                   \* change, balance, created_at (at), and for the properties
                   \* whether it undoes others and when it was committed
  clock,           \* transactions started so far
  begun,           \* now() in the transaction of each request
  reading          \* what reverse_document read, per request and product

kardexVars == <<kardex, clock, begun, reading>>

NothingRead == [p \in Products |-> [balance |-> 0, net |-> 0]]

\* The stock the requests start from was entered by earlier documents.
KardexInit ==
  /\ Init
  /\ kardex = [p \in Products |-> <<[document |-> Nil, change |-> InitialStock[p],
                                     balance |-> InitialStock[p], at |-> 0,
                                     reversal |-> FALSE, written |-> 0]>>]
  /\ clock = 0
  /\ begun = [r \in Requests |-> 0]
  /\ reading = [r \in Requests |-> NothingRead]

\* ORDER BY created_at, id
Before(p, i, j) ==
  \/ kardex[p][i].at < kardex[p][j].at
  \/ kardex[p][i].at = kardex[p][j].at /\ i < j

FirstBalance(p) == kardex[p][1].balance   \* variant: the oldest entry

\* _get_current_balance; every product of the model has an opening entry.
CurrentBalance(p) ==
  LET last == CHOOSE i \in DOMAIN kardex[p] :
                \A j \in DOMAIN kardex[p] \ {i} : Before(p, j, i)
  IN  kardex[p][last].balance

\* Sum of quantity_in - quantity_out over the entries of document d.
NetOf(p, d) ==
  SumFunction([i \in {j \in DOMAIN kardex[p] : kardex[p][j].document = d} |->
                 kardex[p][i].change])

KardexChangeOfWriteOff(t, p) ==   \* variant: write-offs recorded as entries
  IF t.kind \in {"ingreso", "baja"} THEN QuantityOf(t.lines, p) ELSE -QuantityOf(t.lines, p)

\* record_entry adds for entries (IN) and subtracts for every other type.
KardexChange(t, p) ==
  IF t.kind = "ingreso" THEN QuantityOf(t.lines, p) ELSE -QuantityOf(t.lines, p)

\* Approved documents are recorded as they take effect, after the stock of
\* every line is locked.
Records(t) ==
  t.operation = "approve" \/ (t.operation = "create" /\ InitialStatus(t.kind) = "approved")

NewEntry(r, p) ==
  [document |-> task[r].target,
   change |-> KardexChange(task[r], p),
   balance |-> CurrentBalance(p) + KardexChange(task[r], p),
   at |-> begun[r], reversal |-> FALSE, written |-> clock]

\* reverse_document: one entry per product that negates all entries of the
\* document, continuing the balance it read before the locks.
ReversalEntry(r, p) ==
  [document |-> task[r].target,
   change |-> -reading[r][p].net,
   balance |-> reading[r][p].balance - reading[r][p].net,
   at |-> begun[r], reversal |-> TRUE, written |-> clock]

BeginKardex(r) ==
  /\ Begin(r)
  /\ clock' = clock + 1
  /\ begun' = [begun EXCEPT ![r] = clock']
  /\ UNCHANGED <<kardex, reading>>

ReadKardex(r) ==
  /\ ReverseKardex(r)
  /\ reading' = [reading EXCEPT ![r] =
       [p \in Products |-> [balance |-> CurrentBalance(p),
                            net |-> NetOf(p, task[r].target)]]]
  /\ UNCHANGED <<kardex, clock, begun>>

CommitKardex(r) ==
  /\ Commit(r)
  /\ kardex' = [p \in Products |->
       IF p \notin ProductsOf(task[r].lines) THEN kardex[p]
       ELSE IF Records(task[r]) THEN Append(kardex[p], NewEntry(r, p))
       ELSE IF task[r].operation = "void" THEN Append(kardex[p], ReversalEntry(r, p))
       ELSE kardex[p]]
  /\ reading' = [reading EXCEPT ![r] = NothingRead]
  /\ UNCHANGED <<clock, begun>>

\* Everything else StockMovements does leaves the Kardex alone.
OtherStep(r) ==
  /\ \/ LockSequence(r) \/ MissSequence(r) \/ InsertSequence(r)
     \/ DuplicateSequence(r) \/ InsertLine(r) \/ MoveLine(r) \/ RefuseLine(r)
     \/ DeadlockVictim(r) \/ Abort(r)
  /\ UNCHANGED kardexVars

KardexNext ==
  \E r \in Requests :
    BeginKardex(r) \/ ReadKardex(r) \/ CommitKardex(r) \/ OtherStep(r)

KardexSpec == KardexInit /\ [][KardexNext]_<<vars, kardexVars>>

-----------------------------------------------------------------------------
(* Properties.                                                             *)

\* The movements recorded for a product add up to its stock, however the
\* requests overlap: kardex_entries and products.stock_actual are two records
\* of the same movements.
MovementsAddUpToStock ==
  \A p \in Products :
    SumFunction([i \in DOMAIN kardex[p] |-> kardex[p][i].change]) = stock[p]

\* The entries of a product were written in the order in which their requests
\* started, and a reversal by a request that started after the rest was there.
InOrder(p) ==
  \A i, j \in DOMAIN kardex[p] : i < j =>
    /\ kardex[p][i].at < kardex[p][j].at
    /\ kardex[p][j].reversal => kardex[p][i].written < kardex[p][j].at

\* Then its running balance is its stock.  Requests that overlap on a product
\* may break the order and with it the balance; nothing else does: requests
\* that wait for each other's rows and finish in the order they started in,
\* also after refusals and losses, continue each other's balance.
KardexAgreesWithStock ==
  \A p \in Products : InOrder(p) => CurrentBalance(p) = stock[p]
=============================================================================
