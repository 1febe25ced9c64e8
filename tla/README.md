# TLA+ specifications of Osiris Inventario (backend)

Osiris Inventario is an inventory system for a bookshop: a FastAPI application
(`src/app`) over PostgreSQL, with Redis for session keys and logged-out tokens. This directory
holds TLA+ modules that model its core, the TLC configurations that check
them, and proofs for TLAPS. Every definition follows the Python (and the one SQL
function the program depends on); `PROJECT.json` maps each to its lines.

## 1. The system

### How it runs

Every HTTP request runs one handler in an asyncio event loop. The handler gets a
database session of its own (`core/database.py`: `autoflush=False`,
`expire_on_commit=False`, PostgreSQL's READ COMMITTED), does all its work in one
transaction and commits at the end; an exception rolls everything back. Handlers of
different requests interleave at every `await`, and several worker processes may
serve one database. Only two kinds of row are ever locked explicitly: a document
sequence (`SELECT ... FOR UPDATE` in `generate_document_number`) and a
product (`SELECT ... FOR UPDATE` inside the SQL function `update_product_stock`).
A third lock is implicit: the foreign key of a document line locks its product `FOR KEY SHARE` as the line is
inserted, with other insertions and against `FOR UPDATE`. Everything else a handler checks, it has read without a lock.

### Components

| Component | State | Operations | Interacts with |
|---|---|---|---|
| **Stock movements** (`services/inventory_service.py`, `repositories/inventory_repository.py`, `update_product_stock`) | documents and lines, `products.stock_actual`, document sequences | create entry, exit, write-off, adjustment; approve, cancel, void | calls the Kardex in the same transaction; authorizes with user PINs |
| **Kardex** (`services/kardex_service.py`) | `kardex_entries`, `inventory_lots` | record a document under PEPS (FIFO) or weighted average; reverse a document | reads the method from the system parameters |
| **Inventory counts** (`inventory_service.py`) | counts, count lines, count sequence | create, update, apply | `apply_count` calls `create_ingreso` and `create_egreso`, each of which commits |
| **Sale exchanges** (`inventory_service.py`) | links between a sale, its return and its replacement | exchange, revert | creates and voids documents in one transaction; blocks voids |
| **Sessions and users** (`services/auth_service.py`, `core/deps.py`, `core/redis.py`) | users and refresh tokens in PostgreSQL; session keys and logged-out access tokens in Redis | login, refresh, logout, change and reset password, create, update and deactivate users | consulted by every request |
| **Categories and attributes** (`services/category_service.py`) | category tree, attributes of categories | create, move, deactivate, attribute changes, default bucket | products hang from leaves; attributes are inherited |
| **Products** (`services/product_service.py`) | products, codes, attribute values | create, update, status, import | categories, stock movements |
| **Catalogs, remapping** (`services/catalog_service.py`, `remap_service.py`) | value lists, pending remaps | CRUD, remap, deactivate | attribute values of products |
| **System parameters** (`endpoints/admin.py`) | key/value rows | update with validation | Kardex method, numbering, quantity mode |
| **Company, suppliers, customers** | one configuration row, two address books | CRUD | printed on documents |
| **Audit log** | append-only rows | log, query | written in every handler's transaction |
| **Reports, exports** (`endpoints/reports.py`, `endpoints/kardex.py`) | none | sales, closing of a day, consolidated, lists of documents, stock and its value, Kardex views | each derives the same facts from other tables or links |
| **Migrations, legacy import** | the schema | run once by an operator | |

### What is hard, and what makes each component correct

- *Stock movements.* Requests validate unlocked, then take a number, then lock
  products one by one. A request can be refused at any line, die, or be the victim of a
  deadlock (products are locked in the order the client wrote them, and shared by inserting lines before that). Correct:
  numbers have no gaps and no duplicates, stock is never negative, the stock is
  the sum of the approved documents, statuses move only pending -> approved |
  cancelled, approved -> voided, customer document numbers of sales are unique,
  every request ends.
- *Kardex.* A new entry continues the last balance; which is last is decided by
  `created_at`, that is, by the start of the transaction. Lots are consumed and put
  back; costs come with any number of decimals and are rounded at different moments. Correct: movements and balances agree
  with stock, lots with both to
  the rounding, each balance continues the one before it, what a voided document recorded is
  taken back in full, FIFO holds also after voids, the average restarts at zero stock.
- *Counts.* Applying a count commits two or three times. Correct: an applied count
  has moved each difference exactly once; a draft has moved nothing.
- *Exchanges.* Three documents point at each other and some operations look at
  the pointers without a lock. Correct: a sale has at most one live
  exchange, a document of a live exchange is never voided on its own, links are symmetric.
- *Sessions.* A session lives in two stores: a handler writes Redis at once and PostgreSQL when it
  commits, and may be lost in between. Refresh is read, revoke, replace, without a lock. Correct:
  one session per account, a refresh token is good for one successor, what was closed stays
  closed, only administrators govern administrators.
- *Categories.* Creations, moves, clean-ups of default categories and reactivations walk the tree unlocked.
  Correct: no cycles, nothing active below what is not, products arrive only at leaves, a deletion
  hides no stock (which it cannot promise, section 5).
- *Attributes.* Values are kept by name and follow changes of type, which rewrite them; what cannot be converted is queued.
  Correct: what a person entered, or what conversions made of it, is never lost, names are unique on a branch, catalogs in use stay.
- *Reports.* The same sales are told from links, from the credit of an exchange and from lines.
  Correct: the reports agree with each other, with the money and with the stock.

The list of places where these can go wrong is `hazards` in `PROJECT.json`.

## 2. Modules

```
Documents            kinds, types, statuses, lines, effects
  Ledger             what the inventory promises: no requests, no locks
  StockMovements     the handlers of InventoryService over PostgreSQL
    ConcurrentKardex       + the Kardex, quantities, and created_at
      StockMovementsProofs
  Exchanges          a sale, its return and its replacement: links, money and lock order
    SalesReports           + the reports on sales
      ExchangesProofs
Kardex               valuation: PEPS, weighted average, lots, rounding (handlers atomic)
  KardexReports            + the lists of documents, the valuation, the Kardex views
    KardexProofs
Counts               physical counts, posted as two adjustments that commit apart
  CountsProofs
Sessions             users, refresh tokens, access tokens, over PostgreSQL and Redis
  SessionsProofs
Categories           the tree, its default categories, the products filed in it
  CategoriesProofs
Attributes           attributes, catalogs, values of products, the queue of remaps
  AttributesProofs
Sums                 lemmas about sums over finite sets, for the proofs about stock and money
MC*                  instances of the above for TLC
```

The `*Proofs` modules hold theorems that TLAPS checks for every value of the constants. A definition
marked "variant" in a module is a plausible mistake in the definition it stands before; `mutants` in
`PROJECT.json` names, for each property, one that breaks it.

### Documents, Ledger

`Documents` holds the vocabulary. A document names each product at most once here
(the program allows repetition; `Kardex` has lists of lines that allow it).
Prices, dates and texts are left to the modules that need them.

`Ledger` is the abstract specification: four actions `Post`, `Approve`, `Cancel`, `Void`,
each of which changes a status and moves the document's whole effect, atomically,
with the next number of the type.

### StockMovements

Committed data (`documents`, `stock`, `lastNumber`) and locks (`sequenceLock`,
`rowLock` and `keyLock`) are shared; `pc`, `task`, `number`, `position` and `change` are what one
handler keeps between awaits. A handler's first step (`CreateIngreso`, ...,
`VoidDocument`) stands for its unlocked reads and checks; `change` is the stock it has moved and not
committed. The steps after it are the awaits that lock, wait or commit:

| Action | Code |
|---|---|
| `LockSequence`, `MissSequence`, `InsertSequence`, `DuplicateSequence` | `generate_document_number`: the row exists; it does not; inserting it; inserting it second (unique key) |
| `InsertLine` | `create_document` inserts the next line, whatever the status of the document: its foreign key locks the product `FOR KEY SHARE` |
| `MoveLine`, `RefuseLine` | `update_product_stock` for one line: lock the row, then change it or raise INSUFFICIENT_STOCK |
| `ReverseKardex` | `reverse_document` reading balances before `void_document` locks a row |
| `Commit` | the flush of the status or the new rows, the audit row, COMMIT |
| `DeadlockVictim`, `Abort` | PostgreSQL's deadlock detection; a lost connection or process |

A status is written blindly (`UPDATE ... SET status`), as SQLAlchemy does for a row with
no version column: `Commit` does not look at the committed status again.

`rowLock` has the request that holds a product `FOR UPDATE`, `keyLock` those that hold it `FOR KEY SHARE`. A line is inserted
when nobody else updates its product, stock moves when nobody else updates or shares it. `WaitsFor` follows, and with it
`InDeadlock`: a request that waits, through any number of others, for itself. A creator inserts all its lines before it moves
the first, so an entry and an exit of one product, on different sequences, deadlock with one line each.

The constant `SameDocument` says whether the environment may run two requests on one document at a time. It turns what the
code needs from its users into something that can be stated: with `FALSE` the handlers implement the `Ledger`; with
`TRUE` they do not. Products are shared freely in all runs.

### ConcurrentKardex

Adds to each of those steps what it does to `kardex_entries`. `begun` is the
transaction's `now()`, the default of `created_at`. The balance a handler continues is read when it
holds the rows of its products (recording) or before it holds any (`ReadKardex`, reversing). Requests overlap on a product as they
like. Two properties say what is then left: `MovementsAddUpToStock`, the quantities recorded add up to the stock, always; and
`KardexAgreesWithStock`, the running balance is the stock as long as the entries were written `InOrder`, that is in the order
of their requests' start
(and a reversal by a request that started when the rest was there). So handlers that wait for each other's rows do continue
each other's balance;
what breaks it is only that order (section 5).

### Kardex

The same service one handler at a time, with costs, lots, both methods,
`ROUND_HALF_UP` at four decimals and the session's flushes: `Session` keeps
rows already flushed apart from rows only added, because `_get_current_balance`
sees only the former. What a column holds is counted in units of 0.0001; a cost that a client gives in parts of such a unit
(`Grain` of them in each), because `unit_cost` has any number of decimals and is rounded only by the columns: `Incoming`
computes the balance from the
cost in memory and `Column` rounds the balance, the lot's cost and the entry's each on its own. Three units at 1.33333 make a
balance of 4.0000 and a lot of 3 at 1.3333. Quantities are whole. `CreateIncrement` and `CreatePositiveAdjustment` resolve
the cost of stock that was found
(`Resolved`) and refuse it where there is none. `SetMethod` and
`NewYear` model the one system parameter that stored data depends on.

The loops of the service are functions of the turns made: `RecordEntry` over the lines of a document (`RecordLine`), and
`ConsumeLots` over the lots its query returned (`TakeFrom`, in the order `OldestFirst`). The loop of `reverse_document` adds to
different columns of different lots, so it is one step: `Restored` is each lot after the entries of the document about it.

### Counts

`counts` holds the committed rows of `inventory_counts` with their lines, `adjustments` the
documents that applying them created. A line carries the stock the system held when the line was
saved and the quantity found. A request reads the count unlocked (`CreateCount`,
`UpdateCount`, `ApplyCount`) and then goes through the commits of its handler:

| Action | Code |
|---|---|
| `Save` | `create_count` or `update_count` commits; `delete-orphan` removes the lines the handler read |
| `PostPositive`, `RefuseCost` | `create_ingreso("adjustment_positive")` commits, or raises UNIT_COST_REQUIRED |
| `PostNegative`, `RefuseNegative` | `create_egreso("adjustment_negative")` commits, or raises INSUFFICIENT_STOCK |
| `MarkApplied` | the status and the links to the adjustments commit |
| `Lose` | a lost connection or process between two awaits |
| `OtherMovement` | any other document changes stock, as the `Ledger` lets it |

An adjustment is one step here: `StockMovements` implements `Ledger` (run `MovementsLedger`), whose
documents take effect at once. `SameCount` says whether two requests may work on
one count at a time, and `Faults` whether requests may be lost.

### Exchanges

`documents` holds the committed documents with their three exchange links. An exchange
is one transaction over many rows: `plan` is the list of rows the handler
has still to lock, with what it adds to each. `ExchangePlan` shows the order: the
sequence of entries, the returned products, the sequence of sales, the products sold. A plain
sale (`SalePlan`) takes the last two only, so the two orders can form a cycle. (Inserted lines share their products here too, as in
`StockMovements`; these locks are left out. They only add deadlocks, each of which ends in a rollback, and an `Abort` may
roll back a handler at any step.)

| Action | Code |
|---|---|
| `Sell`, `Exchange`, `Revert`, `Void` | the unlocked reads and checks of `create_egreso`, `exchange_sale_document`, `revert_sale_exchange`, `void_document` |
| `Lock`, `Refuse` | `generate_document_number` or `update_product_stock` for the next row, or INSUFFICIENT_STOCK |
| `Commit` | the new rows, statuses and links |
| `DeadlockVictim`, `Abort` | as in `StockMovements` |

Lines keep the price of the day of their request (`Prices`). The credit of a return, the cash the
customer adds and the payments of each document are part of `Commit`; `drawer` is the money that
came in less what reversions and voids gave back, kept for the properties. An exchange may not return more
than its replacement costs. Discounts, PINs and the cost of returned goods are left out: none of them decides about
links, stock or money, and a failure of their checks is an `Abort`.

### SalesReports, KardexReports

Reports are functions of the state of `Exchanges` and of `Kardex`. `SalesReports` has `/ventas` with its
groupings by day, month and seller, `/cierre-dia`, `/consolidado` and `/movimientos-por-usuario`; a document is
dated by the day of its request. `KardexReports` has the lists of documents, read page by page with
the cursor of the endpoint, `/stock`, `/stock-valorizado`, and the Kardex of a product as `/reports/kardex`
and `/kardex/{product_id}` show it. A page is the set of its documents (its last one is the oldest), and reading a
list to its end gives, of each document, how often the client has received it (`AllPages`); a range of dates is
a range of places in the Kardex of a product. A report is read in one moment, where the program runs
several queries.

### Sessions

`account` and `refresh` are PostgreSQL, `session` and `blacklist` are Redis, `access` and `held` say which
access tokens exist and which of them a client has received. A handler takes three steps:

| Action | Code |
|---|---|
| `Login`, `Refresh`, `Logout`, `ChangePassword`, `ResetPassword`, `CreateUser`, `UpdateUser`, `DeactivateUser` | the unlocked reads and checks; `task` keeps what was read |
| `SetSession`, `CloseSessions`, `BlacklistToken`, `DeleteSessions` | what the handler tells Redis, at once |
| `CommitLogin`, `CommitRefresh`, `CommitRevocation`, `CommitPassword`, `CommitAccount` | COMMIT |
| `Lose` | the transaction or the process is lost; Redis keeps what it was told |
| `SessionExpires`, `RefreshExpires` | the inactivity timeout; the end of a refresh token |

A bulk revocation writes the rows that exist when its UPDATE runs (`rows` of the task). `Disturbs` names
the pairs of handlers that must not work on one account at a time when `SameUser` is `FALSE`: one opens a session
while the other opens or ends one, or both manage the account.

### Categories

A request decides all its writes in one step (`CreateCategory`, `MoveCategory`, `DeleteCategory`, `CreateProduct`,
`MoveProduct`, `Reactivate`, `Recategorize` and others) and writes them in another (`Commit`): only the columns it
assigned, over whatever others have committed. `touched` is the set of categories it reads or
writes; `SameCategory` says whether two requests may touch one. Sessions do not flush before they
query, so `MoveProduct` still counts the moved product in its old category (`Emptied(c, Direct(c))`) while
`Recategorize`, which has written an audit row, does not (`LeftAfter`). Documents that move
stock are the action `StockMoves`.

### Attributes

One request at a time: `attribute` and `catalog` hold the rows, `shown` and `hidden` how many active and inactive
values of each text a catalog has, `custom` the JSON column of each product, `queue` the rows of
`pending_attribute_remap`. `Cast` is the conversion between types with its failures, `Migrate` a change of
type over all the values of a branch. Two variables are history: `entered`, what a person last entered and has
not taken back, and `unchecked`, attributes that came into force along a way that does not ask for the name.
Conversions rewrite what they read: `Reading` says what each parsed type (integer, decimal, boolean, date) makes of each
text, `Nil` where it cannot read it; a date reads ten characters and drops the rest. Saving a product checks a value (`Accepts`) and
rewrites nothing. The properties ask for the text a person entered or a version of it: `Versions` is what conversions that
succeed can make of a text, one
after another. Not modelled: the sign of numbers and what is no number but reads as one (`nan`).

## 3. Runs

| Run | Instance | What it shows |
|---|---|---|
| `MovementsLedger` | 3 requests, 2 products, all operations, one global order of lines, no two requests on one document | types, gapless numbers, the inductive invariant of the proofs, who can deadlock, and that `StockMovements` implements `Ledger` |
| `MovementsProgress` | 3 requests, lines in opposite orders, a customer document number, fairness | every handler that starts ends, also out of a deadlock, by the order of lines or by their foreign keys |
| `MovementsDoubleVoid` | 3 requests on one document | *violation*: two voids both pass the status check and the stock moves twice |
| `KardexOverlapping` | 3 requests, 2 products, lists of lines that share a product, no two requests on one document | the movements recorded add up to the stock; the running balance is the stock where the order was kept |
| `KardexValuation` | 1 product, 4 documents, costs in thirds of a unit, PEPS or weighted average, a second year with a change of method | balances, lots, sums, voids and FIFO order; the lists, the valuation and the Kardex views tell the same stock |
| `KardexIncrement` | PEPS, entries and increments | *violation*: an entry of one unit, an increment of one more at the cost resolved from it, its approval: two in stock, none in the Kardex |
| `CountsApplied` | 4 requests, 2 products, 1 other movement, losses anywhere | the documents an applied count names have moved exactly its differences; a successful attempt leaves nothing else behind |
| `ExchangesLinked` | an opening sale and 3 requests on two days, a price change, two sellers, fairness | the links agree, nothing comes back twice, stock is the sum of the documents, the reports on sales agree with each other, with the stock and with the drawer, every request ends |
| `SessionsSerial` | the administrator and 1 followed user of any role, 2 requests, 3 refresh and 3 access tokens, losses | one refresh token in force per account, closed stays closed, administrators answer to administrators |
| `CategoriesApart` | 3 categories, 2 products, 2 requests | no cycles, nothing stranded, arrivals at leaves |
| `AttributesSerial` | 2 categories, 2 attributes, 2 names, 2 catalogs, 1 product, 4 requests in a row | no entered value is lost through changes of type, of name and of place; names are unique; catalogs in use stay |
| `AttributesDeletion` | the same with 1 catalog | *violation*: deleting an attribute whose only values wait in the queue deletes them |

**Bounds.** In `StockMovements`, three requests are two that race and one that made the document
they race for, and the smallest number in which a rollback can happen between two numbers of
a type; requests are interchangeable, and symmetry is used wherever no liveness is checked. Two products are needed for a
deadlock by the
order of lines and for a partial failure, one for a deadlock by the foreign key; quantities 1 and 2 against stocks 2 and 3
make refusals at the
first and at the second line. `MidYear` gives exits no sequence row yet, so the first number of a year is
raced for.

`Kardex`: four documents suffice for entry, entry, exit over both lots, void of
it, which puts stock back into an old lot, and (`OldestLotFirst`) for two
entries, an exit, its void and what follows it within the bound; costs of 602 and 904 thirds of a unit are held exactly
by no column and make averages that round. `FewerInSecondYear` bounds histories that cross into a second year to three
documents. Pages of
two documents (`PageSize`) are crossed once or twice.

Counts start from two units of each product, of which one or three are found, so that every count
has a rise, a fall or both (what is not counted has no line; the schema refuses a found
quantity of zero). Four requests are a creation, an update and two attempts to apply.

Exchanges start from a sale of two units by `r0` with one more in stock; three more requests are an exchange, its reversal
and a second exchange, or an exchange racing sales for the same rows. `r0` and `r1` run on the first day at
a price of 2, `r2` and `r3` on the second at 3, so that what comes back is worth less than
what replaces it; two units at the old price pay for the other product, at the new price
they would pay for more than it.

`Sessions`: two requests are enough for a login or a refresh that overlaps an end of the session; three tokens of
each kind are a session, its successor and one more after a close. The followed user is created, promoted or
demoted and deactivated within `MaxUpdates = 2`; one change of password (`MaxPasswords = 1`). `Categories`: three categories
are a parent with its child and default child, or a cycle's worth of moves. `Attributes`: a word, and a number written with a
zero before it, of which conversions make another number and then a truth value, make every conversion fail, succeed or
rewrite; `MaxRows` bounds equal rows.

**What does not overlap.** `SameSale`, `SameCount`, `SameUser` and `SameCategory` are `FALSE` in the passing runs, and
`SameDocument` in all of
them but `MovementsProgress`: two requests then do not work on one sale, count, account, category or document at the same time. Nothing
in the code sees to it. What these runs show is therefore about each handler, the
sequences of handlers and their interleaving on *different* objects (with shared stock, sequences, tree, stores), and not about
the races on one object, which do go wrong: section 5 has them, and the hazards that are such races say so.

**Deadlock checking** is off everywhere: a request runs once in these models, and
when all have ended the system rightly stops. Waiting in a cycle is a
property of its own (`OnlyCreatorsDeadlock`, `EveryRequestEnds`).

**Fairness.** `FairSpec` assumes weak fairness of each handler's steps and of
PostgreSQL's deadlock detection. A step is an await that completes once its lock is
free: the event loop resumes ready tasks, and PostgreSQL grants a freed row lock to
a waiter; because a request sends finitely many statements, and each holder of a lock
ends, weak fairness is enough. Sending a request is not fair, nor is an `Abort`.

## 4. Proofs

Theorems hold for every value of the constants; the assumptions on constants are named in the modules and TLC
evaluates them in each run. Each proof rests on an inductive invariant, and each of those says the same kind of
thing: **what a handler read when it started and still relies on when it commits**. The proofs then show
that steps of others leave it alone.

What a theorem assumes is stated in it: that requests do not share a document, a sale, a count, an account or a category
(`~SameDocument`, ...; without it the properties are false, section 5), and, where there are sums, that the sets they range
over are finite.

### Sums

Stock, money and differences are sums over sets of documents or lines. `Sums` shows of `SumFunctionOnSet`
what those proofs need: it unfolds at any element, changes by what one or two of its terms change, splits over disjoint
sets, stays a natural number. The definition is a recursive function over the subsets of the set; the
induction is made by hand, as a smallest set at which the claim fails, because the library's induction theorems take
an operator.

### StockMovementsProofs

| Theorem | Assumes | Says |
|---|---|---|
| `TypeCorrect`, `NumbersHaveNoGaps` | | `[]TypeOK` (committed stock is never negative), `[]NumbersConsecutive` |
| `ImplementsLedger` | `~SameDocument` | `Spec => LedgerSpec`: the handlers implement the ledger |
| `StockAddsUp` | `~SameDocument`, finitely many requests | the stock is the initial stock and the effects of the approved documents |
| `DeadlocksNeedCreators` | `LinesInOneOrder` | `[]OnlyCreatorsDeadlock`: a cycle of waiting, of any length, holds two creators of documents of different types that share a product |

`NumbersConsecutive` is not inductive: from a state in which two handlers hold the number 7, both
may commit. `IInv` adds what excludes it. `SequenceOwner`: a creator past its number
holds the sequence row, and its number is one more than the committed one (so a rollback
burns nothing, and no other handler can take or commit a number meanwhile). `RowOwner`:
uncommitted stock belongs to the holder of the row and the sum with the
committed stock is not negative (so `Commit` keeps `stock` in `Nat`).
`HandlerState` and `HandlerTarget`: what a handler knows at each await.

`WorkInv` adds what a handler has done: `Moved`, that `change` is the effect of exactly the lines before
`position`; `StillAsRead`, that the document it works on has the status and the lines it was read with; and which rows it
holds. The refinement follows step by step: `Commit` of a creation, approval, cancellation or void is `Post`,
`Approve`, `Cancel` or `Void` of the ledger, and everything else leaves the ledger's variables alone. `StillAsRead` is what
`~SameDocument` buys: without it the step of a second void is no step of the ledger. In
`DeadlocksNeedCreators`, everybody in a cycle is waited for, so everybody is past its sequence and waits for a row, to insert
a line or to
move its stock. If a creator moves stock, whoever it waits for is a creator of another type that shares the row: it has
shared it itself, so nobody updates it, and the sequence keeps creators of one type apart (`CreatorWaits`). If none
does, what a request waits for comes in the lines of its holder before the one the holder is at
(`HeldBefore`), so the ranks ascend along the cycle, and the request that waits for the row of the least rank would be waited
for by nobody. Without the hypothesis clients can
make any two handlers deadlock by listing products in opposite orders.

### StockMovementsProofs, the Kardex

`MovementsAreStock` and `KardexFollowsStock`: what the Kardex records adds up to the stock, and its running balance is the
stock wherever the
entries were written in order. They assume `~SameDocument` and no increments (the Kardex records these as exits, run
`KardexIncrement`); requests overlap on products. `KInv` adds to `WorkInv` `Recorded` (an approved document is recorded with
its whole effect, another with none), `ReadStands` (what a void read of
its document before it had locks stands until it commits, and the balance it read too, unless an entry was written after it
started), and the two
claims themselves.

### KardexProofs

| Theorem | Says |
|---|---|
| `TypeCorrect` | no negative stock; no lot holds more than was received into it |
| `BalancesFollowStock` | `[]BalancesAgree`: the balance of a product's Kardex is its stock, under either method |
| `LotsHoldTheStock` | `[]LotsAgree`: under PEPS the lots hold the stock, and the Kardex values it at their cost to a unit per piece received |
| `EntriesContinue` | `[]EntriesAddUp`: each entry continues the one before it, values to half a unit per piece and another |
| `VoidsLeaveNothing` | `[]VoidedLeavesNothing`: the entries of a voided document cancel out and its lots are empty |
| `OldestLeavesFirst` | `OldestLotFirst`: an exit takes from a lot only when the older ones are empty, also after a void refilled one |
| `DocumentReportsAgree` | `[]ReportsAgree` of `KardexReports`: the paged lists, the valuation and the Kardex of each product tell the same stock; finitely many products |
| `RangesAddUp` | opening balance, movements and closing balance of `/reports/kardex` add up over every range, from any entry to any later one (the run: over the whole) |

All assume `Regular`, and each part of it is one of the disagreements of section 5: a document names a product on one line (a second
line reads a stale balance), there are no increments (they are recorded as exits), nobody changes *to* PEPS (the stock in
hand would have
no lots). `KardexValuation` is an instance of it. Products, lines, costs and their `Grain`, the number of documents and of
years, and changes away from PEPS are arbitrary.

The properties are far from inductive: that a lot holds what is left of it says nothing about what a void
will put back. `GoodFor` says, of one product, how its entries and lots hang together. Each lot holds what the entries that name it, of
documents in force, moved (`Holds`, and `ArrivesOnce`: one of them at most brought it); these moved it at its own cost and in
the direction of
their document (`AtCost`); every entry continues the one before it (`Chain`); and under PEPS the lots make up the balance and every
entry of a document in force names one (`Valued`). `Recorded` says that the entries of a document moved its quantity, or
nothing once it is
voided. Adding one entry with its lot keeps `GoodFor` (receiving, taking from a lot, the weighted average), so it holds after
each turn of
the loops. That the loop of `ConsumeLots` finds enough follows from `Valued` and from the stock the trigger has checked: it stops
with nothing remaining, hence the balance moves by the whole line. A void takes the document's entries out of every
`Standing` set at once, and
the lots change by exactly those sums; the difference of the two sums of values is what `reverse_document` computes as the
net value, so `Worth` keeps
pace. The balance counts a receipt before its cost is rounded and the lot after it; what lies between is `Near`: a unit at
most for each piece that came into
a lot (`ReceiptRounds`), to which exits and voids add nothing, as they take value out of both at the lot's cost. Within one entry,
`Drift` is at most half a unit per piece, for a cost the column or the void rounded, and half a unit for the value.

The reports need no further invariant: they follow from `Inv` of the state they are read in. `PageIs`: a page leaves out nothing of its
list between its last document and the cursor, so the next cursor continues where it stopped, and by the least cursor at
which this fails
`AllPagesIs` gives every document once, whatever the size of a page. `ChainAddsUp` adds up the balances from any entry on.
`NetByDocument` splits the entries of a product by document, each part being what `Recorded` says of it; so the documents
that are approved
(`StockIs`), and the entries that `/kardex/{product_id}` shows, add up to the balance. The total of the valuation
splits the lots by product, each part being near the value that `Valued` ties to the last entry (`SumsClose`).

### CountsProofs

`TypeCorrect` and `CountsApplyWhatTheyFound` (the documents an applied count names
moved exactly its differences, and a successful attempt left no other behind), for `~SameCount` and
finitely many products. `DraftInWork` says that the count a handler works on is still the draft it read, through all the
commits of `apply_count`;
`Apart` and `NotYetCreated` keep others away from it. `AInv` adds `Attempts`, which of its two documents an attempt has posted at
each step, and `Settled`, that an applied count names those of one attempt that ended well.

### ExchangesProofs

For `~SameSale` and, except for the links, finitely many requests: `TypeCorrect`, `LinksAlwaysAgree`, `StockAddsUp` (stock
and drawer are the
sums of the documents in force), `ReturnsWithinSold`. `Fit` is what a handler read of its sale; `AgreesAbout` splits
the links by document, so that each kind of commit is shown once for the documents it writes and once for the rest. For the stock,
`Moving` says that what a handler has moved and what its plan has still to move make up its task, `Held` that it moved only rows it
holds; a commit then changes the shares of two documents by what it publishes (`Settles`), and a sum changes by what two of its
terms change.

The reports on sales: `SalesReportsAgree` (`[]ReportsAgree` of `SalesReports`, for every range of days the clients may ask for: the
sales report, the closings and the consolidated report tell the same sales, and the groupings by day, month and seller are each the
whole) and `DrawerHoldsTheClosings` (`[]DrawerAgrees`). `StockInv` is not enough for them, because `/ventas` takes off the goods
that came back, `/cierre-dia` the credit that was given for them. `Twins` (`TwinsStayTogether`, invariant together with
`StockInv`) closes
the gap: a replacement and its return exist together, have one status and one day, and the sale's credit is the worth of the return at
the prices of that day. A closing is then what is due for its documents (`ClosingsAre`), the drawer the same sum over all
days, and each grouping
a sum in parts (`SumParts` of `Sums`).

### CategoriesProofs

For `~SameCategory`: `TypeCorrect`, `TreeWellFormed` (`Acyclic`), `NothingIsStranded`, `ProductsArriveAtLeaves`. For a pending
request, `Hung` says that the branch it moves is cut off from the rest and its new parent outside, `Placed` and
`Kept` that what it activates is below an active category and what it closes leaves nothing behind, `AtLeaves` that its
products go to leaves. Acyclicity is stated over sets: a set of categories none of which has its parent outside would, without
the moved branch, already have been one before.

### SessionsProofs

For `~SameUser`: `TypeCorrect`, `OneSession` (at most one refresh token of an account is not revoked; access tokens
made before it keep working), `SessionsClosed`.
`Fit` is what must still hold of a task until it commits, `Calm` what a step
of another request must leave alone for that; `OneLive` and `ClosedHasNone` tie the two stores together, `Owned`
gives tokens an owner, `Undisturbed` says which requests never overlap.

### AttributesProofs

`TypeCorrect` and `NothingEnteredIsLost` for all constants; `NamesStayUnique` and `CatalogsStayInForce` for finite trees.

`NothingLost` is not inductive: a change of type could take out a value that no longer has to do with what was entered.
`Faithful` says that what a
product holds is a version of what was entered, `Asked` that the rows of the queue are about attributes that exist; then a
value that cannot be
converted goes to the queue as the version it is, and one that can becomes another (`Versions` are closed under `Reading`,
whatever `Reading` is).

`NamesUnique` needs the shape of the tree: an attribute is inherited along a line of ancestors, which is a chain, so of the
attributes of one name on it one is nearest to the root, and `Inherited` finds it. `MoveNames` is the hard step: a
move adds to a line only the line of the new parent; if an attribute of the branch and one above the new parent had one name, the
check of the move, which asks only for what the parent *inherits*, would have found it.

### Only model-checked

- Liveness (`EveryRequestEnds` in its two forms): fairness and ENABLED are beyond TLAPS.
- `Kardex` outside `Regular`: `KardexIncrement` shows one of the ways in which the books then disagree.
- That the constants can be as the theorems assume: the runs are instances of them.

## 5. Where code and documents disagree

Runs exhibit the three `findings` of `PROJECT.json`. Others were met while modelling and have no run of their own. Apart from
the double void and the order of Kardex entries, no property above speaks of the races on one object listed here: the runs
and theorems exclude them.

*Stock movements and Kardex*

- `approve_document` and `cancel_document` of one document can both succeed; the last to
  commit writes the status, so a cancelled document may have moved its stock
  (the reason `LedgerSpec` needs `SameDocument = FALSE`).
- Two overlapping sales can get the same customer document number: it is looked up without a lock and has no unique
  key (`inventory_service.py:664`); tests/test_inventory_movements.py:244 and 283 try it one after the other.
- Two overlapping entries of one product are ordered by `created_at`, the start of the transaction, while the balances
  follow the order of commit (`models/kardex.py:46`; openspec/specs/kardex/spec.md:85-86): the last one by date may not be
  the one with the
  balance of today, and the next document continues it. A void that reads the balance before it locks the rows continues one that
  others have left behind (`kardex_service.py:83`). `KardexAgreesWithStock` is about the other cases.
- An entry and an exit of one product, of one line each, can deadlock: both have inserted their line
  (`inventory_repository.py:93-96`) and
  each wants to update the product the other shares. PostgreSQL fails one of them, and nothing tries it again.
- Weighted average: a void may leave value with no stock, which enters the next average (`kardex_service.py:85`;
  openspec/specs/kardex/spec.md:64).
- A document with one product on two lines reads a stale balance for the second
  (`kardex_service.py:109`), as nothing flushes the first entry.
- Costs are not rounded when they come in (`schemas/inventory.py:158`): the balance of the Kardex and the cost of its lots
  drift apart by the
  rounding of each receipt (`kardex_service.py:113-125`), and so does the valuation.
- After a change from weighted average to PEPS the stock in hand has no lots: exits
  consume none, write no entry and raise no error (`kardex_service.py:161`).
- `update_param` accepts `peps`, stores it as given, and the Kardex
  compares with `PEPS` (`admin.py:122`).

`KardexValuation` therefore has one line per document, no increments and changes
the method only from PEPS to weighted average.

*Counts*

- A count refused half-way is a draft again, and applying it again posts its first half again
  (`inventory_service.py:1039`; tests/test_inventory_counts.py:111-112).
- Two overlapping updates of a count each delete the lines they have read and add their own, so
  the count keeps both sets; an update that overlaps `apply_count` changes the lines of an applied
  count (the reason for `SameCount = FALSE`).
- A product of which nothing is found cannot be counted: the schema asks for a
  `physical_quantity` above zero.

*Exchanges and reports*

- A second exchange, or a void, that overlaps an exchange of the same sale passes the unlocked checks
  of status and links; tests/test_inventory_movements.py:1401 and the tests after it try
  them only one after the other (the reason for `SameSale = FALSE`).
- `/ventas` nets exchanges only, `/cierre-dia` also takes off plain customer returns, so the two differ as soon as there
  is one; `products_sold` includes units that came back later.
- A later void changes the closing of a past day; the closing is not stored.
- A page of documents is cut by id and ordered by `created_at` (`reports.py:451-453`), which differ for overlapping requests.
- `/stock-valorizado` as of a date before a product's first entry shows its stock of today at no cost (`reports.py:1316-1326`).
- `/kardex/{product_id}` hides the entries of voided documents but shows stored balances that include them.

*Sessions*

- Two overlapping refreshes with one token both succeed (openspec/specs/user-auth/spec.md:53-55, README.md:327), and a refresh or login
  that overlaps the end of a session or a change of password outlives it; two administrators at work on one account
  may each decide by what the other has changed. With `SameUser = TRUE` all three properties fail.
- Logout and `change_password` take only the access token they were sent out of use, though the comment says
  "Invalidate all sessions"; other access tokens of the account work until they expire. (A refresh leaves the one before it in
  use.)
- `must_change_password` keeps nobody from any endpoint.
- `DELETE /users/{id}` refuses oneself, `PATCH` lets a user deactivate or demote themselves.

*Categories and attributes*

- With `SameCategory = TRUE` two moves make a cycle, a product arrives in a category that is being given a child or
  deleted, active rows end below an inactive category, and two default children make `get_default_child` raise from then on.
- A deletion looks at the stock of its products before it commits (`category_service.py:270-296`); a document that brings stock in
  between, of which the model has the step (`StockMoves`), leaves stock in an inactive product.
- A default category that becomes empty is deactivated although active children hang from it; products can be gathered in a
  default child that has children; moving a category below a leaf leaves the leaf's products where they are.
- `update_product` counts before its own move is flushed (`product_service.py:440-443`), so the default category it
  empties stays.
- `reactivate_attribute`, and a move with `reset_custom_attributes`, do not compare names
  (openspec/specs/product-catalog/spec.md:47), and the former may bring back an attribute whose catalog was deleted; hence `unchecked`.
- Renaming an attribute leaves its values under the old name
  (openspec/changes/ux-ui-redesign/specs/attribute-management/spec.md:8); the spec says a
  change of type is blocked while there are values (lines 20-30), the code converts them.
- A conversion that succeeds may still drop something: the zero of 007, what follows the ten characters of a date
  (`category_service.py:66-91`). Neither the product nor the queue has it afterwards.
- A late answer from the queue overwrites a newer value; `set_value_active` does not ask whether the text is free.

## 6. Not modelled

- Suppliers, customers, the company row: CRUD on independent rows, with validation of single fields. Their audit row goes in a second
  commit (`endpoints/inventory.py`), and may be missing after a crash.
- The audit log: append-only rows in each handler's transaction; no state depends on them.
- Authorization codes and PINs (`inventory_service.py:1153-1184`, `1313-1348`): their refusal is a request that does not
  start, or an `Abort`.
- Other system parameters: texts, validated when written and read when used. Only `kardex_method` decides about stored data.
- Products: codes, photos, prices and the list queries; discounts of sales; failed logins and their lockout.
- The layout of exports and templates; the several snapshots that one report reads.
- Schema migrations and the legacy import: scripts that an operator runs once.

## 7. Plan

Done: all modules of section 2 and the theorems of section 4; every invariant and every safety property that a passing run checks is a
theorem. What is left, in order of value:

1. A report that reads several snapshots, beside handlers that commit in between.
2. `Attributes` with two requests at a time, composed with the moves of `Categories`.
3. The address books with their second commit.
