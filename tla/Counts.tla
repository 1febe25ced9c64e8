-------------------------------- MODULE Counts --------------------------------
(***************************************************************************)
(* Physical counts of the stock (create_count, update_count and            *)
(* apply_count of InventoryService).                                       *)
(*                                                                         *)
(* Saving a count writes down, per product, what was found and what the    *)
(* system held at that moment.  Applying it does not set the stock: it     *)
(* posts the differences, found minus held, as one positive and one        *)
(* negative adjustment.  Each adjustment is created by the handler of its  *)
(* kind, which commits; the count is marked in a third transaction.  A     *)
(* failure between them leaves a draft with half its differences posted.   *)
(*                                                                         *)
(* An adjustment is posted in one step, as the Ledger lets us; a count is  *)
(* identified by the request that creates it, an adjustment by the request *)
(* that applies and its side.                                              *)
(***************************************************************************)
EXTENDS Integers, FiniteSets, Functions

CONSTANTS
  Products,
  Requests,        \* requests on counts; each runs at most one handler
  Found,           \* quantities a product may be found in, never none
  InitialStock,
  Movements,       \* what other documents may add to the stock of a product
  MaxMovements,    \* bound: movements by other documents
  SameCount,       \* may two requests work on one count at a time?
  Faults,          \* may a request be lost between two awaits?
  Nil

ASSUME CountsAssumption ==
  /\ Nil \notin Requests
  /\ Found \subseteq Nat \ {0}
  /\ InitialStock \in [Products -> Nat]
  /\ Movements \subseteq Int
  /\ MaxMovements \in Nat
  /\ SameCount \in BOOLEAN /\ Faults \in BOOLEAN

VARIABLES
  counts,          \* committed inventory_counts with their lines
  adjustments,     \* committed documents created by apply_count
  stock,           \* committed products.stock_actual
  moved,           \* movements by other documents so far
  pc,              \* next await of each request
  task             \* what each request is doing, with the lines it read

committed == <<counts, adjustments, stock>>
vars == <<committed, moved, pc, task>>

\* Rows are told apart by the request that saved them.
CountLine == [saver : Requests, product : Products, system : Nat, physical : Nat]

Count == [status : {"draft", "applied"}, lines : SUBSET CountLine,
          positive : Requests \cup {Nil}, negative : Requests \cup {Nil}]

ASSUME NilAssumption == Nil \notin Count

Adjustment == [count : Requests, applier : Requests, side : {"positive", "negative"},
               quantity : [Products -> Nat]]

Task == [operation : {"create", "update", "apply"}, count : Requests,
         read : SUBSET CountLine, lines : SUBSET CountLine]

Steps == {"save", "positive", "negative", "mark"}

TypeOK ==
  /\ \A c \in Requests : counts[c] = Nil \/ counts[c] \in Count
  /\ adjustments \subseteq Adjustment
  /\ stock \in [Products -> Nat]
  /\ moved \in 0..MaxMovements
  /\ pc \in [Requests -> Steps \cup {"idle", "done", "failed"}]
  /\ \A r \in Requests : task[r] = Nil \/ task[r] \in Task

Init ==
  /\ counts = [c \in Requests |-> Nil]
  /\ adjustments = {}
  /\ stock = InitialStock
  /\ moved = 0
  /\ pc = [r \in Requests |-> "idle"]
  /\ task = [r \in Requests |-> Nil]

-----------------------------------------------------------------------------
(* Differences.                                                            *)

Difference(line) == line.physical - line.system

DifferenceOf(lines, p) ==
  SumFunction([l \in {k \in lines : k.product = p} |-> Difference(l)])

RiseToPhysical(lines) ==   \* variant: adds what was found, not what was missing
  [p \in Products |->
     SumFunction([l \in {k \in lines : k.product = p /\ Difference(k) > 0} |-> l.physical])]

\* positive_lines and negative_lines, per product.
Rise(lines) ==
  [p \in Products |-> DifferenceOf({l \in lines : Difference(l) > 0}, p)]

Fall(lines) ==
  [p \in Products |-> -DifferenceOf({l \in lines : Difference(l) < 0}, p)]

Rises(lines) == \E l \in lines : Difference(l) > 0

Falls(lines) == \E l \in lines : Difference(l) < 0

-----------------------------------------------------------------------------
(* Starting a handler: what it reads, unlocked.                            *)

Active(r) == pc[r] \in Steps

\* _get_count_or_fail and _assert_count_editable
Editable(c) == counts[c] # Nil /\ counts[c].status = "draft"

Start(r, t, step) ==
  /\ pc[r] = "idle"
  /\ SameCount \/ \A q \in Requests : Active(q) => task[q].count # t.count
  /\ pc' = [pc EXCEPT ![r] = step]
  /\ task' = [task EXCEPT ![r] = t]
  /\ UNCHANGED <<committed, moved>>

\* _build_count_lines: one line per product, with the stock as it is now.
BuildCountLines(r, found) ==
  {[saver |-> r, product |-> p, system |-> stock[p], physical |-> found[p]] :
     p \in DOMAIN found}

Findings == UNION {[S -> Found] : S \in SUBSET Products \ {{}}}

CreateCount(r) ==
  \E found \in Findings :
    Start(r, [operation |-> "create", count |-> r, read |-> {},
              lines |-> BuildCountLines(r, found)], "save")

UpdateCount(r, c) ==
  /\ Editable(c)
  /\ \E found \in Findings :
       Start(r, [operation |-> "update", count |-> c, read |-> counts[c].lines,
                 lines |-> BuildCountLines(r, found)], "save")

AfterPositive(lines) == IF Falls(lines) THEN "negative" ELSE "mark"

ApplyCount(r, c) ==
  /\ Editable(c)
  /\ LET lines == counts[c].lines
     IN  Start(r, [operation |-> "apply", count |-> c, read |-> lines, lines |-> lines],
               IF Rises(lines) THEN "positive" ELSE AfterPositive(lines))

-----------------------------------------------------------------------------
(* Saving: the row of a new count, or the lines of an old one replaced.    *)

End(r, outcome) ==
  /\ pc' = [pc EXCEPT ![r] = outcome]
  /\ task' = [task EXCEPT ![r] = Nil]

NewCount(lines) ==
  [status |-> "draft", lines |-> lines, positive |-> Nil, negative |-> Nil]

\* "delete-orphan": the handler deletes the rows it read and adds its own.
LinesReplaced(current, t) == (current \ t.read) \cup t.lines

Save(r) ==
  LET t == task[r] IN
  /\ pc[r] = "save"
  /\ counts' = IF t.operation = "create"
               THEN [counts EXCEPT ![t.count] = NewCount(t.lines)]
               ELSE [counts EXCEPT ![t.count].lines = LinesReplaced(@, t)]
  /\ End(r, "done")
  /\ UNCHANGED <<adjustments, stock, moved>>

-----------------------------------------------------------------------------
(* Applying: up to three transactions.                                     *)

Post(r, side, quantity) ==
  adjustments' = adjustments \cup {[count |-> task[r].count, applier |-> r,
                                    side |-> side, quantity |-> quantity]}

\* create_ingreso("adjustment_positive", ...) with its commit.
PostPositive(r) ==
  LET rise == Rise(task[r].lines) IN
  /\ pc[r] = "positive"
  /\ Post(r, "positive", rise)
  /\ stock' = [p \in Products |-> stock[p] + rise[p]]
  /\ pc' = [pc EXCEPT ![r] = AfterPositive(task[r].lines)]
  /\ UNCHANGED <<counts, moved, task>>

\* UNIT_COST_REQUIRED: no cost is known for something that was found.
RefuseCost(r) ==
  /\ pc[r] = "positive"
  /\ End(r, "failed")
  /\ UNCHANGED <<committed, moved>>

CoversSnapshot(lines) ==   \* variant: trusts the stock seen when the count was saved
  \A l \in lines : l.system + Difference(l) >= 0

\* INSUFFICIENT_STOCK of create_egreso, line by line.
Covers(lines) == \A p \in Products : stock[p] >= Fall(lines)[p]

\* create_egreso("adjustment_negative", ...) with its commit.
PostNegative(r) ==
  LET fall == Fall(task[r].lines) IN
  /\ pc[r] = "negative"
  /\ Covers(task[r].lines)
  /\ Post(r, "negative", fall)
  /\ stock' = [p \in Products |-> stock[p] - fall[p]]
  /\ pc' = [pc EXCEPT ![r] = "mark"]
  /\ UNCHANGED <<counts, moved, task>>

RefuseNegative(r) ==
  /\ pc[r] = "negative"
  /\ ~Covers(task[r].lines)
  /\ End(r, "failed")
  /\ UNCHANGED <<committed, moved>>

AppliedWithPositive(count, r, lines) ==   \* variant: the negative link forgotten
  [count EXCEPT !.status = "applied", !.positive = IF Rises(lines) THEN r ELSE Nil]

Applied(count, r, lines) ==
  [count EXCEPT !.status = "applied",
                !.positive = IF Rises(lines) THEN r ELSE Nil,
                !.negative = IF Falls(lines) THEN r ELSE Nil]

MarkApplied(r) ==
  /\ pc[r] = "mark"
  /\ counts' = [counts EXCEPT ![task[r].count] = Applied(@, r, task[r].lines)]
  /\ End(r, "done")
  /\ UNCHANGED <<adjustments, stock, moved>>

-----------------------------------------------------------------------------
(* The rest of the world.                                                  *)

\* Another document takes effect (Ledger).
OtherMovement(p) ==
  /\ moved < MaxMovements
  /\ moved' = moved + 1
  /\ \E change \in Movements : /\ stock[p] + change >= 0
                               /\ stock' = [stock EXCEPT ![p] = @ + change]
  /\ UNCHANGED <<counts, adjustments, pc, task>>

\* The connection or the server process is lost, or a check outside this model
\* fails (PRODUCT_INACTIVE); what was committed stays.
Lose(r) ==
  /\ Faults
  /\ Active(r)
  /\ End(r, "failed")
  /\ UNCHANGED <<committed, moved>>

\* The endpoints under /inventory/counts.
CountRequests(r) ==
  \/ CreateCount(r)
  \/ \E c \in Requests : UpdateCount(r, c) \/ ApplyCount(r, c)

Next ==
  \/ \E r \in Requests :
       \/ CountRequests(r)
       \/ Save(r)
       \/ PostPositive(r) \/ RefuseCost(r)
       \/ PostNegative(r) \/ RefuseNegative(r)
       \/ MarkApplied(r)
       \/ Lose(r)
  \/ \E p \in Products : OtherMovement(p)

Spec == Init /\ [][Next]_vars

-----------------------------------------------------------------------------
(* Properties.                                                             *)

IsApplied(c) == counts[c] # Nil /\ counts[c].status = "applied"

\* What a set of adjustments has added to the stock of p.
Posted(as, p) ==
  SumFunction([a \in as |-> IF a.side = "positive" THEN a.quantity[p] ELSE -a.quantity[p]])

AdjustmentsOf(c) == {a \in adjustments : a.count = c}

Linked(c) ==
  {a \in AdjustmentsOf(c) : a.applier = IF a.side = "positive" THEN counts[c].positive
                                                               ELSE counts[c].negative}

\* The documents an applied count names have moved exactly the differences in
\* its lines, whatever happened to the stock, to earlier attempts or to its
\* lines before it was applied; and an attempt that succeeds leaves no document
\* behind that the count does not name: only failed attempts do.
AppliedAsCounted ==
  /\ \A c \in Requests : IsApplied(c) =>
       \A p \in Products : Posted(Linked(c), p) = DifferenceOf(counts[c].lines, p)
  /\ \A a \in adjustments : pc[a.applier] = "done" =>
       IsApplied(a.count) /\ a \in Linked(a.count)
=============================================================================
