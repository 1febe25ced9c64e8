------------------------------ MODULE Exchanges ------------------------------
(***************************************************************************)
(* Exchanging goods of a sale (exchange_sale_document,                     *)
(* revert_sale_exchange and the part of void_document that respects        *)
(* exchanges, InventoryService).                                           *)
(*                                                                         *)
(* An exchange creates two documents in one transaction: an entry for what *)
(* the customer brings back and a sale for what leaves instead.  The three *)
(* documents name each other, and these links decide what may be exchanged,*)
(* voided or reverted.  They are read without a lock when a handler starts *)
(* and written when it commits.                                            *)
(*                                                                         *)
(* In between a handler takes the rows it needs one by one.  The entry is  *)
(* posted before the sale is numbered, so an exchange locks products       *)
(* before the sequence of sales, and a plain sale after it.  Inserted lines*)
(* share their products' rows, as in StockMovements; here those locks are  *)
(* left out: they cause further deadlocks, which end like all the others,  *)
(* in a rollback.                                                          *)
(*                                                                         *)
(* A client names the prices of what it sells; what comes back is worth    *)
(* what it was sold for and pays for the new sale, the customer the rest.  *)
(* Money is counted in whole units: prices without a discount need no      *)
(* rounding.  A sale pays its whole total, as every endpoint requires.     *)
(*                                                                         *)
(* Numbers and the first number of a year are in StockMovements; here the  *)
(* sequences exist.  A document is named by the request that creates it    *)
(* and its side.                                                           *)
(***************************************************************************)
EXTENDS Documents, FiniteSets, Functions

CONSTANTS
  Requests,        \* each runs at most one handler
  OpeningSale,     \* a request that has sold before the others start
  OpeningLines,    \* what it sold
  LineChoices,     \* lines a client may ask for or bring back
  InitialStock,    \* stock after the opening sale
  Prices,          \* unit prices of the sale each request makes
  SameSale,        \* may two requests work on one sale and its exchange?
  Nil

ASSUME ExchangesAssumption ==
  /\ OpeningSale \in Requests /\ Nil \notin Requests
  /\ LineChoices \subseteq DistinctLines /\ OpeningLines \in LineChoices
  /\ InitialStock \in [Products -> Nat]
  /\ Prices \in [Requests -> [Products -> Nat]]
  /\ SameSale \in BOOLEAN

DocumentIds == Requests \X {"sale", "return"}

VARIABLES
  documents,       \* committed documents with their exchange links
  stock,           \* committed products.stock_actual
  drawer,          \* money taken in and not given back
  owner,           \* request holding each sequence and each product row
  pc,              \* "idle", "locking", "commit", "done", "failed"
  task,            \* what each request is doing
  plan,            \* the rows it still has to lock, with what it adds to each
  change           \* stock it has moved, not yet committed

committed == <<documents, stock, drawer>>
private == <<pc, task, plan, change>>
vars == <<committed, owner, private>>

Link == DocumentIds \cup {Nil}

\* credit is credit_applied_amount, received is amount_received less the change.
Document == [kind : {"ingreso", "egreso"}, lines : LineChoices, prices : [Products -> Nat],
             status : {"approved", "voided"}, original : Link, return : Link, new : Link,
             credit : Nat, received : Nat]

Task == [operation : {"sell", "exchange", "revert", "void"}, sale : DocumentIds,
         lines : LineChoices \cup {<<>>}, returned : LineChoices \cup {<<>>},
         return : Link, new : Link]

Total(lines, prices) ==
  SumFunction([i \in DOMAIN lines |-> lines[i].quantity * prices[lines[i].product]])

\* Nil stands for a link, a document or a task that is not there.
ASSUME NilAssumption == Nil \notin DocumentIds /\ Nil \notin Document /\ Nil \notin Task

Resources == {"IN", "EG"} \cup Products

NoChange == [p \in Products |-> 0]

TypeOK ==
  /\ \A d \in DocumentIds : documents[d] = Nil \/ documents[d] \in Document
  /\ stock \in [Products -> Nat]
  /\ drawer \in Nat
  /\ owner \in [Resources -> Requests \cup {Nil}]
  /\ pc \in [Requests -> {"idle", "locking", "commit", "done", "failed"}]
  /\ \A r \in Requests : task[r] = Nil \/ task[r] \in Task
  /\ plan \in [Requests -> Seq([row : Resources, adds : Int])]
  /\ change \in [Requests -> [Products -> Int]]

Unlinked(kind, lines, prices) ==
  [kind |-> kind, lines |-> lines, prices |-> prices, status |-> "approved",
   original |-> Nil, return |-> Nil, new |-> Nil, credit |-> 0, received |-> 0]

\* A sale of r: amount_due is its total less the credit.
SaleOf(r, lines, credit) ==
  [Unlinked("egreso", lines, Prices[r]) EXCEPT
     !.credit = credit, !.received = Total(lines, Prices[r]) - credit]

Init ==
  /\ documents = [d \in DocumentIds |-> IF d = <<OpeningSale, "sale">>
                                        THEN SaleOf(OpeningSale, OpeningLines, 0) ELSE Nil]
  /\ stock = InitialStock
  /\ drawer = Total(OpeningLines, Prices[OpeningSale])
  /\ owner = [x \in Resources |-> Nil]
  /\ pc = [r \in Requests |-> IF r = OpeningSale THEN "done" ELSE "idle"]
  /\ task = [r \in Requests |-> Nil]
  /\ plan = [r \in Requests |-> <<>>]
  /\ change = [r \in Requests |-> NoChange]

-----------------------------------------------------------------------------
(* The rows each handler locks, in order.                                  *)

Sequence(type) == <<[row |-> type, adds |-> 0]>>

Entering(lines) ==
  [i \in DOMAIN lines |-> [row |-> lines[i].product, adds |-> lines[i].quantity]]

Leaving(lines) ==
  [i \in DOMAIN lines |-> [row |-> lines[i].product, adds |-> -lines[i].quantity]]

SalePlan(lines) == Sequence("EG") \o Leaving(lines)

ExchangePlan(returned, lines) ==
  Sequence("IN") \o Entering(returned) \o SalePlan(lines)

RevertPlanOfSale(returned, lines) == Entering(lines)   \* variant: the return stays in stock

RevertPlan(returned, lines) == Entering(lines) \o Leaving(returned)

-----------------------------------------------------------------------------
(* Starting a handler.                                                     *)

Active(r) == pc[r] \in {"locking", "commit"}

Start(r, t, p) ==
  /\ pc[r] = "idle"
  /\ SameSale \/ \A q \in Requests : Active(q) => task[q].sale # t.sale
  /\ pc' = [pc EXCEPT ![r] = "locking"]
  /\ task' = [task EXCEPT ![r] = t]
  /\ plan' = [plan EXCEPT ![r] = p]
  /\ UNCHANGED <<committed, owner, change>>

Exists(d, status) == documents[d] # Nil /\ documents[d].status = status

\* create_egreso("sale", ...)
Sell(r) ==
  \E lines \in LineChoices :
    /\ \A i \in DOMAIN lines : stock[lines[i].product] >= lines[i].quantity
    /\ Start(r, [operation |-> "sell", sale |-> <<r, "sale">>, lines |-> lines,
                 returned |-> <<>>, return |-> Nil, new |-> Nil], SalePlan(lines))

ExchangeableAgain(d) ==   \* variant: EXCHANGE_ALREADY_GENERATED is not raised
  /\ Exists(d, "approved")
  /\ documents[d].kind = "egreso" /\ documents[d].original = Nil

\* EXCHANGE_ONLY_FOR_SALE, DOCUMENT_NOT_APPROVED, EXCHANGE_ALREADY_FROM_CHANGE,
\* EXCHANGE_ALREADY_GENERATED
Exchangeable(d) ==
  /\ Exists(d, "approved")
  /\ documents[d].kind = "egreso"
  /\ documents[d].original = Nil
  /\ documents[d].return = Nil /\ documents[d].new = Nil

ReturnableProducts(returned, sold) ==   \* variant: EXCHANGE_RETURN_EXCEEDS_SOLD is not raised
  ProductsOf(returned) \subseteq ProductsOf(sold)

\* EXCHANGE_PRODUCT_NOT_IN_SALE, EXCHANGE_RETURN_EXCEEDS_SOLD
Returnable(returned, sold) ==
  \A p \in ProductsOf(returned) : QuantityOf(returned, p) <= QuantityOf(sold, p)

\* EXCHANGE_PRODUCT_IN_RETURN_AND_NEW, EXCHANGE_NEW_TOTAL_BELOW_RETURN.  The stock of
\* the new lines is checked on the way, before the sequence of sales; the locked
\* rows check it again.
Exchange(r, d) ==
  \E returned, lines \in LineChoices :
    /\ Exchangeable(d)
    /\ Returnable(returned, documents[d].lines)
    /\ ProductsOf(returned) \cap ProductsOf(lines) = {}
    /\ Total(lines, Prices[r]) >= Total(returned, documents[d].prices)
    /\ Start(r, [operation |-> "exchange", sale |-> d, lines |-> lines,
                 returned |-> returned, return |-> Nil, new |-> Nil],
             ExchangePlan(returned, lines))

\* _assert_void_possible
VoidPossible(d) ==
  \A p \in Products :
    stock[p] + VoidEffect(documents[d].kind, documents[d].lines)[p] >= 0

\* Any of the three documents finds the new sale, and that the rest.
Revert(r, d) ==
  /\ documents[d] # Nil
  /\ LET n == IF documents[d].new # Nil THEN documents[d].new ELSE d
         new == documents[n]
     IN  /\ new.original # Nil /\ new.return # Nil
         /\ new.status = "approved" /\ Exists(new.return, "approved")
         /\ VoidPossible(n) /\ VoidPossible(new.return)
         /\ Start(r, [operation |-> "revert", sale |-> new.original, lines |-> <<>>,
                      returned |-> <<>>, return |-> new.return, new |-> n],
                  RevertPlan(documents[new.return].lines, new.lines))

\* EXCHANGE_DOCUMENT_VOID_FORBIDDEN for a document with any link.
Void(r, d) ==
  /\ Exists(d, "approved")
  /\ documents[d].original = Nil /\ documents[d].return = Nil /\ documents[d].new = Nil
  /\ VoidPossible(d)
  /\ Start(r, [operation |-> "void", sale |-> d, lines |-> <<>>, returned |-> <<>>,
               return |-> Nil, new |-> Nil], Entering(documents[d].lines))

-----------------------------------------------------------------------------
(* Locking row after row; a product's row is refused a negative stock.     *)

End(r, outcome) ==
  /\ owner' = [x \in Resources |-> IF owner[x] = r THEN Nil ELSE owner[x]]
  /\ pc' = [pc EXCEPT ![r] = outcome]
  /\ task' = [task EXCEPT ![r] = Nil]
  /\ plan' = [plan EXCEPT ![r] = <<>>]
  /\ change' = [change EXCEPT ![r] = NoChange]

Rollback(r) == End(r, "failed") /\ UNCHANGED committed

Available(r) == pc[r] = "locking" /\ owner[Head(plan[r]).row] \in {r, Nil}

SufficesBefore(r) ==   \* variant: tests the stock before the movement
  LET p == Head(plan[r]).row IN p \in Products => stock[p] + change[r][p] >= 0

Suffices(r) ==
  LET p == Head(plan[r]).row
  IN  p \in Products => stock[p] + change[r][p] + Head(plan[r]).adds >= 0

Lock(r) ==
  LET next == Head(plan[r]) IN
  /\ Available(r) /\ Suffices(r)
  /\ owner' = [owner EXCEPT ![next.row] = r]
  /\ change' = IF next.row \in Products
               THEN [change EXCEPT ![r][next.row] = @ + next.adds] ELSE change
  /\ plan' = [plan EXCEPT ![r] = Tail(@)]
  /\ pc' = [pc EXCEPT ![r] = IF Len(plan[r]) = 1 THEN "commit" ELSE "locking"]
  /\ UNCHANGED <<committed, task>>

RefuseAndRetry(r) ==   \* variant: waits for somebody to bring stock in
  Available(r) /\ ~Suffices(r) /\ UNCHANGED vars

\* INSUFFICIENT_STOCK of update_product_stock.
Refuse(r) == Available(r) /\ ~Suffices(r) /\ Rollback(r)

-----------------------------------------------------------------------------
(* Committing: new rows, statuses and links.                               *)

\* The return is worth what the customer paid for it, and pays for the new sale.
Exchanged(docs, r, t) ==
  LET ret == <<r, "return">>
      new == <<r, "sale">>
      prices == docs[t.sale].prices
  IN  [docs EXCEPT
         ![t.sale] = [@ EXCEPT !.return = ret, !.new = new],
         ![ret] = [Unlinked("ingreso", t.returned, prices) EXCEPT !.original = t.sale,
                                                                 !.new = new],
         ![new] = [SaleOf(r, t.lines, Total(t.returned, prices)) EXCEPT !.original = t.sale,
                                                                       !.return = ret]]

\* Both documents are voided and keep their links; the sale loses its own.
Reverted(docs, t) ==
  [docs EXCEPT ![t.new].status = "voided",
               ![t.return].status = "voided",
               ![t.sale] = [@ EXCEPT !.return = Nil, !.new = Nil]]

RefundTotal(r) ==   \* variant: the refund is the total of the new sale
  LET t == task[r] IN
  CASE t.operation \in {"sell", "exchange"} -> documents'[<<r, "sale">>].received
    [] t.operation = "revert" -> -documents[t.new].received - documents[t.new].credit
    [] t.operation = "void"   -> -documents[t.sale].received

\* amount_received of a new sale, refunded_amount of a reverted exchange; the
\* cashier gives back what a voided sale was paid with.
Payment(r) ==
  LET t == task[r] IN
  CASE t.operation \in {"sell", "exchange"} -> documents'[<<r, "sale">>].received
    [] t.operation = "revert" -> -documents[t.new].received
    [] t.operation = "void"   -> -documents[t.sale].received

Commit(r) ==
  LET t == task[r] IN
  /\ pc[r] = "commit"
  /\ documents' =
       CASE t.operation = "sell"     -> [documents EXCEPT ![t.sale] = SaleOf(r, t.lines, 0)]
         [] t.operation = "exchange" -> Exchanged(documents, r, t)
         [] t.operation = "revert"   -> Reverted(documents, t)
         [] t.operation = "void"     -> [documents EXCEPT ![t.sale].status = "voided"]
  /\ stock' = [p \in Products |-> stock[p] + change[r][p]]
  /\ drawer' = drawer + Payment(r)
  /\ End(r, "done")

WaitsFor(q, h) == q # h /\ pc[q] = "locking" /\ owner[Head(plan[q]).row] = h

InDeadlock(r) ==
  \E S \in SUBSET Requests :
    r \in S /\ \A q \in S : (\E h \in S : WaitsFor(q, h)) /\ (\E w \in S : WaitsFor(w, q))

\* PostgreSQL fails one transaction of a cycle.
DeadlockVictim(r) == InDeadlock(r) /\ Rollback(r)

\* The connection or the process is lost, or a check outside this model fails
\* (payment method, authorization).
Abort(r) == Active(r) /\ Rollback(r)

Step(r) == Lock(r) \/ Refuse(r) \/ Commit(r)

\* The endpoints that take requests on sales.
SaleRequests(r) ==
  \/ Sell(r)
  \/ \E d \in DocumentIds : Exchange(r, d) \/ Revert(r, d) \/ Void(r, d)

Next ==
  \E r \in Requests :
    \/ SaleRequests(r)
    \/ Step(r)
    \/ DeadlockVictim(r)
    \/ Abort(r)

Spec == Init /\ [][Next]_vars

\* As in StockMovements: the event loop and the deadlock detector are fair.
FairSpec == Spec /\ \A r \in Requests : WF_vars(Step(r)) /\ WF_vars(DeadlockVictim(r))

-----------------------------------------------------------------------------
(* Properties.                                                             *)

Approved(d) == Exists(d, "approved")

\* A sale with links is in force, and so are the two documents it names,
\* which name it and each other.
SaleNamesItsExchange ==
  \A d \in DocumentIds :
    (documents[d] # Nil /\ documents[d].original = Nil /\ documents[d].new # Nil) =>
      LET x == documents[d].return
          n == documents[d].new
      IN  /\ Approved(d) /\ Approved(x) /\ Approved(n)
          /\ documents[x].original = d /\ documents[x].new = n
          /\ documents[n].original = d /\ documents[n].return = x

\* A return or a replacement in force is the one its sale names: a sale has at
\* most one exchange in force, also after others were reverted, and is not
\* voided under it.
ExchangeIsNamed ==
  \A d \in DocumentIds :
    (Approved(d) /\ documents[d].original # Nil) =>
      d \in {documents[documents[d].original].return, documents[documents[d].original].new}

LinksAgree == SaleNamesItsExchange /\ ExchangeIsNamed

\* What is back from a sale is never more than it sold, and nothing once it is
\* voided.
ReturnedWithinSold ==
  \A d \in DocumentIds, p \in Products :
    LET returns == {x \in DocumentIds : /\ Approved(x) /\ documents[x].kind = "ingreso"
                                        /\ documents[x].original = d}
        sold == IF Approved(d) THEN QuantityOf(documents[d].lines, p) ELSE 0
    IN  SumFunction([x \in returns |-> QuantityOf(documents[x].lines, p)]) <= sold

\* Stock is what the documents in force add up to.
StockIsSumOfApproved ==
  \A p \in Products :
    stock[p] = InitialStock[p] + QuantityOf(OpeningLines, p) +
      SumFunction([d \in {e \in DocumentIds : Approved(e)} |->
                     Effect(documents[d].kind, documents[d].lines)[p]])

\* Sales and exchanges that lock the sequence of sales and a product in
\* opposite orders still all end.
EveryRequestEnds == \A r \in Requests : Active(r) ~> pc[r] \in {"done", "failed"}
=============================================================================
