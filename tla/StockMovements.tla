---------------------------- MODULE StockMovements ----------------------------
(***************************************************************************)
(* The requests that move stock, running concurrently against PostgreSQL.  *)
(*                                                                         *)
(* Each HTTP request runs one handler of InventoryService in one database  *)
(* transaction (core/database.py: one session per request, autoflush off,  *)
(* READ COMMITTED).  A handler validates what it read without a lock,      *)
(* takes the next document number, moves the stock of each line and        *)
(* commits.  Every await that reads committed data or may wait for a lock  *)
(* is a step of its own; what a request wrote is invisible to the others   *)
(* until its Commit.  A request may be aborted at any step before that.    *)
(*                                                                         *)
(* Variables without a request index hold committed data; pc, task,        *)
(* number, position and change are the private state of each handler.      *)
(* A document is identified by the request that creates it.                *)
(***************************************************************************)
EXTENDS Documents, FiniteSets, Functions

CONSTANTS
  Requests,        \* HTTP requests; each runs at most one handler
  Operations,      \* which handlers the requests may run
  LineChoices,     \* the line lists a client may submit
  SaleNumbers,     \* customer document numbers a sale may be given
  InitialStock,    \* stock when the requests start
  OpeningNumber,   \* last number already issued per document type, 0 = no row
  SameDocument,    \* may two requests work on one document at a time?
  Nil              \* no lock owner, no row, no task, no sale number

ASSUME ConstantsAssumption ==
  /\ Nil \notin Requests
  /\ LineChoices \subseteq DistinctLines
  /\ InitialStock \in [Products -> Nat]
  /\ OpeningNumber \in [DocTypes -> Nat]
  /\ SameDocument \in BOOLEAN

VARIABLES
  documents,       \* committed rows of inventory_documents with their lines
  stock,           \* committed products.stock_actual
  lastNumber,      \* committed document_sequences.last_number, 0 = no row
  sequenceLock,    \* request holding the row of each sequence
  rowLock,         \* request holding the row of each product FOR UPDATE
  keyLock,         \* requests holding the row of each product FOR KEY SHARE
  pc,              \* next await of each request
  task,            \* what each request is doing
  number,          \* number taken by a request that creates a document
  position,        \* next line to insert, then next line to move
  change           \* stock the request has moved so far, not yet committed

committed == <<documents, stock, lastNumber>>
locks == <<sequenceLock, rowLock, keyLock>>
private == <<pc, task, number, position, change>>
vars == <<committed, locks, private>>

Document == [kind : Kinds, lines : LineChoices, status : Statuses,
             number : Nat \ {0}, saleNumber : SaleNumbers \cup {Nil}]

Task == [operation : {"create", "approve", "cancel", "void"}, kind : Kinds,
         lines : LineChoices, target : Requests,
         saleNumber : SaleNumbers \cup {Nil}]

ASSUME NilAssumption == Nil \notin Document /\ Nil \notin Task

Steps == {"number", "insert", "lines", "reverse", "move", "commit"}

NoChange == [p \in Products |-> 0]

TypeOK ==
  /\ documents \in [Requests -> Document \cup {Nil}]
  /\ stock \in [Products -> Nat]
  /\ lastNumber \in [DocTypes -> Nat]
  /\ sequenceLock \in [DocTypes -> Requests \cup {Nil}]
  /\ rowLock \in [Products -> Requests \cup {Nil}]
  /\ keyLock \in [Products -> SUBSET Requests]
  /\ pc \in [Requests -> Steps \cup {"idle", "done", "failed"}]
  /\ task \in [Requests -> Task \cup {Nil}]
  /\ number \in [Requests -> Nat]
  /\ position \in [Requests -> Nat \ {0}]
  /\ change \in [Requests -> [Products -> Int]]

Init ==
  /\ documents = [d \in Requests |-> Nil]
  /\ stock = InitialStock
  /\ lastNumber = OpeningNumber
  /\ sequenceLock = [t \in DocTypes |-> Nil]
  /\ rowLock = [p \in Products |-> Nil]
  /\ keyLock = [p \in Products |-> {}]
  /\ pc = [r \in Requests |-> "idle"]
  /\ task = [r \in Requests |-> Nil]
  /\ number = [r \in Requests |-> 0]
  /\ position = [r \in Requests |-> 1]
  /\ change = [r \in Requests |-> NoChange]

-----------------------------------------------------------------------------
(* Starting a handler: the checks it makes on committed data, unlocked.    *)

Active(r) == pc[r] \in Steps

\* What the environment lets run at the same time as request r.
Uncontended(t) ==
  SameDocument \/ \A q \in Requests : Active(q) => task[q].target # t.target

Start(r, t, step) ==
  /\ pc[r] = "idle"
  /\ Uncontended(t)
  /\ pc' = [pc EXCEPT ![r] = step]
  /\ task' = [task EXCEPT ![r] = t]
  /\ UNCHANGED <<committed, locks, number, position, change>>

\* _validate_sufficient_stock
SufficientStock(lines) ==
  \A i \in DOMAIN lines : stock[lines[i].product] >= lines[i].quantity

\* _sale_document_number_exists: any sale, whatever its status.
SaleNumberExists(n) ==
  \E d \in Requests : /\ documents[d] # Nil
                      /\ documents[d].kind = "egreso"
                      /\ documents[d].saleNumber = n

Creation(r, kind, lines, saleNumber) ==
  [operation |-> "create", kind |-> kind, lines |-> lines, target |-> r,
   saleNumber |-> saleNumber]

CreateIngreso(r) ==
  /\ "ingreso" \in Operations
  /\ \E lines \in LineChoices :
       Start(r, Creation(r, "ingreso", lines, Nil), "number")

CreateEgreso(r) ==
  /\ "egreso" \in Operations
  /\ \E lines \in LineChoices, n \in SaleNumbers \cup {Nil} :
       /\ SufficientStock(lines)
       /\ n # Nil => ~SaleNumberExists(n)
       /\ Start(r, Creation(r, "egreso", lines, n), "number")

CreateBaja(r) ==
  /\ "baja" \in Operations
  /\ \E lines \in LineChoices :
       /\ SufficientStock(lines)
       /\ Start(r, Creation(r, "baja", lines, Nil), "number")

CreateAjuste(r) ==
  \E kind \in {"increment", "decrement"} \cap Operations, lines \in LineChoices :
    /\ kind = "decrement" => SufficientStock(lines)
    /\ Start(r, Creation(r, kind, lines, Nil), "number")

\* The handlers that work on an existing document keep it in memory.
Handling(operation, d) ==
  [operation |-> operation, kind |-> documents[d].kind,
   lines |-> documents[d].lines, target |-> d, saleNumber |-> Nil]

ApproveDocument(r, d) ==
  /\ "approve" \in Operations
  /\ documents[d] # Nil
  /\ documents[d].status = "pending"
  /\ documents[d].kind \in {"baja", "decrement"} => SufficientStock(documents[d].lines)
  /\ Start(r, Handling("approve", d), "move")

CancelDocument(r, d) ==
  /\ "cancel" \in Operations
  /\ documents[d] # Nil
  /\ documents[d].status = "pending"
  /\ Start(r, Handling("cancel", d), "commit")

\* _assert_void_possible
VoidPossible(d) ==
  \A p \in Products :
    stock[p] + VoidEffect(documents[d].kind, documents[d].lines)[p] >= 0

VoidDocument(r, d) ==
  /\ "void" \in Operations
  /\ documents[d] # Nil
  /\ documents[d].status = "approved"
  /\ VoidPossible(d)
  /\ Start(r, Handling("void", d), "reverse")

-----------------------------------------------------------------------------
(* Leaving the database: the locks go with the transaction.                *)

Release(r) ==
  /\ sequenceLock' = [t \in DocTypes |->
                        IF sequenceLock[t] = r THEN Nil ELSE sequenceLock[t]]
  /\ rowLock' = [p \in Products |-> IF rowLock[p] = r THEN Nil ELSE rowLock[p]]
  /\ keyLock' = [p \in Products |-> keyLock[p] \ {r}]

End(r, outcome) ==
  /\ Release(r)
  /\ pc' = [pc EXCEPT ![r] = outcome]
  /\ task' = [task EXCEPT ![r] = Nil]
  /\ number' = [number EXCEPT ![r] = 0]
  /\ position' = [position EXCEPT ![r] = 1]
  /\ change' = [change EXCEPT ![r] = NoChange]

Rollback(r) == End(r, "failed") /\ UNCHANGED committed

-----------------------------------------------------------------------------
(* generate_document_number: SELECT ... FOR UPDATE finds the committed row *)
(* and waits for it, or finds none and inserts it; a second insert waits   *)
(* for the first and then breaks the unique key (type, year).              *)

TaskType(r) == DocType(task[r].kind)

TakeNumberUnlocked(r) ==   \* variant: SELECT without FOR UPDATE
  /\ number' = [number EXCEPT ![r] = lastNumber[TaskType(r)] + 1]
  /\ pc' = [pc EXCEPT ![r] = "lines"]
  /\ UNCHANGED <<committed, locks, task, position, change>>

TakeNumber(r) ==
  /\ sequenceLock' = [sequenceLock EXCEPT ![TaskType(r)] = r]
  /\ number' = [number EXCEPT ![r] = lastNumber[TaskType(r)] + 1]
  /\ pc' = [pc EXCEPT ![r] = "lines"]
  /\ UNCHANGED <<committed, rowLock, keyLock, task, position, change>>

LockSequence(r) ==
  /\ pc[r] = "number"
  /\ lastNumber[TaskType(r)] > 0
  /\ sequenceLock[TaskType(r)] = Nil
  /\ TakeNumber(r)

MissSequence(r) ==
  /\ pc[r] = "number"
  /\ lastNumber[TaskType(r)] = 0
  /\ pc' = [pc EXCEPT ![r] = "insert"]
  /\ UNCHANGED <<committed, locks, task, number, position, change>>

InsertSequence(r) ==
  /\ pc[r] = "insert"
  /\ sequenceLock[TaskType(r)] = Nil
  /\ lastNumber[TaskType(r)] = 0
  /\ TakeNumber(r)

DuplicateSequence(r) ==
  /\ pc[r] = "insert"
  /\ sequenceLock[TaskType(r)] = Nil
  /\ lastNumber[TaskType(r)] > 0
  /\ Rollback(r)

-----------------------------------------------------------------------------
(* create_document: the lines are inserted one after the other, whatever   *)
(* the status of the document.  The foreign key of a line locks the row of *)
(* its product FOR KEY SHARE until the end of the transaction: with others *)
(* who insert lines of the product, but against FOR UPDATE.                *)

NextLineBackwards(r) ==   \* variant: a void undoes the lines last to first
  task[r].lines[IF task[r].operation = "void"
                THEN Len(task[r].lines) + 1 - position[r] ELSE position[r]]

NextLine(r) == task[r].lines[position[r]]

\* After its lines, an entry or an exit moves stock; the rest only commit.
AfterLines(r) ==
  IF InitialStatus(task[r].kind) = "approved" THEN "move" ELSE "commit"

InsertLine(r) ==
  /\ pc[r] = "lines"
  /\ rowLock[NextLine(r).product] = Nil
  /\ keyLock' = [keyLock EXCEPT ![NextLine(r).product] = @ \cup {r}]
  /\ IF position[r] = Len(task[r].lines)
     THEN /\ position' = [position EXCEPT ![r] = 1]
          /\ pc' = [pc EXCEPT ![r] = AfterLines(r)]
     ELSE position' = [position EXCEPT ![r] = @ + 1] /\ UNCHANGED pc
  /\ UNCHANGED <<committed, sequenceLock, rowLock, task, number, change>>

-----------------------------------------------------------------------------
(* The stock of each line, in the order of the lines, through the SQL      *)
(* function update_product_stock: lock the row, refuse a negative result.  *)

AddsAgain(t) == t.kind \in {"ingreso", "increment"}   \* variant: a void repeats it

\* Direction of the movement: that of the document, reversed by a void.
Adds(t) ==
  IF t.operation = "void" THEN t.kind \notin {"ingreso", "increment"}
                          ELSE t.kind \in {"ingreso", "increment"}

LineDelta(t, line) == IF Adds(t) THEN line.quantity ELSE -line.quantity

NewStockUnsigned(r) ==   \* variant: exits are checked as if they added
  LET p == NextLine(r).product
  IN  stock[p] + change[r][p] + NextLine(r).quantity

\* The row as the lock's owner sees it: committed value plus its own changes.
NewStock(r) ==
  LET p == NextLine(r).product
  IN  stock[p] + change[r][p] + LineDelta(task[r], NextLine(r))

RowIgnored(r) == Active(r)   \* variant: the row is read without FOR UPDATE

RowAvailable(r) ==
  /\ rowLock[NextLine(r).product] \in {r, Nil}
  /\ keyLock[NextLine(r).product] \subseteq {r}

\* void_document reads the document's Kardex entries and the last balances
\* before it holds any lock (ConcurrentKardex says what it does with them).
ReverseKardex(r) ==
  /\ pc[r] = "reverse"
  /\ pc' = [pc EXCEPT ![r] = "move"]
  /\ UNCHANGED <<committed, locks, task, number, position, change>>

MoveLine(r) ==
  /\ pc[r] = "move"
  /\ RowAvailable(r)
  /\ NewStock(r) >= 0
  /\ rowLock' = [rowLock EXCEPT ![NextLine(r).product] = r]
  /\ change' = [change EXCEPT ![r][NextLine(r).product] =
                  @ + LineDelta(task[r], NextLine(r))]
  /\ position' = [position EXCEPT ![r] = @ + 1]
  /\ pc' = [pc EXCEPT ![r] =
              IF position[r] = Len(task[r].lines) THEN "commit" ELSE "move"]
  /\ UNCHANGED <<committed, sequenceLock, keyLock, task, number>>

RefuseLineAndRetry(r) ==   \* variant: waits for somebody to bring stock in
  pc[r] = "move" /\ RowAvailable(r) /\ NewStock(r) < 0 /\ UNCHANGED vars

RefuseLine(r) ==
  /\ pc[r] = "move"
  /\ RowAvailable(r)
  /\ NewStock(r) < 0
  /\ Rollback(r)

-----------------------------------------------------------------------------
(* Commit: the flush of the status or of the new document, the audit row   *)
(* and COMMIT.  The UPDATE of the document writes the new status whatever  *)
(* the committed one is by now.                                            *)

NewStatus(t) ==
  CASE t.operation = "create"  -> InitialStatus(t.kind)
    [] t.operation = "approve" -> "approved"
    [] t.operation = "cancel"  -> "cancelled"
    [] t.operation = "void"    -> "voided"

Commit(r) ==
  LET t == task[r] IN
  /\ pc[r] = "commit"
  /\ documents' =
       IF t.operation = "create"
       THEN [documents EXCEPT ![r] =
               [kind |-> t.kind, lines |-> t.lines, status |-> NewStatus(t),
                number |-> number[r], saleNumber |-> t.saleNumber]]
       ELSE [documents EXCEPT ![t.target].status = NewStatus(t)]
  /\ stock' = [p \in Products |-> stock[p] + change[r][p]]
  /\ lastNumber' =
       IF t.operation = "create"
       THEN [lastNumber EXCEPT ![DocType(t.kind)] = number[r]]
       ELSE lastNumber
  /\ End(r, "done")

-----------------------------------------------------------------------------
(* Requests that end without committing.                                   *)

\* q needs a lock that it cannot have while h holds another.
WaitsFor(q, h) ==
  /\ q # h
  /\ \/ /\ pc[q] = "number"
        /\ lastNumber[TaskType(q)] > 0
        /\ sequenceLock[TaskType(q)] = h
     \/ pc[q] = "insert" /\ sequenceLock[TaskType(q)] = h
     \/ pc[q] = "lines" /\ rowLock[NextLine(q).product] = h
     \/ /\ pc[q] = "move"
        /\ h = rowLock[NextLine(q).product] \/ h \in keyLock[NextLine(q).product]

\* Handlers each of which waits for another of them.
WaitInCycle(S) ==
  \A q \in S : /\ \E h \in S : WaitsFor(q, h)
               /\ \E w \in S : WaitsFor(w, q)

\* r waits, through others, for itself: it is in every set that holds those it
\* waits for and, with each handler, those that one waits for.
InDeadlock(r) ==
  \A T \in SUBSET Requests :
    (\A q \in T \cup {r} : \A h \in Requests : WaitsFor(q, h) => h \in T) => r \in T

\* PostgreSQL breaks the cycle by failing one of its transactions.
DeadlockVictim(r) == InDeadlock(r) /\ Rollback(r)

\* A lost connection, a timeout or the death of the server process.
Abort(r) == Active(r) /\ Rollback(r)

-----------------------------------------------------------------------------

Begin(r) ==
  \/ CreateIngreso(r)
  \/ CreateEgreso(r)
  \/ CreateBaja(r)
  \/ CreateAjuste(r)
  \/ \E d \in Requests : \/ ApproveDocument(r, d)
                         \/ CancelDocument(r, d)
                         \/ VoidDocument(r, d)

Step(r) ==
  \/ LockSequence(r)
  \/ MissSequence(r)
  \/ InsertSequence(r)
  \/ DuplicateSequence(r)
  \/ InsertLine(r)
  \/ ReverseKardex(r)
  \/ MoveLine(r)
  \/ RefuseLine(r)
  \/ Commit(r)

Next == \E r \in Requests : Begin(r) \/ Step(r) \/ DeadlockVictim(r) \/ Abort(r)

Spec == Init /\ [][Next]_vars

(***************************************************************************)
(* The event loop resumes every handler whose await can complete, and the  *)
(* database detects deadlocks.  Nobody has to send a request.              *)
(***************************************************************************)
FairSpec ==
  Spec /\ \A r \in Requests : WF_vars(Step(r)) /\ WF_vars(DeadlockVictim(r))

-----------------------------------------------------------------------------
(* What is true between any two steps of the handlers; NumbersConsecutive  *)
(* and TypeOK are proved from the conjunction.                             *)

\* How far a handler has come determines what it knows.
StateOf(r) ==
  /\ pc[r] = "idle" => documents[r] = Nil
  /\ Active(r) => task[r] # Nil
  /\ pc[r] \in {"number", "insert", "lines"} => task[r].operation = "create"
  /\ pc[r] = "reverse" => task[r].operation = "void"
  /\ pc[r] \in {"lines", "move"} => position[r] <= Len(task[r].lines)
  /\ pc[r] \notin {"lines", "move", "commit"} => position[r] = 1
  /\ pc[r] \notin {"move", "commit"} => change[r] = NoChange

HandlerState == \A r \in Requests : StateOf(r)

\* A handler creates the document of its own request or holds a faithful copy
\* of the lines of an existing one.
HandlerTarget ==
  \A r \in Requests : Active(r) =>
    LET t == task[r] IN
    IF t.operation = "create"
    THEN t.target = r /\ documents[r] = Nil
    ELSE /\ documents[t.target] # Nil
         /\ documents[t.target].kind = t.kind
         /\ documents[t.target].lines = t.lines

\* From the number to the end of the transaction the creator of a document
\* holds the sequence, and its number is still the next one.
SequenceOwner ==
  /\ \A r \in Requests :
       (pc[r] \in {"lines", "move", "commit"} /\ task[r].operation = "create") =>
         /\ sequenceLock[TaskType(r)] = r
         /\ number[r] = lastNumber[TaskType(r)] + 1
  /\ \A t \in DocTypes : lastNumber[t] >= OpeningNumber[t]

\* Uncommitted stock belongs to the holder of the row and is not negative.
RowOwner ==
  \A r \in Requests, p \in Products :
    /\ change[r][p] # 0 => rowLock[p] = r
    /\ stock[p] + change[r][p] >= 0

-----------------------------------------------------------------------------
(* Properties.                                                             *)

\* The numbers of the committed documents of a type are exactly those issued
\* since the start, each used once: generate_document_number leaves no gap
\* when a request is rolled back and gives no number to two documents.
Issued(t) == {d \in Requests : documents[d] # Nil /\ DocType(documents[d].kind) = t}

NumbersConsecutive ==
  \A t \in DocTypes :
    /\ {documents[d].number : d \in Issued(t)}
         = (OpeningNumber[t] + 1) .. lastNumber[t]
    /\ \A d, e \in Issued(t) : documents[d].number = documents[e].number => d = e

IInv ==
  TypeOK /\ HandlerState /\ HandlerTarget /\ SequenceOwner /\ RowOwner
         /\ NumbersConsecutive

\* What an uncommitted handler has moved: the lines before its position, whole
\* and in the right direction; at its commit, all of them or none.
MovesStock(t) ==
  \/ t.operation \in {"approve", "void"}
  \/ t.operation = "create" /\ InitialStatus(t.kind) = "approved"

LinesBefore(lines, i) == {lines[j].product : j \in 1 .. (i - 1)}

Signed(t, p) == IF Adds(t) THEN QuantityOf(t.lines, p) ELSE -QuantityOf(t.lines, p)

Moved ==
  \A r \in Requests : Active(r) =>
    /\ \A p \in Products :
         change[r][p] = IF pc[r] # "lines" /\ p \in LinesBefore(task[r].lines, position[r])
                        THEN Signed(task[r], p) ELSE 0
    /\ pc[r] \in {"reverse", "move"} => MovesStock(task[r])
    /\ pc[r] = "commit" =>
         position[r] = IF MovesStock(task[r]) THEN Len(task[r].lines) + 1 ELSE 1

\* What a handler has locked.  A sequence: its creator, past the number.  Rows
\* FOR UPDATE: those of lines already moved.  Rows FOR KEY SHARE: a creator,
\* those of lines already inserted.  Nobody shares a row that another updates.
Inserted(r) ==
  IF pc[r] \notin {"lines", "move", "commit"} THEN {}
  ELSE IF task[r].operation # "create" THEN {}
  ELSE IF pc[r] = "lines" THEN LinesBefore(task[r].lines, position[r])
  ELSE ProductsOf(task[r].lines)

HoldsSequences(r) ==
  \A t \in DocTypes : sequenceLock[t] = r => pc[r] \in {"lines", "move", "commit"}

HoldsRows(r) ==
  \A p \in Products : rowLock[p] = r =>
    /\ pc[r] \in {"move", "commit"}
    /\ p \in LinesBefore(task[r].lines, position[r])
    /\ keyLock[p] \subseteq {r}

SharesRows(r) == \A p \in Products : r \in keyLock[p] <=> p \in Inserted(r)

LocksHeld == \A r \in Requests : HoldsSequences(r) /\ HoldsRows(r) /\ SharesRows(r)

\* Requests on different documents: the status a handler checked when it
\* started is still the committed one.
StillAsRead ==
  ~SameDocument =>
    \A r \in Requests : Active(r) =>
      /\ \A q \in Requests \ {r} : Active(q) => task[q].target # task[r].target
      /\ task[r].operation \in {"approve", "cancel"} =>
           documents[task[r].target].status = "pending"
      /\ task[r].operation = "void" =>
           documents[task[r].target].status = "approved"

\* The inductive invariant of the refinement and of OnlyCreatorsDeadlock.
WorkInv == IInv /\ Moved /\ LocksHeld /\ StillAsRead

\* The handlers together implement the Ledger: no interleaving loses a stock
\* movement, applies part of one or moves a document along a forbidden edge.
LedgerOfDocuments == INSTANCE Ledger WITH DocumentIds <- Requests, NoDocument <- Nil

LedgerSpec == LedgerOfDocuments!Spec

\* Stock is what the approved documents add up to: no movement is lost or
\* made twice.
Approved == {d \in Requests : documents[d] # Nil /\ documents[d].status = "approved"}

EffectsOn(p) == [d \in Approved |-> Effect(documents[d].kind, documents[d].lines)[p]]

StockIsSumOfApproved ==
  \A p \in Products :
    stock[p] = InitialStock[p] + SumFunctionOnSet(EffectsOn(p), Approved)

\* Where requests wait for each other in a cycle, two of them are creating
\* documents of different types: each has inserted a line of one product (key
\* shares) and one of the two wants to move its stock (FOR UPDATE).  Approvals,
\* cancellations and voids, and creations of one type, never make a cycle of
\* their own: sequences come before rows, rows in the order of the lines.  That
\* order is up to the clients: it holds when they all list lines in one order.
OnlyCreatorsDeadlock ==
  \A S \in SUBSET Requests : S # {} /\ WaitInCycle(S) =>
    \E c, d \in S :
      /\ task[c].operation = "create" /\ task[d].operation = "create"
      /\ TaskType(c) # TaskType(d)
      /\ pc[c] = "move" /\ d \in keyLock[NextLine(c).product]

\* The hypothesis: some ranking of the products by which every list ascends.
LinesInOneOrder ==
  \E rank \in [Products -> Nat] :
    \A lines \in LineChoices : \A i, j \in DOMAIN lines :
      i < j => rank[lines[i].product] < rank[lines[j].product]

\* A handler that has started ends, with a result or an error, even when
\* requests lock the same products in opposite orders.
EveryRequestEnds ==
  \A r \in Requests : Active(r) ~> pc[r] \in {"done", "failed"}
=============================================================================
