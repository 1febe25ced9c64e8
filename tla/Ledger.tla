-------------------------------- MODULE Ledger --------------------------------
(***************************************************************************)
(* What the inventory promises its users, with no trace of requests,       *)
(* transactions or locks: a ledger of documents in which                   *)
(*   - the k-th document of a type gets number k,                          *)
(*   - a document moves along pending -> approved | cancelled and          *)
(*     approved -> voided and never otherwise,                             *)
(*   - stock changes only with the status of a document, by exactly that   *)
(*     document's effect, all products at once,                            *)
(*   - stock is never negative.                                            *)
(* StockMovements implements it.                                           *)
(***************************************************************************)
EXTENDS Documents

CONSTANTS
  DocumentIds,     \* identities of documents
  InitialStock,    \* stock of each product when the ledger opens
  OpeningNumber,   \* last number already issued for each document type
  NoDocument       \* the value of a row that does not exist

VARIABLES
  documents,       \* the table of documents
  stock,           \* stock_actual of each product
  lastNumber       \* last_number of each document sequence

ledger == <<documents, stock, lastNumber>>

Init ==
  /\ documents = [d \in DocumentIds |-> NoDocument]
  /\ stock = InitialStock
  /\ lastNumber = OpeningNumber

\* Stock moves by the whole of a document's effect or not at all, and is
\* never left negative.
MoveStock(change) ==
  /\ \A p \in Products : stock[p] + change[p] >= 0
  /\ stock' = [p \in Products |-> stock[p] + change[p]]

\* A new document d takes the next number of its type.
Post(d) ==
  /\ documents[d] = NoDocument
  /\ documents'[d] # NoDocument
  /\ documents' = [documents EXCEPT ![d] = documents'[d]]
  /\ LET doc == documents'[d] IN
       /\ doc.kind \in Kinds
       /\ doc.lines \in DistinctLines
       /\ doc.status = InitialStatus(doc.kind)
       /\ doc.number = lastNumber[DocType(doc.kind)] + 1
       /\ lastNumber' = [lastNumber EXCEPT ![DocType(doc.kind)] = doc.number]
       /\ IF doc.status = "approved"
          THEN MoveStock(Effect(doc.kind, doc.lines))
          ELSE UNCHANGED stock

Approve(d) ==
  /\ documents[d] # NoDocument
  /\ documents[d].status = "pending"
  /\ documents' = [documents EXCEPT ![d].status = "approved"]
  /\ MoveStock(Effect(documents[d].kind, documents[d].lines))
  /\ UNCHANGED lastNumber

Cancel(d) ==
  /\ documents[d] # NoDocument
  /\ documents[d].status = "pending"
  /\ documents' = [documents EXCEPT ![d].status = "cancelled"]
  /\ UNCHANGED <<stock, lastNumber>>

Void(d) ==
  /\ documents[d] # NoDocument
  /\ documents[d].status = "approved"
  /\ documents' = [documents EXCEPT ![d].status = "voided"]
  /\ MoveStock(VoidEffect(documents[d].kind, documents[d].lines))
  /\ UNCHANGED lastNumber

Next == \E d \in DocumentIds : Post(d) \/ Approve(d) \/ Cancel(d) \/ Void(d)

Spec == Init /\ [][Next]_ledger
=============================================================================
