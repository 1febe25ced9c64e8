------------------------------ MODULE Documents ------------------------------
(***************************************************************************)
(* The vocabulary of inventory documents shared by the specifications of   *)
(* stock: the kinds of document, the sequence each kind is numbered from,  *)
(* the status a document is born with and the effect it has on stock once  *)
(* it is approved (app/services/inventory_service.py, app/models/enums.py, *)
(* app/models/inventory.py).                                               *)
(*                                                                         *)
(* A document has one or more lines.  A line names a product and a         *)
(* quantity; prices, discounts and texts are left out.  Documents of these *)
(* specifications name a product at most once (the program does not        *)
(* require it: see Kardex for documents that repeat a product).            *)
(***************************************************************************)
EXTENDS Integers, Sequences

CONSTANT Products

\* Status of a document, enum DocumentStatus.
Statuses == {"pending", "approved", "cancelled", "voided"}

\* What create_ingreso, create_egreso, create_baja and create_ajuste (with
\* AdjustType increment or decrement) record.
Kinds == {"ingreso", "egreso", "baja", "increment", "decrement"}

\* Documents are numbered per DocumentType.
DocTypes == {"IN", "EG", "BI", "AI"}

DocType(kind) ==
  CASE kind = "ingreso" -> "IN"
    [] kind = "egreso"  -> "EG"
    [] kind = "baja"    -> "BI"
    [] OTHER            -> "AI"

\* Entries and exits take effect when they are created; write-offs and
\* adjustments wait for an approval.
InitialStatus(kind) ==
  IF kind \in {"ingreso", "egreso"} THEN "approved" ELSE "pending"

Line == [product : Products, quantity : Nat \ {0}]

DistinctLines ==
  {lines \in Seq(Line) :
     /\ lines # <<>>
     /\ \A i, j \in DOMAIN lines :
          lines[i].product = lines[j].product => i = j}

ProductsOf(lines) == {lines[i].product : i \in DOMAIN lines}

QuantityOf(lines, p) ==
  IF p \in ProductsOf(lines)
  THEN lines[CHOOSE i \in DOMAIN lines : lines[i].product = p].quantity
  ELSE 0

\* What an approved document adds to the stock of each product: entries and
\* increments add their quantities, everything else takes them away.
Effect(kind, lines) ==
  [p \in Products |-> IF kind \in {"ingreso", "increment"}
                      THEN QuantityOf(lines, p)
                      ELSE -QuantityOf(lines, p)]

\* What voiding that document adds: the opposite.
VoidEffect(kind, lines) == [p \in Products |-> -Effect(kind, lines)[p]]
=============================================================================
