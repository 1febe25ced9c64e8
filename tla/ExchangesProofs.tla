---------------------------- MODULE ExchangesProofs ----------------------------
(***************************************************************************)
(* For any products, prices and finitely many requests, as long as no two  *)
(* requests work on one sale:                                              *)
(*                                                                         *)
(* - the links between a sale, its return and its replacement agree.  A    *)
(*   handler reads the links when it starts and writes them when it        *)
(*   commits.  Meanwhile other handlers commit, but none of them writes    *)
(*   the sale, and what hangs from a sale is written with it: Fit.         *)
(* - the stock is what the documents in force add up to, and the drawer    *)
(*   holds what they took in.  What a handler has moved and what its plan  *)
(*   still moves make up its task (Moving); it moves only rows it holds    *)
(*   (Held); its commit changes the shares of two documents by as much     *)
(*   (Settles), and a sum changes by what two of its terms change.         *)
(* - nobody brings back more than was sold.                                *)
(* - the reports on sales agree.  A replacement and its return are         *)
(*   committed and voided together, at the prices of one day (Twins), so   *)
(*   what one report takes off as returned and another as credit is the    *)
(*   same; the groupings of a report are parts of one sum.                 *)
(***************************************************************************)
EXTENDS SalesReports, Sums, TLAPS

USE ExchangesAssumption, NilAssumption

\* The shape of the state, as far as the argument needs it.
Shape ==
  /\ documents \in [DocumentIds -> Document \cup {Nil}]
  /\ pc \in [Requests -> {"idle", "locking", "commit", "done", "failed"}]
  /\ task \in [Requests -> Task \cup {Nil}]
  /\ \A d \in DocumentIds : documents[d] # Nil => \E r \in Requests : documents[d].prices = Prices[r]

\* Links come in pairs, and lead to documents that exist; the ones that are
\* named by a sale name no other.
Linked ==
  \A d \in DocumentIds : documents[d] # Nil =>
    /\ documents[d].new # Nil => documents[documents[d].new] # Nil
    /\ documents[d].original = Nil => (documents[d].new = Nil <=> documents[d].return = Nil)
    /\ documents[d].original # Nil => /\ documents[documents[d].original] # Nil
                                      /\ documents[documents[d].original].original = Nil

ReturnsReturnNothing ==
  \A d \in DocumentIds :
    (documents[d] # Nil /\ documents[d].original = Nil /\ documents[d].return # Nil) =>
      documents[documents[d].return].return = Nil

\* A document is named by the request that creates it when it commits.
NotYetCreated ==
  \A r \in Requests, side \in {"sale", "return"} : pc[r] # "done" => documents[<<r, side>>] = Nil

\* What still holds of a request's task t when it commits.
Fit(r, t) ==
  LET d == t.sale IN
  /\ t.operation = "sell" => d = <<r, "sale">> /\ t.lines \in LineChoices
  /\ t.operation \in {"exchange", "void"} =>
       /\ Exists(d, "approved") /\ documents[d].original = Nil
       /\ documents[d].return = Nil /\ documents[d].new = Nil
  /\ t.operation = "exchange" =>
       /\ t.lines \in LineChoices /\ t.returned \in LineChoices
       /\ Returnable(t.returned, documents[d].lines)
       /\ Total(t.lines, Prices[r]) >= Total(t.returned, documents[d].prices)
  /\ t.operation = "revert" =>
       /\ documents[d] # Nil /\ documents[d].original = Nil
       /\ t.new # Nil /\ documents[d].new = t.new
       /\ t.return # Nil /\ documents[d].return = t.return

Tasks == \A r \in Requests : Active(r) => task[r] # Nil /\ Fit(r, task[r])

\* No two requests work on one sale.
Apart == \A q, r \in Requests : (q # r /\ Active(q) /\ Active(r)) => task[q].sale # task[r].sale

Agreed == Linked /\ ReturnsReturnNothing /\ SaleNamesItsExchange /\ ExchangeIsNamed

EInv == Shape /\ Agreed /\ NotYetCreated /\ Tasks /\ Apart

\* Returns come in and sales go out, and links lead to the right side.
Sides ==
  \A d \in DocumentIds : documents[d] # Nil =>
    /\ documents[d].kind = IF d[2] = "return" THEN "ingreso" ELSE "egreso"
    /\ d[2] = "return" => documents[d].original # Nil /\ documents[d].received = 0
    /\ documents[d].return # Nil => documents[d].return[2] = "return"
    /\ documents[d].new # Nil => documents[d].new[2] = "sale"

ReturnsFit ==
  \A d \in DocumentIds :
    (documents[d] # Nil /\ documents[d].original = Nil /\ documents[d].return # Nil) =>
      Returnable(documents[documents[d].return].lines, documents[d].lines)

\* A row still to lock.
Row == [row : Resources, adds : Int]

\* A handler commits once nothing is left to lock.
Plans ==
  /\ plan \in [Requests -> Seq(Row)]
  /\ \A r \in Requests : /\ pc[r] = "locking" => plan[r] # <<>>
                         /\ pc[r] = "commit" => plan[r] = <<>>

\* What the rows of a plan still add to a product.
Pending(s, p) ==
  SumFunction([i \in 1..Len(s) |-> IF s[i].row = p THEN s[i].adds ELSE 0])

\* What a task adds to a product.
TaskEffect(t, p) ==
  CASE t.operation = "sell"     -> -QuantityOf(t.lines, p)
    [] t.operation = "exchange" -> QuantityOf(t.returned, p) - QuantityOf(t.lines, p)
    [] t.operation = "revert"   -> QuantityOf(documents[t.new].lines, p)
                                     - QuantityOf(documents[t.return].lines, p)
    [] t.operation = "void"     -> QuantityOf(documents[t.sale].lines, p)

\* What a handler has moved and what it still has to move make up its task.
Moving ==
  /\ change \in [Requests -> [Products -> Int]]
  /\ \A r \in Requests, p \in Products :
       IF Active(r) THEN change[r][p] + Pending(plan[r], p) = TaskEffect(task[r], p)
                    ELSE change[r][p] = 0

\* It moves the stock of rows it has locked, never below zero.
Held ==
  /\ stock \in [Products -> Nat]
  /\ owner \in [Resources -> Requests \cup {Nil}]
  /\ \A r \in Requests, p \in Products : change[r][p] # 0 =>
       owner[p] = r /\ stock[p] + change[r][p] >= 0

\* What each document in force has added to stock and to the drawer.
Share(p) ==
  [d \in DocumentIds |-> IF Approved(d) THEN Effect(documents[d].kind, documents[d].lines)[p] ELSE 0]

Takings == [d \in DocumentIds |-> IF Approved(d) THEN documents[d].received ELSE 0]

Books ==
  /\ \A p \in Products :
       stock[p] = InitialStock[p] + QuantityOf(OpeningLines, p) + SumFunctionOnSet(Share(p), DocumentIds)
  /\ drawer = SumFunctionOnSet(Takings, DocumentIds)

StockInv == EInv /\ Sides /\ ReturnsFit /\ Plans /\ Moving /\ Held /\ Books

-----------------------------------------------------------------------------
(* Lines and plans.                                                        *)

\* The lines a client may send.
LEMMA LinesAre ==
  ASSUME NEW lines \in LineChoices
  PROVE  /\ lines \in Seq(Line) /\ lines # <<>> /\ Len(lines) \in Nat \ {0}
         /\ DOMAIN lines = 1..Len(lines)
         /\ \A i \in 1..Len(lines) : /\ lines[i].product \in Products
                                     /\ lines[i].quantity \in Nat /\ lines[i].quantity > 0
         /\ \A i, j \in 1..Len(lines) : lines[i].product = lines[j].product => i = j
<1>1. /\ lines \in Seq(Line) /\ lines # <<>>
      /\ \A i, j \in DOMAIN lines : lines[i].product = lines[j].product => i = j
  BY DEF ExchangesAssumption, DistinctLines
<1>2. Len(lines) \in Nat /\ DOMAIN lines = 1..Len(lines) /\ \A i \in 1..Len(lines) : lines[i] \in Line
  BY <1>1
<1>3. Len(lines) # 0
  BY <1>1, <1>2
<1>4. \A i \in 1..Len(lines) : /\ lines[i].product \in Products
                              /\ lines[i].quantity \in Nat /\ lines[i].quantity > 0
  <2>1. \A l \in Line : l.product \in Products /\ l.quantity \in Nat /\ l.quantity > 0
    BY DEF Line
  <2> QED
    BY <1>2, <2>1
<1> QED
  BY <1>1, <1>2, <1>3, <1>4

\* What lines cost is a number.
LEMMA TotalIsNat ==
  ASSUME NEW r \in Requests, NEW lines \in LineChoices PROVE Total(lines, Prices[r]) \in Nat
<1> DEFINE f == [i \in DOMAIN lines |-> lines[i].quantity * Prices[r][lines[i].product]]
<1>1. DOMAIN f = 1..Len(lines) /\ IsFiniteSet(DOMAIN f)
  BY LinesAre, FS_Interval
<1>2. ASSUME NEW i \in 1..Len(lines) PROVE f[i] \in Nat
  <2>1. PICK a \in Nat, b \in Nat : a = lines[i].quantity /\ b = Prices[r][lines[i].product]
    BY LinesAre DEF ExchangesAssumption
  <2>2. a * b \in Nat
    BY ONLY <2>1
  <2> QED
    BY <1>1, <2>1, <2>2
<1>3. SumFunctionOnSet(f, DOMAIN f) \in Nat
  <2> HIDE DEF f
  <2> QED
    BY <1>1, <1>2, SumNatural
<1> QED
  BY <1>3 DEF Total, SumFunction

\* The quantity of a product that has a line, and of one that has none.
LEMMA QuantityIs ==
  ASSUME NEW lines \in LineChoices
  PROVE  /\ \A i \in 1..Len(lines) : QuantityOf(lines, lines[i].product) = lines[i].quantity
         /\ \A p : (\A i \in 1..Len(lines) : lines[i].product # p) => QuantityOf(lines, p) = 0
         /\ \A p : QuantityOf(lines, p) \in Nat
<1>1. DOMAIN lines = 1..Len(lines)
  BY LinesAre
<1>2. ASSUME NEW i \in 1..Len(lines)
      PROVE  QuantityOf(lines, lines[i].product) = lines[i].quantity
  <2>1. (CHOOSE j \in DOMAIN lines : lines[j].product = lines[i].product) = i
    BY <1>1, LinesAre
  <2> QED
    BY <1>1, <2>1 DEF QuantityOf, ProductsOf
<1>3. ASSUME NEW p, \A i \in 1..Len(lines) : lines[i].product # p
      PROVE  QuantityOf(lines, p) = 0
  BY <1>1, <1>3 DEF QuantityOf, ProductsOf
<1>4. ASSUME NEW p PROVE QuantityOf(lines, p) \in Nat
  <2>1. CASE \A i \in 1..Len(lines) : lines[i].product # p
    BY <1>3, <2>1
  <2>2. CASE \E i \in 1..Len(lines) : lines[i].product = p
    BY <1>2, <2>2, LinesAre
  <2> QED
    BY <2>1, <2>2
<1> QED
  BY <1>2, <1>3, <1>4

\* What a plan adds is what its two parts add.
LEMMA PendingParts ==
  ASSUME NEW s \in Seq(Row), NEW t \in Seq(Row), NEW p
  PROVE  /\ Pending(s, p) \in Int /\ Pending(t, p) \in Int
         /\ Pending(s \o t, p) = Pending(s, p) + Pending(t, p)
<1> DEFINE Of(q) == [i \in 1..Len(q) |-> IF q[i].row = p THEN q[i].adds ELSE 0]
           m == Len(s)
           n == Len(t)
           b == [i \in 1..n |-> m + i]
<1>1. m \in Nat /\ n \in Nat /\ Len(s \o t) = m + n
  OBVIOUS
<1>2. \A q \in Seq(Row) : /\ DOMAIN Of(q) = 1..Len(q) /\ IsFiniteSet(1..Len(q))
                          /\ \A i \in 1..Len(q) : Of(q)[i] \in Int
                          /\ Pending(q, p) = SumFunctionOnSet(Of(q), 1..Len(q))
  <2> SUFFICES ASSUME NEW q \in Seq(Row)
               PROVE  /\ DOMAIN Of(q) = 1..Len(q) /\ IsFiniteSet(1..Len(q))
                      /\ \A i \in 1..Len(q) : Of(q)[i] \in Int
                      /\ Pending(q, p) = SumFunctionOnSet(Of(q), 1..Len(q))
    OBVIOUS
  <2>1. Len(q) \in Nat /\ \A i \in 1..Len(q) : q[i].adds \in Int
    <3>1. Len(q) \in Nat /\ \A i \in 1..Len(q) : q[i] \in Row
      OBVIOUS
    <3>2. \A x \in Row : x.adds \in Int
      BY DEF Row
    <3> QED
      BY <3>1, <3>2
  <2>2. IsFiniteSet(1..Len(q))
    BY <2>1, FS_Interval
  <2>3. DOMAIN Of(q) = 1..Len(q) /\ \A i \in 1..Len(q) : Of(q)[i] \in Int
    BY <2>1
  <2>4. Pending(q, p) = SumFunctionOnSet(Of(q), DOMAIN Of(q))
    BY DEF Pending, SumFunction
  <2> HIDE DEF Of
  <2> QED
    BY <2>2, <2>3, <2>4
<1>3. s \o t \in Seq(Row)
  OBVIOUS
<1>4. \A i \in 1..m : Of(s \o t)[i] = Of(s)[i]
  BY <1>1
<1>5. \A i \in 1..n : Of(s \o t)[m + i] = Of(t)[i]
  BY <1>1
<1>6. /\ 1..(m + n) = 1..m \cup (m + 1)..(m + n) /\ 1..m \cap (m + 1)..(m + n) = {}
      /\ Renames(b, 1..n, (m + 1)..(m + n))
  <2>1. \A j \in (m + 1)..(m + n) : j - m \in 1..n /\ b[j - m] = j
    BY <1>1
  <2>2. \A i \in 1..n : b[i] = m + i /\ b[i] \in (m + 1)..(m + n)
    BY <1>1
  <2>3. \A i, j \in 1..n : b[i] = b[j] => i = j
    BY <1>1, <2>2
  <2> HIDE DEF b, m, n
  <2>4. Renames(b, 1..n, (m + 1)..(m + n))
    BY <2>1, <2>2, <2>3 DEF Renames
  <2> QED
    BY <1>1, <2>4
<1>7. SumFunctionOnSet(Of(s \o t), (m + 1)..(m + n)) = SumFunctionOnSet(Of(t), 1..n)
  <2>1. \A i \in 1..n : Of(t)[i] \in Int /\ Of(s \o t)[b[i]] = Of(t)[i]
    BY <1>2, <1>5
  <2>2. IsFiniteSet(1..n)
    BY <1>2
  <2>3. Renames(b, 1..n, (m + 1)..(m + n))
    BY <1>6
  <2> HIDE DEF b, Of, m, n
  <2>4. PICK S, T : S = 1..n /\ T = (m + 1)..(m + n)
    OBVIOUS
  <2>5. /\ IsFiniteSet(S) /\ Renames(b, S, T)
        /\ \A i \in S : Of(t)[i] \in Int /\ Of(s \o t)[b[i]] = Of(t)[i]
    BY <2>1, <2>2, <2>3, <2>4
  <2>6. SumFunctionOnSet(Of(s \o t), T) = SumFunctionOnSet(Of(t), S)
    BY ONLY <2>5, SumRenamed
  <2> QED
    BY <2>4, <2>6
<1>8. SumFunctionOnSet(Of(s \o t), 1..m) = SumFunctionOnSet(Of(s), 1..m)
  <2>1. IsFiniteSet(1..m)
    BY <1>2
  <2> HIDE DEF Of, m
  <2> QED
    BY <1>4, <2>1, SumEqual
<1>9. SumFunctionOnSet(Of(s \o t), 1..m \cup (m + 1)..(m + n)) =
        SumFunctionOnSet(Of(s \o t), 1..m) + SumFunctionOnSet(Of(s \o t), (m + 1)..(m + n))
  <2>1. \A i \in 1..(m + n) : Of(s \o t)[i] \in Int
    BY <1>1, <1>2, <1>3
  <2>2. IsFiniteSet(1..m) /\ IsFiniteSet((m + 1)..(m + n))
    BY <1>1, FS_Interval
  <2> HIDE DEF b, m, n, Of
  <2> QED
    BY <1>6, <2>1, <2>2, SumUnion
<1>10. SumFunctionOnSet(Of(s), 1..m) \in Int /\ SumFunctionOnSet(Of(t), 1..n) \in Int
  <2>1. /\ IsFiniteSet(1..m) /\ \A i \in 1..m : Of(s)[i] \in Int
        /\ IsFiniteSet(1..n) /\ \A i \in 1..n : Of(t)[i] \in Int
    BY <1>2
  <2> HIDE DEF Of, m, n
  <2> QED
    BY <2>1, SumType
<1>11. /\ Pending(s, p) = SumFunctionOnSet(Of(s), 1..m)
       /\ Pending(t, p) = SumFunctionOnSet(Of(t), 1..n)
       /\ Pending(s \o t, p) = SumFunctionOnSet(Of(s \o t), 1..(m + n))
  BY <1>1, <1>2, <1>3
<1> HIDE DEF Of, b, m, n
<1> QED
  BY <1>6, <1>7, <1>8, <1>9, <1>10, <1>11

\* A plan of one row, and one of none.
LEMMA PendingOne ==
  /\ \A p : Pending(<<>>, p) = 0
  /\ \A p : \A row \in Row : Pending(<<row>>, p) = IF row.row = p THEN row.adds ELSE 0
<1>1. ASSUME NEW p PROVE Pending(<<>>, p) = 0
  <2>1. 1..Len(<<>>) = {}
    OBVIOUS
  <2> QED
    BY <2>1, SumEmpty DEF Pending, SumFunction
<1>2. ASSUME NEW p, NEW row \in Row
      PROVE  Pending(<<row>>, p) = IF row.row = p THEN row.adds ELSE 0
  <2> DEFINE f == [i \in 1..Len(<<row>>) |-> IF <<row>>[i].row = p THEN <<row>>[i].adds ELSE 0]
  <2>1. 1..Len(<<row>>) = {1}
    OBVIOUS
  <2>2. DOMAIN f = {1} /\ f[1] = IF row.row = p THEN row.adds ELSE 0
    BY <2>1
  <2>3. f[1] \in Int
    BY <2>2 DEF Row
  <2>4. Pending(<<row>>, p) = SumFunctionOnSet(f, DOMAIN f)
    BY DEF Pending, SumFunction
  <2> HIDE DEF f
  <2> QED
    BY <2>2, <2>3, <2>4, SumOne
<1> QED
  BY <1>1, <1>2

\* The first row of a plan and the rest.
LEMMA PendingRest ==
  ASSUME NEW s \in Seq(Row), s # <<>>, NEW p
  PROVE  /\ Head(s) \in Row /\ Tail(s) \in Seq(Row)
         /\ Pending(Tail(s), p) \in Int
         /\ Pending(s, p) = (IF Head(s).row = p THEN Head(s).adds ELSE 0) + Pending(Tail(s), p)
<1>1. Head(s) \in Row /\ Tail(s) \in Seq(Row)
  OBVIOUS
<1>2. s = <<Head(s)>> \o Tail(s) /\ <<Head(s)>> \in Seq(Row)
  BY <1>1
<1>3. Pending(<<Head(s)>> \o Tail(s), p) = Pending(<<Head(s)>>, p) + Pending(Tail(s), p)
  BY <1>1, <1>2, PendingParts
<1>4. Pending(<<Head(s)>>, p) = IF Head(s).row = p THEN Head(s).adds ELSE 0
  <2>1. PICK row \in Row : row = Head(s)
    BY <1>1
  <2> QED
    BY <2>1, PendingOne
<1>5. Pending(Tail(s), p) \in Int
  BY <1>1, PendingParts
<1> QED
  BY <1>1, <1>2, <1>3, <1>4, <1>5

\* A plan with a row for each line, that adds w to p and nothing when no line
\* names p.
AddsTo(s, lines, p, w) ==
  /\ Len(s) = Len(lines) /\ w \in Int
  /\ \A i \in 1..Len(lines) : s[i].row = lines[i].product
  /\ \A i \in 1..Len(lines) : lines[i].product = p => s[i].adds = w
  /\ (\A i \in 1..Len(lines) : lines[i].product # p) => w = 0

\* What such a plan adds is w.
LEMMA PendingLines ==
  ASSUME NEW lines \in LineChoices, NEW s, NEW p, NEW w, AddsTo(s, lines, p, w)
  PROVE  Pending(s, p) = w
<1>0. /\ Len(s) = Len(lines) /\ w \in Int
      /\ \A i \in 1..Len(lines) : s[i].row = lines[i].product
      /\ \A i \in 1..Len(lines) : lines[i].product = p => s[i].adds = w
      /\ (\A i \in 1..Len(lines) : lines[i].product # p) => w = 0
  BY DEF AddsTo
<1> DEFINE n == Len(lines)
           f == [i \in 1..Len(s) |-> IF s[i].row = p THEN s[i].adds ELSE 0]
<1>1. DOMAIN f = 1..n /\ IsFiniteSet(1..n) /\ n \in Nat
  BY <1>0, LinesAre, FS_Interval
<1>2. Pending(s, p) = SumFunctionOnSet(f, 1..n)
  BY <1>1 DEF Pending, SumFunction
<1>3. CASE \A i \in 1..n : lines[i].product # p
  <2>1. \A i \in 1..n : f[i] = 0
    BY <1>0, <1>3
  <2>2. w = 0
    BY <1>0, <1>3
  <2> HIDE DEF f, n
  <2> QED
    BY <1>1, <1>2, <2>1, <2>2, SumZero
<1>4. CASE \E i \in 1..n : lines[i].product = p
  <2>1. PICK k \in 1..n : lines[k].product = p
    BY <1>4
  <2>2. f[k] = w /\ \A i \in (1..n) \ {k} : f[i] = 0
    BY <1>0, <2>1, LinesAre
  <2>3. IsFiniteSet((1..n) \ {k}) /\ (1..n) = ((1..n) \ {k}) \cup {k} /\ k \notin (1..n) \ {k}
    <3>1. PICK S : S = 1..n
      OBVIOUS
    <3>2. IsFiniteSet(S) /\ k \in S
      BY <1>1, <2>1, <3>1
    <3>3. IsFiniteSet(S \ {k}) /\ S = (S \ {k}) \cup {k} /\ k \notin S \ {k}
      BY ONLY <3>2, FS_RemoveElement
    <3> QED
      BY <3>1, <3>3
  <2>4. SumFunctionOnSet(f, (1..n) \ {k}) = 0
    <3> HIDE DEF f, n
    <3> QED
      BY <2>2, <2>3, SumZero
  <2>5. SumFunctionOnSet(f, ((1..n) \ {k}) \cup {k}) = SumFunctionOnSet(f, (1..n) \ {k}) + f[k]
    <3>1. \A i \in ((1..n) \ {k}) \cup {k} : f[i] \in Int
      BY <1>0, <2>2
    <3> HIDE DEF f, n
    <3> QED
      BY <2>3, <3>1, SumAdd
  <2> HIDE DEF f, n
  <2>6. SumFunctionOnSet(f, 1..n) = SumFunctionOnSet(f, (1..n) \ {k}) + f[k]
    BY ONLY <2>3, <2>5
  <2> QED
    BY ONLY <1>0, <1>2, <2>2, <2>4, <2>6
<1> QED
  BY <1>3, <1>4

\* What comes in.
LEMMA EnteringAdds ==
  ASSUME NEW lines \in LineChoices
  PROVE  /\ Entering(lines) \in Seq(Row) /\ Entering(lines) # <<>>
         /\ \A p : Pending(Entering(lines), p) = QuantityOf(lines, p)
<1> DEFINE n == Len(lines)
           Of(i) == [row |-> lines[i].product, adds |-> lines[i].quantity]
<1>0. Entering(lines) = [i \in 1..n |-> Of(i)] /\ n \in Nat
  BY LinesAre DEF Entering
<1>1. /\ Entering(lines) \in Seq(Row) /\ Len(Entering(lines)) = Len(lines)
      /\ \A i \in 1..Len(lines) : /\ Entering(lines)[i].row = lines[i].product
                                  /\ Entering(lines)[i].adds = lines[i].quantity
  <2>1. \A i \in 1..n : /\ Of(i) \in Row /\ Of(i).row = lines[i].product
                        /\ Of(i).adds = lines[i].quantity
    BY LinesAre DEF Row, Resources
  <2> HIDE DEF Of, n
  <2>2. Entering(lines) \in Seq(Row) /\ Len(Entering(lines)) = n /\ \A i \in 1..n : Entering(lines)[i] = Of(i)
    BY <1>0, <2>1
  <2> QED
    BY <2>1, <2>2 DEF n
<1>2. ASSUME NEW p PROVE Pending(Entering(lines), p) = QuantityOf(lines, p)
  <2>1. QuantityOf(lines, p) \in Int
    BY QuantityIs
  <2>2. \A i \in 1..Len(lines) : lines[i].product = p => Entering(lines)[i].adds = QuantityOf(lines, p)
    BY <1>1, QuantityIs
  <2>3. (\A i \in 1..Len(lines) : lines[i].product # p) => QuantityOf(lines, p) = 0
    BY QuantityIs
  <2> HIDE DEF n
  <2>4. AddsTo(Entering(lines), lines, p, QuantityOf(lines, p))
    BY <1>1, <2>1, <2>2, <2>3 DEF AddsTo
  <2> QED
    BY <2>4, PendingLines
<1>3. Entering(lines) # <<>>
  BY <1>1, LinesAre
<1> QED
  BY <1>1, <1>2, <1>3

\* What goes out.
LEMMA LeavingAdds ==
  ASSUME NEW lines \in LineChoices
  PROVE  /\ Leaving(lines) \in Seq(Row) /\ Leaving(lines) # <<>>
         /\ \A p : Pending(Leaving(lines), p) = -QuantityOf(lines, p)
<1> DEFINE n == Len(lines)
           Of(i) == [row |-> lines[i].product, adds |-> -lines[i].quantity]
<1>0. Leaving(lines) = [i \in 1..n |-> Of(i)] /\ n \in Nat
  BY LinesAre DEF Leaving
<1>1. /\ Leaving(lines) \in Seq(Row) /\ Len(Leaving(lines)) = Len(lines)
      /\ \A i \in 1..Len(lines) : /\ Leaving(lines)[i].row = lines[i].product
                                  /\ Leaving(lines)[i].adds = -lines[i].quantity
  <2>1. \A i \in 1..n : /\ Of(i) \in Row /\ Of(i).row = lines[i].product
                        /\ Of(i).adds = -lines[i].quantity
    BY LinesAre DEF Row, Resources
  <2> HIDE DEF Of, n
  <2>2. Leaving(lines) \in Seq(Row) /\ Len(Leaving(lines)) = n /\ \A i \in 1..n : Leaving(lines)[i] = Of(i)
    BY <1>0, <2>1
  <2> QED
    BY <2>1, <2>2 DEF n
<1>2. ASSUME NEW p PROVE Pending(Leaving(lines), p) = -QuantityOf(lines, p)
  <2>1. -QuantityOf(lines, p) \in Int
    BY QuantityIs
  <2>2. \A i \in 1..Len(lines) : lines[i].product = p => Leaving(lines)[i].adds = -QuantityOf(lines, p)
    BY <1>1, QuantityIs
  <2>3. (\A i \in 1..Len(lines) : lines[i].product # p) => -QuantityOf(lines, p) = 0
    <3>1. (\A i \in 1..Len(lines) : lines[i].product # p) => QuantityOf(lines, p) = 0
      BY QuantityIs
    <3> QED
      BY <3>1
  <2> HIDE DEF n
  <2>4. AddsTo(Leaving(lines), lines, p, -QuantityOf(lines, p))
    BY <1>1, <2>1, <2>2, <2>3 DEF AddsTo
  <2> QED
    BY <2>4, PendingLines
<1>3. Leaving(lines) # <<>>
  BY <1>1, LinesAre
<1> QED
  BY <1>1, <1>2, <1>3

\* A sequence of numbers adds to no stock.
LEMMA SequenceAdds ==
  ASSUME NEW type \in {"IN", "EG"}
  PROVE  /\ Sequence(type) \in Seq(Row) /\ Sequence(type) # <<>>
         /\ \A p : Pending(Sequence(type), p) = 0
<1>1. PICK row : row = [row |-> type, adds |-> 0]
  OBVIOUS
<1>2. row \in Row /\ Sequence(type) = <<row>> /\ row.adds = 0
  BY <1>1 DEF Row, Resources, Sequence
<1>3. \A p : Pending(<<row>>, p) = 0
  <2>1. \A p : Pending(<<row>>, p) = IF row.row = p THEN row.adds ELSE 0
    BY <1>2, PendingOne
  <2> QED
    BY <1>2, <2>1
<1>4. <<row>> \in Seq(Row) /\ <<row>> # <<>>
  BY <1>2
<1> QED
  BY <1>2, <1>3, <1>4

\* The plans of the four handlers.
LEMMA PlansAdd ==
  ASSUME NEW lines \in LineChoices, NEW returned \in LineChoices
  PROVE  /\ SalePlan(lines) \in Seq(Row) /\ SalePlan(lines) # <<>>
         /\ \A p : Pending(SalePlan(lines), p) = -QuantityOf(lines, p)
         /\ ExchangePlan(returned, lines) \in Seq(Row) /\ ExchangePlan(returned, lines) # <<>>
         /\ \A p : Pending(ExchangePlan(returned, lines), p) =
                     QuantityOf(returned, p) - QuantityOf(lines, p)
         /\ RevertPlan(returned, lines) \in Seq(Row) /\ RevertPlan(returned, lines) # <<>>
         /\ \A p : Pending(RevertPlan(returned, lines), p) =
                     QuantityOf(lines, p) - QuantityOf(returned, p)
<1>1. \A s, t \in Seq(Row) : s # <<>> => s \o t \in Seq(Row) /\ s \o t # <<>>
  OBVIOUS
<1>2. \A p : QuantityOf(lines, p) \in Nat /\ QuantityOf(returned, p) \in Nat
  BY QuantityIs
<1>3. /\ SalePlan(lines) \in Seq(Row) /\ SalePlan(lines) # <<>>
      /\ \A p : Pending(SalePlan(lines), p) = -QuantityOf(lines, p)
  <2>1. \A p : Pending(Sequence("EG") \o Leaving(lines), p) = 0 + -QuantityOf(lines, p)
    BY SequenceAdds, LeavingAdds, PendingParts
  <2> QED
    BY <1>1, <1>2, <2>1, SequenceAdds, LeavingAdds DEF SalePlan
<1>4. /\ Sequence("IN") \o Entering(returned) \in Seq(Row)
      /\ Sequence("IN") \o Entering(returned) # <<>>
      /\ \A p : Pending(Sequence("IN") \o Entering(returned), p) = QuantityOf(returned, p)
  <2>1. \A p : Pending(Sequence("IN") \o Entering(returned), p) = 0 + QuantityOf(returned, p)
    BY SequenceAdds, EnteringAdds, PendingParts
  <2> QED
    BY <1>1, <1>2, <2>1, SequenceAdds, EnteringAdds
<1>5. /\ ExchangePlan(returned, lines) \in Seq(Row) /\ ExchangePlan(returned, lines) # <<>>
      /\ \A p : Pending(ExchangePlan(returned, lines), p) =
                  QuantityOf(returned, p) - QuantityOf(lines, p)
  <2>1. ExchangePlan(returned, lines) = (Sequence("IN") \o Entering(returned)) \o SalePlan(lines)
    BY DEF ExchangePlan
  <2>2. \A p : Pending((Sequence("IN") \o Entering(returned)) \o SalePlan(lines), p) =
                 QuantityOf(returned, p) + -QuantityOf(lines, p)
    <3>1. PICK s, t : s = Sequence("IN") \o Entering(returned) /\ t = SalePlan(lines)
      OBVIOUS
    <3>2. \A p : Pending(s \o t, p) = Pending(s, p) + Pending(t, p)
      BY <1>3, <1>4, <3>1, PendingParts
    <3> QED
      BY <1>3, <1>4, <3>1, <3>2
  <2> QED
    BY <1>1, <1>2, <1>3, <1>4, <2>1, <2>2
<1>6. /\ RevertPlan(returned, lines) \in Seq(Row) /\ RevertPlan(returned, lines) # <<>>
      /\ \A p : Pending(RevertPlan(returned, lines), p) =
                  QuantityOf(lines, p) - QuantityOf(returned, p)
  <2>1. \A p : Pending(Entering(lines) \o Leaving(returned), p) =
                 QuantityOf(lines, p) + -QuantityOf(returned, p)
    BY EnteringAdds, LeavingAdds, PendingParts
  <2> QED
    BY <1>1, <1>2, <2>1, EnteringAdds, LeavingAdds DEF RevertPlan
<1> QED
  BY <1>3, <1>5, <1>6

-----------------------------------------------------------------------------

\* s is a sale of lines by r, partly paid with a credit.
Sold(s, r, lines, credit) ==
  /\ s \in Document /\ s.kind = "egreso" /\ s.lines = lines /\ s.prices = Prices[r]
  /\ s.status = "approved" /\ s.credit = credit /\ s.received = Total(lines, Prices[r]) - credit

\* A new sale is a document in force without an exchange.
LEMMA SaleIs ==
  ASSUME NEW r \in Requests, NEW lines \in LineChoices, NEW credit \in Nat,
         Total(lines, Prices[r]) >= credit, NEW s, s = SaleOf(r, lines, credit)
  PROVE  Sold(s, r, lines, credit) /\ s.original = Nil /\ s.return = Nil /\ s.new = Nil
<1>1. PICK T, P : T = Total(lines, Prices[r]) /\ P = Prices[r]
  OBVIOUS
<1>2. T \in Nat /\ T - credit \in Nat
  BY <1>1, TotalIsNat
<1>3. P \in [Products -> Nat]
  BY <1>1 DEF ExchangesAssumption
<1>4. PICK u : u = [kind |-> "egreso", lines |-> lines, prices |-> P, status |-> "approved",
                    original |-> Nil, return |-> Nil, new |-> Nil, credit |-> 0, received |-> 0]
  OBVIOUS
<1>5. s = [u EXCEPT !.credit = credit, !.received = T - credit]
  BY <1>1, <1>4 DEF SaleOf, Unlinked
<1> QED
  BY <1>1, <1>2, <1>3, <1>4, <1>5 DEF Sold, Document, Link

\* The opening sale, and nobody at work.
LEMMA InitEInv == Init => EInv
<1> SUFFICES ASSUME Init PROVE EInv
  OBVIOUS
<1>1. OpeningSale \in Requests /\ OpeningLines \in LineChoices /\ Nil \notin DocumentIds
  BY DEF ExchangesAssumption, NilAssumption
<1>2. PICK s : s = SaleOf(OpeningSale, OpeningLines, 0)
  OBVIOUS
<1>3. Total(OpeningLines, Prices[OpeningSale]) >= 0
  BY <1>1, TotalIsNat
<1>4. /\ s \in Document /\ s.prices = Prices[OpeningSale] /\ s.status = "approved"
      /\ s.original = Nil /\ s.return = Nil /\ s.new = Nil
  BY <1>1, <1>2, <1>3, SaleIs DEF Sold
<1>5. documents = [d \in DocumentIds |-> IF d = <<OpeningSale, "sale">> THEN s ELSE Nil]
  BY <1>2 DEF Init
<1>6. Shape
  BY <1>1, <1>4, <1>5 DEF Shape, Init
<1>7. \A d \in DocumentIds : documents[d] # Nil =>
        documents[d].original = Nil /\ documents[d].return = Nil /\ documents[d].new = Nil
  BY <1>4, <1>5
<1>8. Agreed
  BY <1>7 DEF Agreed, Linked, ReturnsReturnNothing, SaleNamesItsExchange, ExchangeIsNamed,
              Approved, Exists
<1>9. NotYetCreated
  BY <1>5 DEF NotYetCreated, Init, DocumentIds
<1>10. \A r \in Requests : ~Active(r)
  BY DEF Active, Init
<1> QED
  BY <1>6, <1>8, <1>9, <1>10 DEF EInv, Tasks, Apart

-----------------------------------------------------------------------------
(* Starting.                                                               *)

\* A request starts with a task that fits.
LEMMA StartKeeps ==
  ASSUME EInv, ~SameSale, NEW r \in Requests, NEW t \in Task, NEW p, Start(r, t, p), Fit(r, t)
  PROVE  EInv'
<1>1. /\ pc[r] = "idle" /\ pc' = [pc EXCEPT ![r] = "locking"] /\ task' = [task EXCEPT ![r] = t]
      /\ documents' = documents
      /\ \A q \in Requests : Active(q) => task[q].sale # t.sale
  BY DEF Start, committed
<1>2. /\ pc'[r] = "locking" /\ task'[r] = t
      /\ \A q \in Requests \ {r} : pc'[q] = pc[q] /\ task'[q] = task[q]
  BY <1>1 DEF EInv, Shape
<1>3. Shape'
  BY <1>1 DEF EInv, Shape
<1>4. Agreed'
  BY <1>1 DEF EInv, Agreed, Linked, ReturnsReturnNothing, SaleNamesItsExchange, ExchangeIsNamed,
              Approved, Exists
<1>5. NotYetCreated'
  BY <1>1, <1>2 DEF EInv, NotYetCreated
<1>6. \A q \in Requests : Active(q)' <=> (q = r \/ Active(q))
  BY <1>1, <1>2 DEF Active
<1>7. Tasks'
  <2>1. ASSUME NEW q \in Requests, q # r, Active(q)
        PROVE  task'[q] # Nil /\ Fit(q, task[q])'
    BY <1>1, <1>2, <2>1 DEF EInv, Tasks, Fit, Exists
  <2>2. t # Nil
    BY DEF NilAssumption
  <2>3. Fit(r, task[r])'
    BY <1>1, <1>2 DEF Fit, Exists
  <2> QED
    BY <1>2, <1>6, <2>1, <2>2, <2>3 DEF Tasks
<1>8. Apart'
  BY <1>1, <1>2, <1>6 DEF EInv, Apart
<1> QED
  BY <1>3, <1>4, <1>5, <1>7, <1>8 DEF EInv

\* A plain sale fits: its name is not taken.
LEMMA SellKeeps ==
  ASSUME EInv, ~SameSale, NEW r \in Requests, Sell(r)
  PROVE  EInv'
<1>1. PICK lines \in LineChoices :
        Start(r, [operation |-> "sell", sale |-> <<r, "sale">>, lines |-> lines,
                  returned |-> <<>>, return |-> Nil, new |-> Nil], SalePlan(lines))
  BY DEF Sell
<1>2. PICK t : t = [operation |-> "sell", sale |-> <<r, "sale">>, lines |-> lines,
                    returned |-> <<>>, return |-> Nil, new |-> Nil]
  OBVIOUS
<1>3. t \in Task
  BY <1>2 DEF Task, Link, DocumentIds
<1>4. Fit(r, t)
  BY <1>2 DEF Fit
<1> QED
  BY <1>1, <1>2, <1>3, <1>4, StartKeeps

\* An exchange fits: its sale is in force and has none.
LEMMA ExchangeKeeps ==
  ASSUME EInv, ~SameSale, NEW r \in Requests, NEW d \in DocumentIds, Exchange(r, d)
  PROVE  EInv'
<1>1. PICK returned \in LineChoices, lines \in LineChoices :
        /\ Exchangeable(d) /\ Returnable(returned, documents[d].lines)
        /\ Total(lines, Prices[r]) >= Total(returned, documents[d].prices)
        /\ Start(r, [operation |-> "exchange", sale |-> d, lines |-> lines,
                     returned |-> returned, return |-> Nil, new |-> Nil],
                 ExchangePlan(returned, lines))
  BY DEF Exchange
<1>2. PICK t : t = [operation |-> "exchange", sale |-> d, lines |-> lines,
                    returned |-> returned, return |-> Nil, new |-> Nil]
  OBVIOUS
<1>3. t \in Task
  BY <1>2 DEF Task, Link
<1>4. Fit(r, t)
  BY <1>1, <1>2 DEF Fit, Exchangeable
<1> QED
  BY <1>1, <1>2, <1>3, <1>4, StartKeeps

\* A void fits: its document is in force and has no links.
LEMMA VoidKeeps ==
  ASSUME EInv, ~SameSale, NEW r \in Requests, NEW d \in DocumentIds, Void(r, d)
  PROVE  EInv'
<1>1. PICK t : t = [operation |-> "void", sale |-> d, lines |-> <<>>, returned |-> <<>>,
                    return |-> Nil, new |-> Nil]
  OBVIOUS
<1>2. t \in Task
  BY <1>1 DEF Task, Link
<1>3. Fit(r, t)
  BY <1>1 DEF Fit, Void
<1>4. Start(r, t, Entering(documents[d].lines))
  BY <1>1 DEF Void
<1> QED
  BY <1>2, <1>3, <1>4, StartKeeps

\* From any of its three documents, a reversal finds the exchange that the sale
\* names.
LEMMA RevertFinds ==
  ASSUME EInv, NEW n \in DocumentIds, documents[n] # Nil,
         documents[n].original # Nil, documents[n].return # Nil, Approved(n)
  PROVE  LET o == documents[n].original IN
         /\ o \in DocumentIds /\ documents[o] # Nil /\ documents[o].original = Nil
         /\ documents[o].new = n /\ documents[o].return = documents[n].return
<1>1. PICK o : o = documents[n].original
  OBVIOUS
<1>2. o \in DocumentIds
  BY <1>1 DEF EInv, Shape, Document, Link
<1>3. documents[o] # Nil /\ documents[o].original = Nil
  BY <1>1 DEF EInv, Agreed, Linked
<1>4. n \in {documents[o].return, documents[o].new}
  BY <1>1 DEF EInv, Agreed, ExchangeIsNamed
<1>5. documents[o].new # Nil /\ documents[o].return # Nil
  BY <1>2, <1>3, <1>4 DEF EInv, Agreed, Linked, NilAssumption
<1>6. documents[documents[o].return].return = Nil
  BY <1>2, <1>3, <1>5 DEF EInv, Agreed, ReturnsReturnNothing
<1>7. documents[o].new = n
  BY <1>4, <1>6
<1>8. documents[n].return = documents[o].return
  BY <1>2, <1>3, <1>5, <1>7 DEF EInv, Agreed, SaleNamesItsExchange
<1> QED
  BY <1>1, <1>2, <1>3, <1>7, <1>8

\* A reversal fits.
LEMMA RevertKeeps ==
  ASSUME EInv, ~SameSale, NEW r \in Requests, NEW d \in DocumentIds, Revert(r, d)
  PROVE  EInv'
<1>1. PICK n : n = IF documents[d].new # Nil THEN documents[d].new ELSE d
  OBVIOUS
<1>2. documents[d] # Nil /\ documents[d] \in Document
  BY DEF Revert, EInv, Shape
<1>3. n \in DocumentIds /\ documents[n] # Nil
  BY <1>1, <1>2 DEF EInv, Shape, Agreed, Linked, Document, Link
<1>4. /\ documents[n].original # Nil /\ documents[n].return # Nil /\ Approved(n)
      /\ Start(r, [operation |-> "revert", sale |-> documents[n].original, lines |-> <<>>,
                   returned |-> <<>>, return |-> documents[n].return, new |-> n],
               RevertPlan(documents[documents[n].return].lines, documents[n].lines))
  BY <1>1, <1>3 DEF Revert, Approved, Exists
<1>5. PICK o, x : o = documents[n].original /\ x = documents[n].return
  OBVIOUS
<1>6. /\ o \in DocumentIds /\ documents[o] # Nil /\ documents[o].original = Nil
      /\ documents[o].new = n /\ documents[o].return = x
  BY <1>3, <1>4, <1>5, RevertFinds
<1>7. x \in DocumentIds
  BY <1>3, <1>4, <1>5 DEF EInv, Shape, Document, Link
<1>8. PICK t : t = [operation |-> "revert", sale |-> o, lines |-> <<>>,
                    returned |-> <<>>, return |-> x, new |-> n]
  OBVIOUS
<1>9. t \in Task
  BY <1>3, <1>6, <1>7, <1>8 DEF Task, Link
<1>10. Fit(r, t)
  BY <1>3, <1>6, <1>7, <1>8 DEF Fit, NilAssumption
<1> QED
  BY <1>4, <1>5, <1>8, <1>9, <1>10, StartKeeps

-----------------------------------------------------------------------------
(* On the way.                                                             *)

\* A request that locks its next row keeps its task.
LEMMA LockKeeps ==
  ASSUME EInv, NEW r \in Requests, Lock(r)
  PROVE  EInv'
<1>1. /\ pc[r] = "locking" /\ task' = task /\ documents' = documents
      /\ pc' = [pc EXCEPT ![r] = IF Len(plan[r]) = 1 THEN "commit" ELSE "locking"]
  BY DEF Lock, Available, committed
<1>2. /\ pc' \in [Requests -> {"idle", "locking", "commit", "done", "failed"}]
      /\ pc'[r] \in {"locking", "commit"} /\ \A q \in Requests \ {r} : pc'[q] = pc[q]
  BY <1>1 DEF EInv, Shape
<1>3. \A q \in Requests : (Active(q)' <=> Active(q)) /\ (pc'[q] = "done" <=> pc[q] = "done")
  BY <1>1, <1>2 DEF Active
<1>4. Shape'
  BY <1>1, <1>2 DEF EInv, Shape
<1>5. Agreed'
  BY <1>1 DEF EInv, Agreed, Linked, ReturnsReturnNothing, SaleNamesItsExchange, ExchangeIsNamed,
              Approved, Exists
<1>6. NotYetCreated' /\ Apart'
  BY <1>1, <1>3 DEF EInv, NotYetCreated, Apart
<1>7. Tasks'
  BY <1>1, <1>3 DEF EInv, Tasks, Fit, Exists
<1> QED
  BY <1>4, <1>5, <1>6, <1>7 DEF EInv

\* A request ends without having changed a document.
LEMMA RollbackKeeps ==
  ASSUME EInv, NEW r \in Requests, Active(r), Rollback(r)
  PROVE  EInv'
<1>1. /\ task' = [task EXCEPT ![r] = Nil] /\ documents' = documents
      /\ pc' = [pc EXCEPT ![r] = "failed"]
  BY DEF Rollback, End, committed
<1>2. /\ pc' \in [Requests -> {"idle", "locking", "commit", "done", "failed"}]
      /\ task' \in [Requests -> Task \cup {Nil}] /\ pc'[r] = "failed"
      /\ \A q \in Requests \ {r} : pc'[q] = pc[q] /\ task'[q] = task[q]
  BY <1>1 DEF EInv, Shape
<1>3. \A q \in Requests : Active(q)' <=> (q # r /\ Active(q))
  BY <1>2 DEF Active
<1>4. Shape'
  BY <1>1, <1>2 DEF EInv, Shape
<1>5. Agreed'
  BY <1>1 DEF EInv, Agreed, Linked, ReturnsReturnNothing, SaleNamesItsExchange, ExchangeIsNamed,
              Approved, Exists
<1>6. NotYetCreated'
  BY <1>1, <1>2 DEF EInv, NotYetCreated, Active
<1>7. Tasks' /\ Apart'
  BY <1>1, <1>2, <1>3 DEF EInv, Tasks, Apart, Fit, Exists
<1> QED
  BY <1>4, <1>5, <1>6, <1>7 DEF EInv

-----------------------------------------------------------------------------
(* Committing.                                                             *)

\* What a commit has to show: it agrees with itself, and neither creates a
\* document of another request nor writes the sale another works on.
LEMMA CommitKeeps ==
  ASSUME EInv, NEW r \in Requests, pc[r] = "commit", End(r, "done"),
         documents' \in [DocumentIds -> Document \cup {Nil}],
         \A d \in DocumentIds : documents'[d] # Nil =>
           \E q \in Requests : documents'[d].prices = Prices[q],
         Agreed',
         \A d \in DocumentIds : (documents[d] = Nil /\ documents'[d] # Nil) => d[1] = r,
         \A d \in DocumentIds : (documents[d] # Nil /\ documents[d].original = Nil /\ d # task[r].sale) =>
           documents'[d] = documents[d]
  PROVE  EInv'
<1>1. task' = [task EXCEPT ![r] = Nil] /\ pc' = [pc EXCEPT ![r] = "done"]
  BY DEF End
<1>2. /\ pc' \in [Requests -> {"idle", "locking", "commit", "done", "failed"}]
      /\ task' \in [Requests -> Task \cup {Nil}] /\ pc'[r] = "done"
      /\ \A q \in Requests \ {r} : pc'[q] = pc[q] /\ task'[q] = task[q]
  BY <1>1 DEF EInv, Shape
<1>3. \A q \in Requests : Active(q)' <=> (q # r /\ Active(q))
  BY <1>2 DEF Active
<1>4. Shape'
  BY <1>2 DEF Shape
<1>5. NotYetCreated'
  <2> SUFFICES ASSUME NEW q \in Requests, NEW side \in {"sale", "return"}, pc'[q] # "done"
               PROVE  documents'[<<q, side>>] = Nil
    BY DEF NotYetCreated
  <2>1. q # r /\ <<q, side>> \in DocumentIds /\ <<q, side>>[1] = q
    BY <1>2 DEF DocumentIds
  <2>2. documents[<<q, side>>] = Nil
    BY <1>2, <2>1 DEF EInv, NotYetCreated
  <2> QED
    BY <2>1, <2>2
<1>6. Apart'
  BY <1>2, <1>3 DEF EInv, Apart
<1>7. Tasks'
  <2> SUFFICES ASSUME NEW q \in Requests, q # r, Active(q)
               PROVE  task'[q] # Nil /\ Fit(q, task[q])'
    BY <1>3 DEF Tasks
  <2>1. PICK t \in Task : t = task[q]
    BY DEF EInv, Shape, Tasks
  <2>2. task'[q] = t /\ t # Nil
    BY <1>2, <2>1 DEF NilAssumption
  <2>3. t.sale # task[r].sale /\ t.sale \in DocumentIds
    BY <2>1 DEF EInv, Apart, Active, Task
  <2>4. Fit(q, t)
    BY <2>1 DEF EInv, Tasks
  <2>5. t.operation # "sell" => documents'[t.sale] = documents[t.sale]
    BY <2>3, <2>4 DEF Fit, Exists, Task
  <2>6. Fit(q, t)'
    BY <2>4, <2>5 DEF Fit, Exists
  <2> QED
    BY <2>2, <2>6
<1> QED
  BY <1>4, <1>5, <1>6, <1>7 DEF EInv

\* The task of a request that commits.
LEMMA Committing ==
  ASSUME EInv, NEW r \in Requests, pc[r] = "commit"
  PROVE  task[r] \in Task /\ Fit(r, task[r]) /\ task[r].sale \in DocumentIds
         /\ \A side \in {"sale", "return"} :
              <<r, side>> \in DocumentIds /\ documents[<<r, side>>] = Nil
<1>1. Active(r)
  BY DEF Active
<1>2. task[r] \in Task
  BY <1>1 DEF EInv, Shape, Tasks
<1>3. \A side \in {"sale", "return"} : <<r, side>> \in DocumentIds
  BY DEF DocumentIds
<1> QED
  BY <1>1, <1>2, <1>3 DEF EInv, Tasks, NotYetCreated, Task

\* A sale that was exchanged, and the two documents it names.
LEMMA ThreeAgree ==
  ASSUME EInv, NEW e \in DocumentIds, documents[e] # Nil, documents[e].original = Nil,
         documents[e].new # Nil
  PROVE  \E x, n \in DocumentIds :
           /\ documents[e].return = x /\ documents[e].new = n
           /\ documents[x] # Nil /\ documents[n] # Nil
           /\ documents[e].status = "approved" /\ documents[x].status = "approved"
           /\ documents[n].status = "approved"
           /\ documents[x].original = e /\ documents[x].new = n /\ documents[x].return = Nil
           /\ documents[n].original = e /\ documents[n].return = x
<1>1. PICK x, n : x = documents[e].return /\ n = documents[e].new
  OBVIOUS
<1>2. x # Nil /\ n # Nil
  BY <1>1 DEF EInv, Agreed, Linked
<1>3. x \in DocumentIds /\ n \in DocumentIds
  BY <1>1, <1>2 DEF EInv, Shape, Document, Link
<1>4. /\ Approved(e) /\ Approved(x) /\ Approved(n)
      /\ documents[x].original = e /\ documents[x].new = n
      /\ documents[n].original = e /\ documents[n].return = x
  BY <1>1 DEF EInv, Agreed, SaleNamesItsExchange
<1>5. documents[x].return = Nil
  BY <1>1, <1>2 DEF EInv, Agreed, ReturnsReturnNothing
<1> QED
  BY <1>1, <1>3, <1>4, <1>5 DEF Approved, Exists

\* A document with an original: the original is a sale and it exists.
LEMMA OriginalIs ==
  ASSUME EInv, NEW e \in DocumentIds, documents[e] # Nil, documents[e].original # Nil
  PROVE  \E o \in DocumentIds :
           /\ documents[e].original = o /\ documents[o] # Nil /\ documents[o].original = Nil
           /\ documents[e].status = "approved" => e \in {documents[o].return, documents[o].new}
<1>1. documents[e].original \in DocumentIds
  BY DEF EInv, Shape, Document, Link
<1> QED
  BY <1>1 DEF EInv, Agreed, Linked, ExchangeIsNamed, Approved, Exists

\* What Agreed asks of one document.
AgreesAbout(e) ==
  /\ documents[e].new # Nil => documents[documents[e].new] # Nil
  /\ documents[e].original = Nil =>
       /\ documents[e].new = Nil <=> documents[e].return = Nil
       /\ documents[e].new # Nil =>
            \E x, n \in DocumentIds :
              /\ documents[e].return = x /\ documents[e].new = n
              /\ documents[x] # Nil /\ documents[n] # Nil
              /\ documents[e].status = "approved" /\ documents[x].status = "approved"
              /\ documents[n].status = "approved"
              /\ documents[x].original = e /\ documents[x].new = n /\ documents[x].return = Nil
              /\ documents[n].original = e /\ documents[n].return = x
  /\ documents[e].original # Nil =>
       \E o \in DocumentIds :
         /\ documents[e].original = o /\ documents[o] # Nil /\ documents[o].original = Nil
         /\ documents[e].status = "approved" => e \in {documents[o].return, documents[o].new}

\* They agree about each document when they agree.
LEMMA AgreedIsEach ==
  ASSUME EInv, NEW e \in DocumentIds, documents[e] # Nil PROVE AgreesAbout(e)
<1>1. /\ documents[e].new # Nil => documents[documents[e].new] # Nil
      /\ documents[e].original = Nil => (documents[e].new = Nil <=> documents[e].return = Nil)
  BY DEF EInv, Agreed, Linked
<1> QED
  BY <1>1, ThreeAgree, OriginalIs DEF AgreesAbout

\* And they agree after a step when they agree about each.
LEMMA EachIsAgreed ==
  ASSUME \A e \in DocumentIds : documents'[e] # Nil => AgreesAbout(e)' PROVE Agreed'
<1>1. Linked'
  BY DEF AgreesAbout, Linked
<1>2. ReturnsReturnNothing'
  BY DEF AgreesAbout, ReturnsReturnNothing
<1>3. SaleNamesItsExchange'
  BY DEF AgreesAbout, SaleNamesItsExchange, Approved, Exists
<1>4. ExchangeIsNamed'
  BY DEF AgreesAbout, ExchangeIsNamed, Approved, Exists
<1> QED
  BY <1>1, <1>2, <1>3, <1>4 DEF Agreed

\* A commit leaves every document outside D as it was.
WritesOnly(D) ==
  /\ documents' \in [DocumentIds -> Document \cup {Nil}]
  /\ \A e \in DocumentIds \ D : documents'[e] = documents[e]

\* What a document keeps for good.
SameGoods(v, w) ==
  /\ v.kind = w.kind /\ v.lines = w.lines /\ v.prices = w.prices
  /\ v.credit = w.credit /\ v.received = w.received /\ v.original = w.original

\* A plain sale writes one document.
SaleWritten(r, d, s) ==
  /\ d \in DocumentIds
  /\ s \in Document
  /\ d = <<r, "sale">> /\ d = task[r].sale /\ documents[d] = Nil
  /\ task[r].lines \in LineChoices /\ Sold(s, r, task[r].lines, 0)
  /\ s.original = Nil /\ s.return = Nil /\ s.new = Nil /\ s # Nil
  /\ WritesOnly({d}) /\ documents'[d] = s

\* The commit of a plain sale does that.
LEMMA SellWrites ==
  ASSUME EInv, NEW r \in Requests, Commit(r), task[r].operation = "sell"
  PROVE  \E d, s : SaleWritten(r, d, s)
<1>1. PICK t : t = task[r]
  OBVIOUS
<1>2. pc[r] = "commit" /\ documents' = [documents EXCEPT ![t.sale] = SaleOf(r, t.lines, 0)]
  BY <1>1 DEF Commit
<1>3. /\ t \in Task /\ Fit(r, t) /\ t.sale \in DocumentIds
      /\ <<r, "sale">> \in DocumentIds /\ documents[<<r, "sale">>] = Nil
  BY <1>1, <1>2, Committing
<1>4. PICK d : d = <<r, "sale">>
  OBVIOUS
<1>5. t.sale = d /\ t.lines \in LineChoices
  BY <1>1, <1>3, <1>4 DEF Fit
<1>6. PICK s : s = SaleOf(r, t.lines, 0)
  OBVIOUS
<1>7. Sold(s, r, t.lines, 0) /\ s.original = Nil /\ s.return = Nil /\ s.new = Nil
  <2>1. Total(t.lines, Prices[r]) >= 0
    BY <1>5, TotalIsNat
  <2> QED
    BY <1>5, <1>6, <2>1, SaleIs
<1>8. documents' = [documents EXCEPT ![d] = s] /\ s \in Document /\ s # Nil
  BY <1>2, <1>5, <1>6, <1>7 DEF Sold, NilAssumption
<1>9. WritesOnly({d}) /\ documents'[d] = s
  BY <1>3, <1>4, <1>8 DEF EInv, Shape, WritesOnly
<1>90. SaleWritten(r, d, s)
  BY <1>1, <1>3, <1>4, <1>5, <1>7, <1>8, <1>9 DEF SaleWritten
<1> QED
  BY <1>90

\* A plain sale adds a document without links.
LEMMA CommitSellKeeps ==
  ASSUME EInv, NEW r \in Requests, Commit(r), task[r].operation = "sell"
  PROVE  EInv'
<1>1. pc[r] = "commit" /\ End(r, "done")
  BY DEF Commit
<1>2. PICK d, s : SaleWritten(r, d, s)
  BY SellWrites
<1>7. /\ s \in Document /\ s.prices = Prices[r] /\ s.status = "approved"
      /\ s.original = Nil /\ s.return = Nil /\ s.new = Nil
  BY <1>2 DEF Sold, SaleWritten
<1>9. /\ documents' \in [DocumentIds -> Document \cup {Nil}] /\ documents'[d] = s
      /\ \A e \in DocumentIds : e # d => documents'[e] = documents[e]
      /\ d \in DocumentIds /\ documents[d] = Nil /\ d[1] = r /\ s # Nil
  BY <1>2 DEF WritesOnly, SaleWritten
<1>10. \A e \in DocumentIds : documents'[e] # Nil => \E q \in Requests : documents'[e].prices = Prices[q]
  BY <1>7, <1>9 DEF EInv, Shape
<1>11. ASSUME NEW e \in DocumentIds, documents'[e] # Nil
       PROVE  AgreesAbout(e)'
  <2>1. CASE e = d
    BY <1>7, <1>9, <2>1 DEF AgreesAbout
  <2>2. CASE e # d
    <3>1. documents[e] # Nil /\ AgreesAbout(e) /\ documents'[e] = documents[e]
      BY <1>9, <1>11, <2>2, AgreedIsEach
    <3>2. documents[e].new # Nil => documents[e].new \in DocumentIds
      BY <3>1 DEF EInv, Shape, Document, Link
    <3>3. \A y \in DocumentIds : documents[y] # Nil => documents'[y] = documents[y]
      BY <1>9
    <3>4. CASE documents[e].original = Nil
      BY ONLY <3>1, <3>2, <3>3, <3>4 DEF AgreesAbout
    <3>5. CASE documents[e].original # Nil
      BY ONLY <3>1, <3>2, <3>3, <3>5 DEF AgreesAbout
    <3> QED
      BY <3>4, <3>5
  <2> QED
    BY <2>1, <2>2
<1>12. Agreed'
  BY <1>11, EachIsAgreed
<1> QED
  BY <1>1, <1>2, <1>9, <1>10, <1>12, CommitKeeps

\* A void writes one document.
VoidWritten(r, d, w, v) ==
  /\ d \in DocumentIds
  /\ w \in Document /\ v \in Document
  /\ d = task[r].sale /\ w = documents[d] /\ w.status = "approved"
  /\ w.original = Nil /\ w.return = Nil /\ w.new = Nil
  /\ SameGoods(v, w) /\ v.status = "voided" /\ v.return = Nil /\ v.new = Nil
  /\ w # Nil /\ v # Nil /\ WritesOnly({d}) /\ documents'[d] = v

\* The commit of a void does that.
LEMMA VoidWrites ==
  ASSUME EInv, NEW r \in Requests, Commit(r), task[r].operation = "void"
  PROVE  \E d, w, v : VoidWritten(r, d, w, v)
<1>1. PICK t : t = task[r]
  OBVIOUS
<1>2. pc[r] = "commit" /\ documents' = [documents EXCEPT ![t.sale].status = "voided"]
  BY <1>1 DEF Commit
<1>3. t \in Task /\ Fit(r, t) /\ t.sale \in DocumentIds
  BY <1>1, <1>2, Committing
<1>4. PICK d : d = t.sale
  OBVIOUS
<1>5. PICK w : w = documents[d]
  OBVIOUS
<1>6. /\ d \in DocumentIds /\ w \in Document /\ w.status = "approved"
      /\ w.original = Nil /\ w.return = Nil /\ w.new = Nil
  BY <1>1, <1>3, <1>4, <1>5 DEF Fit, Exists, EInv, Shape
<1>7. PICK v : v = [w EXCEPT !.status = "voided"]
  OBVIOUS
<1>8. v \in Document /\ SameGoods(v, w) /\ v.status = "voided" /\ v.return = Nil /\ v.new = Nil
  BY <1>6, <1>7 DEF Document, SameGoods
<1>9. documents' = [documents EXCEPT ![d] = v] /\ v # Nil /\ w # Nil
  BY <1>2, <1>4, <1>5, <1>6, <1>7, <1>8 DEF NilAssumption
<1>10. WritesOnly({d}) /\ documents'[d] = v
  BY <1>6, <1>8, <1>9 DEF EInv, Shape, WritesOnly
<1>90. VoidWritten(r, d, w, v)
  BY <1>1, <1>4, <1>5, <1>6, <1>8, <1>9, <1>10 DEF VoidWritten
<1> QED
  BY <1>90

\* A voided document without links leaves those of the others alone.
LEMMA CommitVoidKeeps ==
  ASSUME EInv, NEW r \in Requests, Commit(r), task[r].operation = "void"
  PROVE  EInv'
<1>2. pc[r] = "commit" /\ End(r, "done")
  BY DEF Commit
<1>5. PICK d, w, v : VoidWritten(r, d, w, v)
  BY VoidWrites
<1>6. /\ d \in DocumentIds /\ w \in Document /\ d = task[r].sale /\ w = documents[d] /\ w # Nil
      /\ w.original = Nil /\ w.return = Nil /\ w.new = Nil
  BY <1>5 DEF VoidWritten
<1>8. v \in Document /\ v.prices = w.prices /\ v.original = Nil /\ v.return = Nil /\ v.new = Nil
  BY <1>5 DEF SameGoods, VoidWritten
<1>10. /\ documents' \in [DocumentIds -> Document \cup {Nil}] /\ documents'[d] = v
       /\ \A e \in DocumentIds : e # d => documents'[e] = documents[e]
       /\ documents[d] # Nil /\ v # Nil
  BY <1>5 DEF WritesOnly, VoidWritten
<1>11. \A e \in DocumentIds : documents'[e] # Nil => \E q \in Requests : documents'[e].prices = Prices[q]
  BY <1>6, <1>8, <1>10 DEF EInv, Shape
<1>12. ASSUME NEW e \in DocumentIds, documents'[e] # Nil
       PROVE  AgreesAbout(e)'
  <2>1. CASE e = d
    BY <1>8, <1>10, <2>1 DEF AgreesAbout
  <2>2. CASE e # d
    <3>1. documents[e] # Nil /\ AgreesAbout(e) /\ documents'[e] = documents[e]
      BY <1>10, <1>12, <2>2, AgreedIsEach
    <3>2. documents[e].new # Nil => documents[e].new \in DocumentIds
      BY <3>1 DEF EInv, Shape, Document, Link
    <3>3. documents[e].new # Nil => documents'[documents[e].new] # Nil
      BY <1>10, <3>1, <3>2 DEF AgreesAbout
    <3>4. CASE documents[e].original = Nil
      <4>1. ASSUME NEW y \in DocumentIds, documents[y] # Nil, documents[y].original = e
            PROVE  documents'[y] = documents[y]
        BY <1>6, <1>10, <4>1 DEF NilAssumption
      <4> QED
        BY ONLY <3>1, <3>3, <3>4, <4>1 DEF AgreesAbout
    <3>5. CASE documents[e].original # Nil
      <4>1. PICK o \in DocumentIds :
              /\ documents[e].original = o /\ documents[o] # Nil /\ documents[o].original = Nil
              /\ documents[e].status = "approved" => e \in {documents[o].return, documents[o].new}
        BY <3>1, <3>5 DEF AgreesAbout
      <4>2. CASE o = d
        <5>1. documents[e].status # "approved"
          BY <1>6, <4>1, <4>2 DEF NilAssumption
        <5> QED
          BY <1>8, <1>10, <3>1, <3>3, <3>5, <4>1, <4>2, <5>1 DEF AgreesAbout
      <4>3. CASE o # d
        BY <1>10, <3>1, <3>3, <3>5, <4>1, <4>3 DEF AgreesAbout
      <4> QED
        BY <4>2, <4>3
    <3> QED
      BY <3>4, <3>5
  <2> QED
    BY <2>1, <2>2
<1>13. Agreed'
  BY <1>12, EachIsAgreed
<1>14. \A e \in DocumentIds : e # task[r].sale => documents'[e] = documents[e]
  BY <1>6, <1>10
<1> QED
  BY <1>2, <1>10, <1>11, <1>13, <1>14, CommitKeeps

\* An exchange writes three documents, of which two are new.
ExchangeWritten(r, d, x, n, w, wd, wx, wn) ==
  /\ d \in DocumentIds /\ x \in DocumentIds /\ n \in DocumentIds
  /\ w \in Document /\ wd \in Document /\ wx \in Document /\ wn \in Document
  /\ d = task[r].sale /\ x = <<r, "return">> /\ n = <<r, "sale">>
  /\ d # x /\ d # n /\ documents[x] = Nil /\ documents[n] = Nil
  /\ task[r].lines \in LineChoices /\ task[r].returned \in LineChoices
  /\ w = documents[d] /\ w # Nil /\ w.status = "approved"
  /\ w.original = Nil /\ w.return = Nil /\ w.new = Nil
  /\ Returnable(task[r].returned, w.lines)
  /\ SameGoods(wd, w) /\ wd.status = "approved" /\ wd.return = x /\ wd.new = n
  /\ wx.kind = "ingreso" /\ wx.lines = task[r].returned /\ wx.prices = w.prices
  /\ wx.status = "approved" /\ wx.credit = 0 /\ wx.received = 0
  /\ wx.original = d /\ wx.return = Nil /\ wx.new = n
  /\ Sold(wn, r, task[r].lines, Total(task[r].returned, w.prices))
  /\ wn.original = d /\ wn.return = x /\ wn.new = Nil
  /\ wd # Nil /\ wx # Nil /\ wn # Nil
  /\ WritesOnly({d, x, n}) /\ documents'[d] = wd /\ documents'[x] = wx /\ documents'[n] = wn

\* The commit of an exchange does that.
LEMMA ExchangeWrites ==
  ASSUME EInv, NEW r \in Requests, Commit(r), task[r].operation = "exchange"
  PROVE  \E d, x, n, w, wd, wx, wn : ExchangeWritten(r, d, x, n, w, wd, wx, wn)
<1>1. PICK t : t = task[r]
  OBVIOUS
<1>2. pc[r] = "commit" /\ documents' = Exchanged(documents, r, t)
  BY <1>1 DEF Commit
<1>3. t \in Task /\ Fit(r, t) /\ t.sale \in DocumentIds
  BY <1>1, <1>2, Committing
<1>4. PICK x, n : x = <<r, "return">> /\ n = <<r, "sale">>
  OBVIOUS
<1>5. /\ x \in DocumentIds /\ n \in DocumentIds /\ x # n /\ x[1] = r /\ n[1] = r
      /\ documents[x] = Nil /\ documents[n] = Nil
  BY <1>2, <1>4, Committing
<1>6. PICK d, w, P : d = t.sale /\ w = documents[d] /\ P = w.prices
  OBVIOUS
<1>7. /\ d \in DocumentIds /\ w \in Document /\ w # Nil /\ w.status = "approved"
      /\ w.original = Nil /\ w.return = Nil /\ w.new = Nil
      /\ t.lines \in LineChoices /\ t.returned \in LineChoices
      /\ Returnable(t.returned, w.lines)
      /\ Total(t.lines, Prices[r]) >= Total(t.returned, P)
  BY <1>1, <1>3, <1>6 DEF Fit, Exists, EInv, Shape
<1>8. PICK q \in Requests : P = Prices[q]
  BY <1>6, <1>7 DEF EInv, Shape
<1>9. PICK c : c = Total(t.returned, P)
  OBVIOUS
<1>10. c \in Nat /\ Total(t.lines, Prices[r]) >= c
  BY <1>7, <1>8, <1>9, TotalIsNat
<1>11. PICK s : s = SaleOf(r, t.lines, c)
  OBVIOUS
<1>12. Sold(s, r, t.lines, c) /\ s \in Document /\ s.original = Nil /\ s.return = Nil /\ s.new = Nil
  BY <1>7, <1>10, <1>11, SaleIs DEF Sold
<1>13. PICK wd : wd = [w EXCEPT !.return = x, !.new = n]
  OBVIOUS
<1>14. PICK wn : wn = [s EXCEPT !.original = d, !.return = x]
  OBVIOUS
<1>15. PICK u : u = Unlinked("ingreso", t.returned, P)
  OBVIOUS
<1>16. PICK wx : wx = [u EXCEPT !.original = d, !.new = n]
  OBVIOUS
<1>17. /\ wd \in Document /\ SameGoods(wd, w) /\ wd.status = "approved"
       /\ wd.return = x /\ wd.new = n
  BY <1>5, <1>6, <1>7, <1>13 DEF Document, Link, SameGoods
<1>18. /\ wn \in Document /\ Sold(wn, r, t.lines, c) /\ wn.original = d
       /\ wn.return = x /\ wn.new = Nil
  BY <1>5, <1>7, <1>12, <1>14 DEF Document, Link, Sold
<1>19. /\ u \in Document /\ u.kind = "ingreso" /\ u.lines = t.returned /\ u.prices = P
       /\ u.status = "approved" /\ u.credit = 0 /\ u.received = 0 /\ u.return = Nil
  <2>1. P \in [Products -> Nat]
    BY <1>6, <1>7 DEF Document
  <2>2. t.returned \in LineChoices
    BY <1>7
  <2> QED
    BY <1>15, <2>1, <2>2 DEF Unlinked, Document, Link
<1>20. /\ wx \in Document /\ wx.kind = "ingreso" /\ wx.lines = t.returned /\ wx.prices = P
       /\ wx.status = "approved" /\ wx.credit = 0 /\ wx.received = 0
       /\ wx.original = d /\ wx.return = Nil /\ wx.new = n
  BY <1>5, <1>7, <1>16, <1>19 DEF Document, Link
<1>21. documents' = [documents EXCEPT ![d] = wd, ![x] = wx, ![n] = wn]
  <2>1. x # d /\ n # d
    BY <1>5, <1>6, <1>7
  <2>2. documents' = [documents EXCEPT ![d] = [@ EXCEPT !.return = x, !.new = n],
                                       ![x] = wx, ![n] = wn]
    BY <1>2, <1>4, <1>6, <1>9, <1>11, <1>14, <1>15, <1>16, Zenon DEF Exchanged
  <2> QED
    BY <1>6, <1>13, <2>2
<1>22. /\ documents' \in [DocumentIds -> Document \cup {Nil}]
       /\ documents'[d] = wd /\ documents'[x] = wx /\ documents'[n] = wn
       /\ \A e \in DocumentIds \ {d, x, n} : documents'[e] = documents[e]
       /\ wd # Nil /\ wx # Nil /\ wn # Nil /\ d # x /\ d # n /\ documents[d] # Nil
  <2>1. PICK f : f = [documents EXCEPT ![d] = wd]
    OBVIOUS
  <2>2. PICK g : g = [f EXCEPT ![x] = wx]
    OBVIOUS
  <2>3. documents' = [g EXCEPT ![n] = wn]
    BY <1>21, <2>1, <2>2
  <2>4. f \in [DocumentIds -> Document \cup {Nil}] /\ f[d] = wd
        /\ \A e \in DocumentIds : e # d => f[e] = documents[e]
    BY <1>7, <1>17, <2>1 DEF EInv, Shape
  <2>5. g \in [DocumentIds -> Document \cup {Nil}] /\ g[x] = wx
        /\ \A e \in DocumentIds : e # x => g[e] = f[e]
    BY <1>5, <1>20, <2>2, <2>4
  <2>6. documents' \in [DocumentIds -> Document \cup {Nil}] /\ documents'[n] = wn
        /\ \A e \in DocumentIds : e # n => documents'[e] = g[e]
    BY <1>5, <1>18, <2>3, <2>5
  <2>7. wd # Nil /\ wx # Nil /\ wn # Nil
    BY <1>17, <1>18, <1>20 DEF NilAssumption
  <2>8. d # x /\ d # n /\ documents[d] # Nil
    BY <1>5, <1>6, <1>7
  <2> QED
    BY <1>5, <1>7, <2>4, <2>5, <2>6, <2>7, <2>8
<1>23. WritesOnly({d, x, n})
  BY <1>22 DEF WritesOnly
<1>90. ExchangeWritten(r, d, x, n, w, wd, wx, wn)
  BY <1>1, <1>4, <1>5, <1>6, <1>7, <1>9, <1>17, <1>18, <1>20, <1>22, <1>23 DEF ExchangeWritten
<1> QED
  BY <1>90

\* An exchange links three documents.
LEMMA CommitExchangeKeeps ==
  ASSUME EInv, NEW r \in Requests, Commit(r), task[r].operation = "exchange"
  PROVE  EInv'
<1>2. pc[r] = "commit" /\ End(r, "done")
  BY DEF Commit
<1>3. PICK d, x, n, w, wd, wx, wn : ExchangeWritten(r, d, x, n, w, wd, wx, wn)
  BY ExchangeWrites
<1>5. /\ x \in DocumentIds /\ n \in DocumentIds /\ x # n /\ x[1] = r /\ n[1] = r
      /\ documents[x] = Nil /\ documents[n] = Nil
  BY <1>3 DEF ExchangeWritten
<1>6. d = task[r].sale /\ w = documents[d]
  BY <1>3 DEF ExchangeWritten
<1>7. /\ d \in DocumentIds /\ w \in Document /\ w # Nil /\ w.status = "approved"
      /\ w.original = Nil /\ w.return = Nil /\ w.new = Nil
  BY <1>3 DEF ExchangeWritten
<1>8. \E q \in Requests : w.prices = Prices[q]
  BY <1>6, <1>7 DEF EInv, Shape
<1>17. /\ wd \in Document /\ wd.prices = w.prices /\ wd.status = "approved" /\ wd.original = Nil
       /\ wd.return = x /\ wd.new = n
  BY <1>3 DEF SameGoods, ExchangeWritten
<1>18. /\ wn \in Document /\ wn.prices = Prices[r] /\ wn.status = "approved" /\ wn.original = d
       /\ wn.return = x /\ wn.new = Nil
  BY <1>3 DEF Sold, ExchangeWritten
<1>20. /\ wx \in Document /\ wx.prices = w.prices /\ wx.status = "approved" /\ wx.original = d
       /\ wx.return = Nil /\ wx.new = n
  BY <1>3 DEF ExchangeWritten
<1>22. /\ documents' \in [DocumentIds -> Document \cup {Nil}]
       /\ documents'[d] = wd /\ documents'[x] = wx /\ documents'[n] = wn
       /\ \A e \in DocumentIds \ {d, x, n} : documents'[e] = documents[e]
       /\ wd # Nil /\ wx # Nil /\ wn # Nil /\ d # x /\ d # n /\ documents[d] # Nil
  BY <1>3 DEF WritesOnly, ExchangeWritten
<1>23. \A e \in DocumentIds : documents'[e] # Nil => \E q1 \in Requests : documents'[e].prices = Prices[q1]
  BY <1>8, <1>17, <1>18, <1>20, <1>22 DEF EInv, Shape
<1>24. ASSUME NEW e \in DocumentIds, documents'[e] # Nil
       PROVE  AgreesAbout(e)'
  <2>1. CASE e \in {d, x, n}
    BY <1>5, <1>7, <1>17, <1>18, <1>20, <1>22, <2>1 DEF AgreesAbout, NilAssumption
  <2>2. CASE e \notin {d, x, n}
    <3>1. documents[e] # Nil /\ AgreesAbout(e) /\ documents'[e] = documents[e]
      BY <1>22, <1>24, <2>2, AgreedIsEach
    <3>2. documents[e].new # Nil => documents[e].new \in DocumentIds
      BY <3>1 DEF EInv, Shape, Document, Link
    <3>3. documents[e].new # Nil => documents'[documents[e].new] # Nil
      BY <1>22, <3>1, <3>2 DEF AgreesAbout
    <3>4. CASE documents[e].original = Nil
      <4>1. ASSUME NEW y \in DocumentIds, documents[y] # Nil, documents[y].original = e
            PROVE  documents'[y] = documents[y]
        BY <1>5, <1>6, <1>7, <1>22, <4>1 DEF NilAssumption
      <4> QED
        BY <3>1, <3>3, <3>4, <4>1 DEF AgreesAbout
    <3>5. CASE documents[e].original # Nil
      <4>1. PICK o \in DocumentIds :
              /\ documents[e].original = o /\ documents[o] # Nil /\ documents[o].original = Nil
              /\ documents[e].status = "approved" => e \in {documents[o].return, documents[o].new}
        BY <3>1, <3>5 DEF AgreesAbout
      <4>2. o # x /\ o # n
        BY <1>5, <4>1
      <4>3. CASE o = d
        BY <1>6, <1>7, <1>17, <1>22, <3>1, <3>3, <3>5, <4>1, <4>3 DEF AgreesAbout, NilAssumption
      <4>4. CASE o # d
        BY <1>22, <3>1, <3>3, <3>5, <4>1, <4>2, <4>4 DEF AgreesAbout
      <4> QED
        BY <4>3, <4>4
    <3> QED
      BY <3>4, <3>5
  <2> QED
    BY <2>1, <2>2
<1>25. Agreed'
  BY <1>24, EachIsAgreed
<1>26. \A e \in DocumentIds : (documents[e] = Nil /\ documents'[e] # Nil) => e[1] = r
  BY <1>5, <1>22
<1>27. \A e \in DocumentIds : (documents[e] # Nil /\ documents[e].original = Nil /\ e # task[r].sale) =>
         documents'[e] = documents[e]
  BY <1>5, <1>6, <1>22
<1> QED
  BY <1>2, <1>22, <1>23, <1>25, <1>26, <1>27, CommitKeeps

\* A reversal writes the three documents of an exchange.
ReversalWritten(r, d, x, n, vd, vx, vn, wd, wx, wn) ==
  /\ d \in DocumentIds /\ x \in DocumentIds /\ n \in DocumentIds
  /\ vd \in Document /\ vx \in Document /\ vn \in Document /\ wd \in Document
  /\ wx \in Document /\ wn \in Document
  /\ d = task[r].sale /\ x = task[r].return /\ n = task[r].new
  /\ d # x /\ d # n /\ x # n
  /\ vd = documents[d] /\ vx = documents[x] /\ vn = documents[n]
  /\ vd # Nil /\ vx # Nil /\ vn # Nil
  /\ vd.status = "approved" /\ vx.status = "approved" /\ vn.status = "approved"
  /\ vd.original = Nil /\ vd.return = x /\ vd.new = n
  /\ vx.original = d /\ vx.return = Nil /\ vx.new = n
  /\ vn.original = d /\ vn.return = x
  /\ SameGoods(wd, vd) /\ wd.status = "approved" /\ wd.return = Nil /\ wd.new = Nil
  /\ SameGoods(wx, vx) /\ wx.status = "voided" /\ wx.return = Nil /\ wx.new = n
  /\ SameGoods(wn, vn) /\ wn.status = "voided" /\ wn.return = x /\ wn.new = vn.new
  /\ wd # Nil /\ wx # Nil /\ wn # Nil
  /\ WritesOnly({d, x, n}) /\ documents'[d] = wd /\ documents'[x] = wx /\ documents'[n] = wn

\* The commit of a reversal does that.
LEMMA RevertWrites ==
  ASSUME EInv, NEW r \in Requests, Commit(r), task[r].operation = "revert"
  PROVE  \E d, x, n, vd, vx, vn, wd, wx, wn : ReversalWritten(r, d, x, n, vd, vx, vn, wd, wx, wn)
<1>1. PICK t : t = task[r]
  OBVIOUS
<1>2. pc[r] = "commit" /\ documents' = Reverted(documents, t)
  BY <1>1 DEF Commit
<1>3. t \in Task /\ Fit(r, t) /\ t.sale \in DocumentIds
  BY <1>1, <1>2, Committing
<1>4. PICK d, x, n : d = t.sale /\ x = t.return /\ n = t.new
  OBVIOUS
<1>5. /\ d \in DocumentIds /\ documents[d] # Nil /\ documents[d].original = Nil
      /\ n # Nil /\ documents[d].new = n /\ x # Nil /\ documents[d].return = x
  BY <1>1, <1>3, <1>4 DEF Fit
<1>6. /\ x \in DocumentIds /\ n \in DocumentIds /\ documents[x] # Nil /\ documents[n] # Nil
      /\ documents[x].original = d /\ documents[n].original = d
      /\ documents[x].new = n /\ documents[x].return = Nil /\ documents[n].return = x
      /\ documents[d].status = "approved" /\ documents[x].status = "approved"
      /\ documents[n].status = "approved"
  BY <1>5, ThreeAgree
<1>7. d # x /\ d # n /\ x # n
  BY <1>5, <1>6 DEF NilAssumption
<1>8. PICK vd, vx, vn : vd = documents[d] /\ vx = documents[x] /\ vn = documents[n]
  OBVIOUS
<1>9. vd \in Document /\ vx \in Document /\ vn \in Document
  BY <1>5, <1>6, <1>8 DEF EInv, Shape
<1>10. PICK wd, wx, wn : /\ wd = [vd EXCEPT !.return = Nil, !.new = Nil]
                         /\ wx = [vx EXCEPT !.status = "voided"]
                         /\ wn = [vn EXCEPT !.status = "voided"]
  OBVIOUS
<1>11. /\ wd \in Document /\ SameGoods(wd, vd) /\ wd.status = vd.status
       /\ wd.return = Nil /\ wd.new = Nil
  <2>1. PICK f : f = [vd EXCEPT !.return = Nil]
    OBVIOUS
  <2>2. wd = [f EXCEPT !.new = Nil]
    BY <1>10, <2>1
  <2>3. f \in Document /\ SameGoods(f, vd) /\ f.status = vd.status /\ f.return = Nil
    BY ONLY <1>9, <2>1 DEF Document, Link, SameGoods
  <2> QED
    BY ONLY <2>2, <2>3 DEF Document, Link, SameGoods
<1>12. /\ wx \in Document /\ SameGoods(wx, vx) /\ wx.status = "voided"
       /\ wx.return = vx.return /\ wx.new = vx.new
  BY ONLY <1>9, <1>10 DEF Document, SameGoods
<1>13. /\ wn \in Document /\ SameGoods(wn, vn) /\ wn.status = "voided"
       /\ wn.return = vn.return /\ wn.new = vn.new
  BY ONLY <1>9, <1>10 DEF Document, SameGoods
<1>14. PICK f : f = [documents EXCEPT ![n].status = "voided"]
  OBVIOUS
<1>15. PICK g : g = [f EXCEPT ![x].status = "voided"]
  OBVIOUS
<1>16. documents' = [g EXCEPT ![d] = wd]
  <2>1. documents' = [documents EXCEPT ![n].status = "voided", ![x].status = "voided",
                                       ![d] = [@ EXCEPT !.return = Nil, !.new = Nil]]
    BY <1>2, <1>4, Zenon DEF Reverted
  <2>2. documents' = [documents EXCEPT ![n].status = "voided", ![x].status = "voided", ![d] = wd]
    BY <1>8, <1>10, <2>1
  <2> QED
    BY <1>14, <1>15, <2>2, Zenon
<1>17. /\ f \in [DocumentIds -> Document \cup {Nil}] /\ f[n] = wn
       /\ \A e \in DocumentIds : e # n => f[e] = documents[e]
  <2>1. f = [documents EXCEPT ![n] = wn]
    BY <1>8, <1>10, <1>14
  <2> QED
    BY <1>6, <1>13, <2>1 DEF EInv, Shape
<1>18. /\ g \in [DocumentIds -> Document \cup {Nil}] /\ g[x] = wx
       /\ \A e \in DocumentIds : e # x => g[e] = f[e]
  <2>1. f[x] = vx
    BY <1>6, <1>7, <1>8, <1>17
  <2>2. g = [f EXCEPT ![x] = wx]
    BY <1>10, <1>15, <2>1
  <2> QED
    BY <1>6, <1>12, <1>17, <2>2
<1>19. /\ documents' \in [DocumentIds -> Document \cup {Nil}] /\ documents'[d] = wd
       /\ \A e \in DocumentIds : e # d => documents'[e] = g[e]
  BY <1>5, <1>11, <1>16, <1>18
<1>20. /\ documents'[d] = wd /\ documents'[x] = wx /\ documents'[n] = wn
       /\ \A e \in DocumentIds \ {d, x, n} : documents'[e] = documents[e]
       /\ wd # Nil /\ wx # Nil /\ wn # Nil
  <2>1. wd # Nil /\ wx # Nil /\ wn # Nil
    BY <1>11, <1>12, <1>13 DEF NilAssumption
  <2> QED
    BY <1>5, <1>6, <1>7, <1>17, <1>18, <1>19, <2>1
<1>21. WritesOnly({d, x, n})
  BY <1>19, <1>20 DEF WritesOnly
<1>22. vd # Nil /\ vx # Nil /\ vn # Nil
  BY <1>9 DEF NilAssumption
<1>90. ReversalWritten(r, d, x, n, vd, vx, vn, wd, wx, wn)
  BY <1>1, <1>4, <1>5, <1>6, <1>7, <1>8, <1>9, <1>11, <1>12, <1>13, <1>20, <1>21, <1>22 DEF ReversalWritten
<1> QED
  BY <1>90

\* A reversal voids the exchange its sale names, and the sale forgets it.
LEMMA CommitRevertKeeps ==
  ASSUME EInv, NEW r \in Requests, Commit(r), task[r].operation = "revert"
  PROVE  EInv'
<1>2. pc[r] = "commit" /\ End(r, "done")
  BY DEF Commit
<1>4. PICK d, x, n, vd, vx, vn, wd, wx, wn : ReversalWritten(r, d, x, n, vd, vx, vn, wd, wx, wn)
  BY RevertWrites
<1>5. /\ d = task[r].sale /\ d \in DocumentIds /\ documents[d] # Nil /\ documents[d].original = Nil
      /\ documents[d].new = n /\ documents[d].return = x
  BY <1>4 DEF ReversalWritten
<1>6. /\ x \in DocumentIds /\ n \in DocumentIds /\ documents[x] # Nil /\ documents[n] # Nil
      /\ documents[x].original = d /\ documents[n].original = d
      /\ documents[x].new = n /\ documents[x].return = Nil /\ documents[n].return = x
  BY <1>4 DEF ReversalWritten
<1>8. vd = documents[d] /\ vx = documents[x] /\ vn = documents[n]
  BY <1>4 DEF ReversalWritten
<1>9. vd \in Document /\ vx \in Document /\ vn \in Document
  BY <1>4 DEF ReversalWritten
<1>11. /\ wd \in Document /\ wd.prices = vd.prices /\ wd.original = Nil
       /\ wd.return = Nil /\ wd.new = Nil
  BY <1>4 DEF SameGoods, ReversalWritten
<1>12. /\ wx \in Document /\ wx.prices = vx.prices /\ wx.status = "voided" /\ wx.original = d
       /\ wx.new = n
  BY <1>4 DEF SameGoods, ReversalWritten
<1>13. /\ wn \in Document /\ wn.prices = vn.prices /\ wn.status = "voided" /\ wn.original = d
       /\ wn.new = vn.new
  BY <1>4 DEF SameGoods, ReversalWritten
<1>19. documents' \in [DocumentIds -> Document \cup {Nil}]
  BY <1>4 DEF WritesOnly, ReversalWritten
<1>20. /\ documents'[d] = wd /\ documents'[x] = wx /\ documents'[n] = wn
       /\ \A e \in DocumentIds \ {d, x, n} : documents'[e] = documents[e]
       /\ wd # Nil /\ wx # Nil /\ wn # Nil
  BY <1>4 DEF WritesOnly, ReversalWritten
<1>21. \A e \in DocumentIds : documents'[e] # Nil => \E q \in Requests : documents'[e].prices = Prices[q]
  BY <1>5, <1>6, <1>8, <1>11, <1>12, <1>13, <1>20 DEF EInv, Shape
<1>22. \A e \in DocumentIds : documents[e] # Nil => documents'[e] # Nil
  BY <1>20
<1>23. ASSUME NEW e \in DocumentIds, documents'[e] # Nil
       PROVE  AgreesAbout(e)'
  <2>1. CASE e = d
    BY <1>11, <1>20, <2>1 DEF AgreesAbout
  <2>2. CASE e = x \/ e = n
    <3>1. documents'[e].original = d /\ documents'[e].status = "voided"
      BY <1>12, <1>13, <1>20, <2>2
    <3>2. documents'[e].new # Nil => documents'[documents'[e].new] # Nil
      <4>1. CASE e = x
        BY <1>12, <1>20, <4>1
      <4>2. CASE e = n
        <5>1. AgreesAbout(n)
          BY <1>6, AgreedIsEach
        <5>2. vn.new # Nil => vn.new \in DocumentIds /\ documents[vn.new] # Nil
          BY <1>8, <1>9, <5>1 DEF AgreesAbout, Document, Link
        <5> QED
          BY <1>13, <1>20, <1>22, <4>2, <5>2
      <4> QED
        BY <2>2, <4>1, <4>2
    <3>3. d # Nil
      BY <1>5 DEF NilAssumption
    <3> QED
      BY <1>5, <1>11, <1>20, <3>1, <3>2, <3>3 DEF AgreesAbout
  <2>3. CASE e \notin {d, x, n}
    <3>1. documents[e] # Nil /\ AgreesAbout(e) /\ documents'[e] = documents[e]
      BY <1>20, <1>23, <2>3, AgreedIsEach
    <3>2. documents[e].new # Nil => documents[e].new \in DocumentIds
      BY <3>1 DEF EInv, Shape, Document, Link
    <3>3. documents[e].new # Nil => documents'[documents[e].new] # Nil
      BY <1>22, <3>1, <3>2 DEF AgreesAbout
    <3>4. CASE documents[e].original = Nil
      <4>1. ASSUME NEW y \in DocumentIds, documents[y] # Nil, documents[y].original = e
            PROVE  documents'[y] = documents[y]
        BY <1>5, <1>6, <1>20, <2>3, <4>1 DEF NilAssumption
      <4> QED
        BY <3>1, <3>3, <3>4, <4>1 DEF AgreesAbout
    <3>5. CASE documents[e].original # Nil
      <4>1. PICK o \in DocumentIds :
              /\ documents[e].original = o /\ documents[o] # Nil /\ documents[o].original = Nil
              /\ documents[e].status = "approved" => e \in {documents[o].return, documents[o].new}
        BY <3>1, <3>5 DEF AgreesAbout
      <4>2. o # x /\ o # n
        BY <1>5, <1>6, <4>1 DEF NilAssumption
      <4>3. CASE o = d
        BY <1>5, <1>11, <1>20, <2>3, <3>1, <3>3, <3>5, <4>1, <4>3 DEF AgreesAbout
      <4>4. CASE o # d
        BY <1>20, <3>1, <3>3, <3>5, <4>1, <4>2, <4>4 DEF AgreesAbout
      <4> QED
        BY <4>3, <4>4
    <3> QED
      BY <3>4, <3>5
  <2> QED
    BY <2>1, <2>2, <2>3
<1>24. Agreed'
  BY <1>23, EachIsAgreed
<1>25. \A e \in DocumentIds : documents[e] = Nil => documents'[e] = Nil
  BY <1>5, <1>6, <1>20
<1>26. \A e \in DocumentIds : (documents[e] # Nil /\ documents[e].original = Nil /\ e # task[r].sale) =>
         documents'[e] = documents[e]
  BY <1>5, <1>6, <1>20 DEF NilAssumption
<1> QED
  BY <1>2, <1>19, <1>21, <1>24, <1>25, <1>26, CommitKeeps

-----------------------------------------------------------------------------

\* No step of the specification breaks the invariant.
LEMMA StepEInv == ASSUME ~SameSale PROVE EInv /\ [Next]_vars => EInv'
<1> SUFFICES ASSUME EInv, [Next]_vars PROVE EInv'
  OBVIOUS
<1>1. CASE UNCHANGED vars
  BY <1>1 DEF vars, committed, private, EInv, Shape, Agreed, Linked, ReturnsReturnNothing,
              SaleNamesItsExchange, ExchangeIsNamed, Approved, Exists, NotYetCreated, Tasks, Apart,
              Active, Fit
<1>2. ASSUME NEW r \in Requests, SaleRequests(r)
      PROVE  EInv'
  BY <1>2, SellKeeps, ExchangeKeeps, RevertKeeps, VoidKeeps DEF SaleRequests
<1>3. ASSUME NEW r \in Requests, Commit(r)
      PROVE  EInv'
  <2>1. task[r].operation \in {"sell", "exchange", "revert", "void"}
    BY <1>3, Committing DEF Commit, Task
  <2> QED
    BY <1>3, <2>1, CommitSellKeeps, CommitExchangeKeeps, CommitRevertKeeps, CommitVoidKeeps
<1>4. ASSUME NEW r \in Requests, Refuse(r) \/ Abort(r) \/ DeadlockVictim(r)
      PROVE  EInv'
  <2>1. Refuse(r) => Active(r) /\ Rollback(r)
    BY DEF Refuse, Available, Active
  <2>2. DeadlockVictim(r) => Active(r) /\ Rollback(r)
    BY DEF DeadlockVictim, InDeadlock, WaitsFor, Active
  <2> QED
    BY <1>4, <2>1, <2>2, RollbackKeeps DEF Abort
<1> QED
  BY <1>1, <1>2, <1>3, <1>4, LockKeeps DEF Next, Step

\* A sale names at most one exchange in force, and the three documents name each
\* other, however exchanges, reversals, voids, refusals and deadlocks interleave.
THEOREM LinksAlwaysAgree == ASSUME ~SameSale PROVE Spec => []LinksAgree
<1>1. Init => EInv
  BY InitEInv
<1>2. EInv /\ [Next]_vars => EInv'
  BY StepEInv
<1>3. EInv => LinksAgree
  BY DEF EInv, Agreed, LinksAgree
<1> QED
  BY <1>1, <1>2, <1>3, PTL DEF Spec

-----------------------------------------------------------------------------
(* Stock and money.                                                        *)

\* Goods, prices and payments of a document never change.
GoodsStay ==
  \A e \in DocumentIds : documents[e] # Nil =>
    documents'[e] # Nil /\ SameGoods(documents'[e], documents[e])

\* The goods and the payment of a document.
LEMMA DocumentIs ==
  \A v \in Document : /\ v.received \in Nat /\ v.credit \in Nat /\ v.lines \in LineChoices
                      /\ v.kind \in {"ingreso", "egreso"} /\ v.prices \in [Products -> Nat]
BY DEF Document

\* Whatever a request commits.
LEMMA CommitGoods ==
  ASSUME EInv, NEW r \in Requests, Commit(r)
  PROVE  GoodsStay
<1>1. \A e \in DocumentIds : SameGoods(documents[e], documents[e])
  BY DEF SameGoods
<1>2. CASE task[r].operation = "sell"
  <2>1. PICK d, s : SaleWritten(r, d, s)
    BY <1>2, SellWrites
  <2> QED
    BY <1>1, <2>1 DEF SaleWritten, WritesOnly, GoodsStay
<1>3. CASE task[r].operation = "void"
  <2>1. PICK d, w, v : VoidWritten(r, d, w, v)
    BY <1>3, VoidWrites
  <2> QED
    BY <1>1, <2>1 DEF VoidWritten, WritesOnly, GoodsStay
<1>4. CASE task[r].operation = "exchange"
  <2>1. PICK d, x, n, w, wd, wx, wn : ExchangeWritten(r, d, x, n, w, wd, wx, wn)
    BY <1>4, ExchangeWrites
  <2> QED
    BY <1>1, <2>1 DEF ExchangeWritten, WritesOnly, GoodsStay
<1>5. CASE task[r].operation = "revert"
  <2>1. PICK d, x, n, vd, vx, vn, wd, wx, wn : ReversalWritten(r, d, x, n, vd, vx, vn, wd, wx, wn)
    BY <1>5, RevertWrites
  <2> QED
    BY <1>1, <2>1 DEF ReversalWritten, WritesOnly, GoodsStay
<1>6. task[r].operation \in {"sell", "exchange", "revert", "void"}
  BY Committing DEF Commit, Task
<1> QED
  BY <1>2, <1>3, <1>4, <1>5, <1>6

\* The sides of what a commit writes.
LEMMA CommitSides ==
  ASSUME EInv, EInv', Sides, NEW r \in Requests, Commit(r)
  PROVE  Sides'
<1> DEFINE Right(e, v) ==
      /\ v.kind = IF e[2] = "return" THEN "ingreso" ELSE "egreso"
      /\ e[2] = "return" => v.original # Nil /\ v.received = 0
      /\ v.return # Nil => v.return[2] = "return"
      /\ v.new # Nil => v.new[2] = "sale"
<1>1. \A e \in DocumentIds : documents[e] # Nil => Right(e, documents[e])
  BY DEF Sides
<1>2. SUFFICES ASSUME NEW e \in DocumentIds, documents'[e] # Nil PROVE Right(e, documents'[e])
  BY DEF Sides
<1>3. CASE task[r].operation = "sell"
  <2>1. PICK d, s : SaleWritten(r, d, s)
    BY <1>3, SellWrites
  <2>2. CASE e = d
    BY <2>1, <2>2 DEF SaleWritten, Sold
  <2>3. CASE e # d
    BY <1>1, <1>2, <2>1, <2>3 DEF SaleWritten, WritesOnly
  <2> QED
    BY <2>2, <2>3
<1>4. CASE task[r].operation = "void"
  <2>1. PICK d, w, v : VoidWritten(r, d, w, v)
    BY <1>4, VoidWrites
  <2>2. CASE e = d
    BY <1>1, <2>1, <2>2 DEF VoidWritten, SameGoods
  <2>3. CASE e # d
    BY <1>1, <1>2, <2>1, <2>3 DEF VoidWritten, WritesOnly
  <2> QED
    BY <2>2, <2>3
<1>5. CASE task[r].operation = "exchange"
  <2>1. PICK d, x, n, w, wd, wx, wn : ExchangeWritten(r, d, x, n, w, wd, wx, wn)
    BY <1>5, ExchangeWrites
  <2>2. CASE e = d
    BY <1>1, <2>1, <2>2 DEF ExchangeWritten, SameGoods
  <2>3. CASE e = x
    <3>1. /\ documents'[x] = wx /\ x = <<r, "return">> /\ n = <<r, "sale">> /\ d \in DocumentIds
          /\ wx.kind = "ingreso" /\ wx.original = d /\ wx.received = 0
          /\ wx.return = Nil /\ wx.new = n
      BY <2>1 DEF ExchangeWritten
    <3>2. x[2] = "return" /\ n[2] = "sale" /\ d # Nil
      BY <3>1 DEF NilAssumption
    <3> QED
      BY <2>3, <3>1, <3>2
  <2>4. CASE e = n
    BY <2>1, <2>4 DEF ExchangeWritten, Sold
  <2>5. CASE e \notin {d, x, n}
    BY <1>1, <1>2, <2>1, <2>5 DEF ExchangeWritten, WritesOnly
  <2> QED
    BY <2>2, <2>3, <2>4, <2>5
<1>6. CASE task[r].operation = "revert"
  <2>1. PICK d, x, n, vd, vx, vn, wd, wx, wn : ReversalWritten(r, d, x, n, vd, vx, vn, wd, wx, wn)
    BY <1>6, RevertWrites
  <2>2. CASE e = d
    BY <1>1, <2>1, <2>2 DEF ReversalWritten, SameGoods
  <2>3. CASE e = x
    BY <1>1, <2>1, <2>3 DEF ReversalWritten, SameGoods
  <2>4. CASE e = n
    BY <1>1, <2>1, <2>4 DEF ReversalWritten, SameGoods
  <2>5. CASE e \notin {d, x, n}
    BY <1>1, <1>2, <2>1, <2>5 DEF ReversalWritten, WritesOnly
  <2> QED
    BY <2>2, <2>3, <2>4, <2>5
<1>7. task[r].operation \in {"sell", "exchange", "revert", "void"}
  BY Committing DEF Commit, Task
<1> QED
  BY <1>3, <1>4, <1>5, <1>6, <1>7

\* What comes back still fits its sale after a commit.
LEMMA CommitReturnsFit ==
  ASSUME EInv, EInv', ReturnsFit, NEW r \in Requests, Commit(r)
  PROVE  ReturnsFit'
<1>1. GoodsStay
  BY CommitGoods
<1>2. ASSUME NEW e \in DocumentIds, documents[e] # Nil, documents[e].original = Nil,
             documents[e].return # Nil, documents'[e].return = documents[e].return
      PROVE  Returnable(documents'[documents'[e].return].lines, documents'[e].lines)
  <2>1. documents[e].new # Nil
    BY <1>2 DEF EInv, Agreed, Linked
  <2>2. PICK x \in DocumentIds : documents[e].return = x /\ documents[x] # Nil
    BY <1>2, <2>1, ThreeAgree
  <2>3. documents'[x].lines = documents[x].lines /\ documents'[e].lines = documents[e].lines
    BY <1>1, <1>2, <2>2 DEF GoodsStay, SameGoods
  <2>4. Returnable(documents[x].lines, documents[e].lines)
    BY <1>2, <2>2 DEF ReturnsFit
  <2> QED
    BY <1>2, <2>2, <2>3, <2>4
<1>3. SUFFICES ASSUME NEW e \in DocumentIds, documents'[e] # Nil, documents'[e].original = Nil,
                      documents'[e].return # Nil
               PROVE  Returnable(documents'[documents'[e].return].lines, documents'[e].lines)
  BY DEF ReturnsFit, Returnable
<1>4. CASE task[r].operation = "sell"
  <2>1. PICK d, s : SaleWritten(r, d, s)
    BY <1>4, SellWrites
  <2>2. e # d /\ documents'[e] = documents[e]
    BY <1>3, <2>1 DEF SaleWritten, WritesOnly
  <2> QED
    BY <1>2, <1>3, <2>2
<1>5. CASE task[r].operation = "void"
  <2>1. PICK d, w, v : VoidWritten(r, d, w, v)
    BY <1>5, VoidWrites
  <2>2. e # d /\ documents'[e] = documents[e]
    BY <1>3, <2>1 DEF VoidWritten, WritesOnly
  <2> QED
    BY <1>2, <1>3, <2>2
<1>6. CASE task[r].operation = "exchange"
  <2>1. PICK d, x, n, w, wd, wx, wn : ExchangeWritten(r, d, x, n, w, wd, wx, wn)
    BY <1>6, ExchangeWrites
  <2>2. CASE e = d
    BY <2>1, <2>2 DEF ExchangeWritten, SameGoods
  <2>3. CASE e # d
    <3>1. e # x /\ e # n
      <4>1. /\ documents'[x] = wx /\ documents'[n] = wn /\ d \in DocumentIds
            /\ wx.return = Nil /\ wn.original = d
        BY <2>1 DEF ExchangeWritten
      <4>2. d # Nil
        BY <4>1 DEF NilAssumption
      <4> QED
        BY <1>3, <4>1, <4>2
    <3>2. documents'[e] = documents[e]
      BY <2>1, <2>3, <3>1 DEF ExchangeWritten, WritesOnly
    <3> QED
      BY <1>2, <1>3, <3>2
  <2> QED
    BY <2>2, <2>3
<1>7. CASE task[r].operation = "revert"
  <2>1. PICK d, x, n, vd, vx, vn, wd, wx, wn : ReversalWritten(r, d, x, n, vd, vx, vn, wd, wx, wn)
    BY <1>7, RevertWrites
  <2>2. e # d /\ e # x /\ e # n
    BY <1>3, <2>1 DEF ReversalWritten, SameGoods, NilAssumption
  <2>3. documents'[e] = documents[e]
    BY <2>1, <2>2 DEF ReversalWritten, WritesOnly
  <2> QED
    BY <1>2, <1>3, <2>3
<1>8. task[r].operation \in {"sell", "exchange", "revert", "void"}
  BY Committing DEF Commit, Task
<1> QED
  BY <1>4, <1>5, <1>6, <1>7, <1>8

\* What one document in force has added to a product and to the drawer.
ShareOf(e, p) ==
  IF Approved(e) THEN IF documents[e].kind = "ingreso" THEN QuantityOf(documents[e].lines, p)
                                                       ELSE -QuantityOf(documents[e].lines, p)
                 ELSE 0

TakenBy(e) == IF Approved(e) THEN documents[e].received ELSE 0

\* They are numbers, and what Books adds up.
LEMMA SharesAre ==
  ASSUME EInv
  PROVE  /\ \A e \in DocumentIds : TakenBy(e) \in Nat /\ Takings[e] = TakenBy(e)
         /\ \A e \in DocumentIds, p \in Products : ShareOf(e, p) \in Int /\ Share(p)[e] = ShareOf(e, p)
<1> SUFFICES ASSUME NEW e \in DocumentIds
             PROVE  /\ TakenBy(e) \in Nat /\ Takings[e] = TakenBy(e)
                    /\ \A p \in Products : ShareOf(e, p) \in Int /\ Share(p)[e] = ShareOf(e, p)
  OBVIOUS
<1>1. CASE ~Approved(e)
  BY <1>1 DEF TakenBy, Takings, ShareOf, Share
<1>2. CASE Approved(e)
  <2>1. documents[e] \in Document
    BY <1>2 DEF EInv, Shape, Approved, Exists
  <2>2. documents[e].received \in Nat /\ documents[e].lines \in LineChoices
        /\ documents[e].kind \in {"ingreso", "egreso"}
    BY <2>1 DEF Document
  <2>3. \A p : QuantityOf(documents[e].lines, p) \in Nat
    BY <2>2, QuantityIs
  <2> QED
    BY <1>2, <2>2, <2>3 DEF TakenBy, Takings, ShareOf, Share, Effect
<1> QED
  BY <1>1, <1>2

\* The same after a step.
SharesNumbers ==
  /\ \A e \in DocumentIds : TakenBy(e) \in Nat /\ Takings[e] = TakenBy(e)
  /\ \A e \in DocumentIds, p \in Products : ShareOf(e, p) \in Int /\ Share(p)[e] = ShareOf(e, p)

LEMMA SharesAreNext == EInv' => SharesNumbers'
<1>1. EInv => SharesNumbers
  BY SharesAre DEF SharesNumbers
<1> QED
  BY <1>1, PTL

\* A commit changes the shares of at most two documents, and by what its task
\* adds to stock and its payment to the drawer.
Settles(r, x, n) ==
  /\ x \in DocumentIds /\ n \in DocumentIds /\ x # n
  /\ \A e \in DocumentIds \ {x, n} :
       TakenBy(e)' = TakenBy(e) /\ \A p \in Products : ShareOf(e, p)' = ShareOf(e, p)
  /\ Payment(r) = (TakenBy(x)' - TakenBy(x)) + (TakenBy(n)' - TakenBy(n))
  /\ \A p \in Products :
       TaskEffect(task[r], p) = (ShareOf(x, p)' - ShareOf(x, p)) + (ShareOf(n, p)' - ShareOf(n, p))

\* A document that a commit leaves alone, or whose links alone it writes.
LEMMA SameShare ==
  ASSUME NEW e \in DocumentIds, GoodsStay,
         documents'[e] = documents[e] \/ (Approved(e) /\ Approved(e)')
  PROVE  TakenBy(e)' = TakenBy(e) /\ \A p \in Products : ShareOf(e, p)' = ShareOf(e, p)
<1>1. CASE documents'[e] = documents[e]
  BY <1>1 DEF TakenBy, ShareOf, Approved, Exists
<1>2. CASE Approved(e) /\ Approved(e)'
  <2>1. SameGoods(documents'[e], documents[e])
    BY <1>2 DEF GoodsStay, Approved, Exists
  <2> QED
    BY <1>2, <2>1 DEF TakenBy, ShareOf, SameGoods
<1> QED
  BY <1>1, <1>2

\* A plain sale.
LEMMA SellSettles ==
  ASSUME EInv, NEW r \in Requests, Commit(r), task[r].operation = "sell"
  PROVE  \E x, n : Settles(r, x, n)
<1>1. GoodsStay
  BY CommitGoods
<1>2. PICK n, s : SaleWritten(r, n, s)
  BY SellWrites
<1>3. PICK x : x = <<r, "return">>
  OBVIOUS
<1>4. /\ n \in DocumentIds /\ n = <<r, "sale">> /\ documents[n] = Nil
      /\ documents'[n] = s /\ s # Nil /\ Sold(s, r, task[r].lines, 0)
      /\ task[r].lines \in LineChoices /\ WritesOnly({n})
  BY <1>2 DEF SaleWritten
<1>5. x \in DocumentIds /\ x # n
  BY <1>3, <1>4 DEF DocumentIds
<1>6. \A e \in DocumentIds \ {n} :
        TakenBy(e)' = TakenBy(e) /\ \A p \in Products : ShareOf(e, p)' = ShareOf(e, p)
  BY <1>1, <1>4, SameShare DEF WritesOnly
<1>7. /\ TakenBy(n) = 0 /\ \A p \in Products : ShareOf(n, p) = 0
      /\ TakenBy(n)' = s.received
      /\ \A p \in Products : ShareOf(n, p)' = -QuantityOf(task[r].lines, p)
  BY <1>4 DEF TakenBy, ShareOf, Approved, Exists, Sold
<1>8. Payment(r) = s.received
  BY <1>4 DEF Payment
<1>9. \A p \in Products : TaskEffect(task[r], p) = -QuantityOf(task[r].lines, p)
  BY DEF TaskEffect
<1>10. \A p \in Products : QuantityOf(task[r].lines, p) \in Nat
  BY <1>4, QuantityIs
<1>11. s.received \in Int
  BY <1>2 DEF SaleWritten, Document
<1>12. TakenBy(x) \in Int /\ \A p \in Products : ShareOf(x, p) \in Int
  BY <1>5, SharesAre
<1>13. Settles(r, x, n)
  BY <1>4, <1>5, <1>6, <1>7, <1>8, <1>9, <1>10, <1>11, <1>12 DEF Settles
<1> QED
  BY <1>13

\* A void.
LEMMA VoidSettles ==
  ASSUME EInv, Sides, NEW r \in Requests, Commit(r), task[r].operation = "void"
  PROVE  \E x, n : Settles(r, x, n)
<1>1. GoodsStay
  BY CommitGoods
<1>2. PICK n, w, v : VoidWritten(r, n, w, v)
  BY VoidWrites
<1>3. PICK x : x = <<n[1], "return">>
  OBVIOUS
<1>4. /\ n \in DocumentIds /\ n = task[r].sale /\ w = documents[n] /\ w \in Document /\ w # Nil
      /\ w.status = "approved" /\ w.original = Nil /\ documents'[n] = v
      /\ v.status = "voided" /\ WritesOnly({n})
  BY <1>2 DEF VoidWritten
<1>5. n[2] # "return" /\ w.kind = "egreso"
  BY <1>4 DEF Sides
<1>6. x \in DocumentIds /\ x # n
  BY <1>3, <1>4, <1>5 DEF DocumentIds
<1>7. \A e \in DocumentIds \ {n} :
        TakenBy(e)' = TakenBy(e) /\ \A p \in Products : ShareOf(e, p)' = ShareOf(e, p)
  BY <1>1, <1>4, SameShare DEF WritesOnly
<1>8. /\ TakenBy(n) = w.received /\ \A p \in Products : ShareOf(n, p) = -QuantityOf(w.lines, p)
      /\ TakenBy(n)' = 0 /\ \A p \in Products : ShareOf(n, p)' = 0
  BY <1>4, <1>5 DEF TakenBy, ShareOf, Approved, Exists
<1>9. Payment(r) = -w.received
  BY <1>4 DEF Payment
<1>10. \A p \in Products : TaskEffect(task[r], p) = QuantityOf(w.lines, p)
  BY <1>4 DEF TaskEffect
<1>11. w.received \in Int /\ \A p \in Products : QuantityOf(w.lines, p) \in Nat
  BY <1>4, QuantityIs DEF Document
<1>12. TakenBy(x) \in Int /\ \A p \in Products : ShareOf(x, p) \in Int
  BY <1>6, SharesAre
<1>13. Settles(r, x, n)
  BY <1>4, <1>6, <1>7, <1>8, <1>9, <1>10, <1>11, <1>12 DEF Settles
<1> QED
  BY <1>13

\* An exchange.
LEMMA ExchangeSettles ==
  ASSUME EInv, NEW r \in Requests, Commit(r), task[r].operation = "exchange"
  PROVE  \E x, n : Settles(r, x, n)
<1>1. GoodsStay
  BY CommitGoods
<1>2. PICK d, x, n, w, wd, wx, wn : ExchangeWritten(r, d, x, n, w, wd, wx, wn)
  BY ExchangeWrites
<1>3. /\ d \in DocumentIds /\ x \in DocumentIds /\ n \in DocumentIds
      /\ x = <<r, "return">> /\ n = <<r, "sale">>
      /\ documents[x] = Nil /\ documents[n] = Nil /\ documents'[x] = wx /\ documents'[n] = wn
      /\ wx # Nil /\ wx.status = "approved" /\ wx.kind = "ingreso" /\ wx.lines = task[r].returned
      /\ wx.received = 0 /\ wn # Nil /\ Sold(wn, r, task[r].lines, Total(task[r].returned, w.prices))
      /\ task[r].lines \in LineChoices /\ task[r].returned \in LineChoices
      /\ WritesOnly({d, x, n})
  BY <1>2 DEF ExchangeWritten
<1>4. Approved(d) /\ Approved(d)'
  BY <1>2 DEF ExchangeWritten, Approved, Exists
<1>5. \A e \in DocumentIds \ {x, n} :
        TakenBy(e)' = TakenBy(e) /\ \A p \in Products : ShareOf(e, p)' = ShareOf(e, p)
  <2>1. ASSUME NEW e \in DocumentIds \ {x, n}
        PROVE  documents'[e] = documents[e] \/ (Approved(e) /\ Approved(e)')
    BY <1>3, <1>4 DEF WritesOnly
  <2> QED
    BY <1>1, <2>1, SameShare
<1>6. /\ TakenBy(x) = 0 /\ TakenBy(n) = 0
      /\ \A p \in Products : ShareOf(x, p) = 0 /\ ShareOf(n, p) = 0
  BY <1>3 DEF TakenBy, ShareOf, Approved, Exists
<1>7. /\ TakenBy(x)' = 0
      /\ \A p \in Products : ShareOf(x, p)' = QuantityOf(task[r].returned, p)
  BY <1>3 DEF TakenBy, ShareOf, Approved, Exists
<1>8. /\ TakenBy(n)' = wn.received
      /\ \A p \in Products : ShareOf(n, p)' = -QuantityOf(task[r].lines, p)
  BY <1>3 DEF TakenBy, ShareOf, Approved, Exists, Sold
<1>9. Payment(r) = wn.received
  BY <1>3 DEF Payment
<1>10. \A p \in Products :
         TaskEffect(task[r], p) = QuantityOf(task[r].returned, p) - QuantityOf(task[r].lines, p)
  BY DEF TaskEffect
<1>11. /\ wn.received \in Int
       /\ \A p \in Products : QuantityOf(task[r].lines, p) \in Nat /\ QuantityOf(task[r].returned, p) \in Nat
  <2>1. wn \in Document
    BY <1>2 DEF ExchangeWritten
  <2> QED
    BY <1>3, <2>1, DocumentIs, QuantityIs
<1>12. x # n
  BY <1>3
<1>13. Settles(r, x, n)
  BY <1>3, <1>5, <1>6, <1>7, <1>8, <1>9, <1>10, <1>11, <1>12 DEF Settles
<1> QED
  BY <1>13

\* A reversal.
LEMMA RevertSettles ==
  ASSUME EInv, Sides, NEW r \in Requests, Commit(r), task[r].operation = "revert"
  PROVE  \E x, n : Settles(r, x, n)
<1>1. GoodsStay
  BY CommitGoods
<1>2. PICK d, x, n, vd, vx, vn, wd, wx, wn : ReversalWritten(r, d, x, n, vd, vx, vn, wd, wx, wn)
  BY RevertWrites
<1>3. /\ d \in DocumentIds /\ x \in DocumentIds /\ n \in DocumentIds
      /\ x = task[r].return /\ n = task[r].new /\ x # n
      /\ vx = documents[x] /\ vn = documents[n] /\ vx \in Document /\ vn \in Document
      /\ vx # Nil /\ vn # Nil /\ vx.status = "approved" /\ vn.status = "approved"
      /\ documents'[x] = wx /\ documents'[n] = wn /\ wx.status = "voided" /\ wn.status = "voided"
      /\ WritesOnly({d, x, n})
  BY <1>2 DEF ReversalWritten
<1>4. Approved(d) /\ Approved(d)'
  BY <1>2 DEF ReversalWritten, Approved, Exists
<1>5. vx.kind = "ingreso" /\ vx.received = 0 /\ vn.kind = "egreso"
  <2>1. documents[d] # Nil /\ documents[d].return = x /\ documents[d].new = n
        /\ x # Nil /\ n # Nil
    BY <1>2 DEF ReversalWritten, NilAssumption
  <2>2. x[2] = "return" /\ n[2] = "sale"
    BY <1>3, <2>1 DEF Sides
  <2> QED
    BY <1>3, <2>2 DEF Sides
<1>6. \A e \in DocumentIds \ {x, n} :
        TakenBy(e)' = TakenBy(e) /\ \A p \in Products : ShareOf(e, p)' = ShareOf(e, p)
  <2>1. ASSUME NEW e \in DocumentIds \ {x, n}
        PROVE  documents'[e] = documents[e] \/ (Approved(e) /\ Approved(e)')
    BY <1>3, <1>4 DEF WritesOnly
  <2> QED
    BY <1>1, <2>1, SameShare
<1>7. /\ TakenBy(x) = 0 /\ TakenBy(n) = vn.received
      /\ \A p \in Products : /\ ShareOf(x, p) = QuantityOf(vx.lines, p)
                             /\ ShareOf(n, p) = -QuantityOf(vn.lines, p)
  BY <1>3, <1>5 DEF TakenBy, ShareOf, Approved, Exists
<1>8. /\ TakenBy(x)' = 0 /\ TakenBy(n)' = 0
      /\ \A p \in Products : ShareOf(x, p)' = 0 /\ ShareOf(n, p)' = 0
  BY <1>3 DEF TakenBy, ShareOf, Approved, Exists
<1>9. Payment(r) = -vn.received
  BY <1>3 DEF Payment
<1>10. \A p \in Products :
         TaskEffect(task[r], p) = QuantityOf(vn.lines, p) - QuantityOf(vx.lines, p)
  BY <1>3 DEF TaskEffect
<1>11. /\ vn.received \in Int
       /\ \A p \in Products : QuantityOf(vx.lines, p) \in Nat /\ QuantityOf(vn.lines, p) \in Nat
  BY <1>3, DocumentIs, QuantityIs
<1>12. Settles(r, x, n)
  BY <1>3, <1>6, <1>7, <1>8, <1>9, <1>10, <1>11 DEF Settles
<1> QED
  BY <1>12

-----------------------------------------------------------------------------
(* The invariant of stock and money.                                       *)

\* The documents are finitely many.
LEMMA FiniteDocuments == IsFiniteSet(Requests) => IsFiniteSet(DocumentIds)
<1> SUFFICES ASSUME IsFiniteSet(Requests) PROVE IsFiniteSet(DocumentIds)
  OBVIOUS
<1>1. {"sale", "return"} = {"sale"} \cup {"return"}
  OBVIOUS
<1>2. IsFiniteSet({"sale"} \cup {"return"})
  BY FS_Singleton, FS_AddElement
<1>3. IsFiniteSet({"sale", "return"})
  BY <1>1, <1>2
<1> QED
  BY <1>3, FS_Product DEF DocumentIds

\* The opening sale has been paid for and has left.
LEMMA InitStockInv == ASSUME IsFiniteSet(Requests), Init PROVE StockInv
<1> DEFINE o == <<OpeningSale, "sale">>
           s == documents[o]
<1>1. EInv /\ o \in DocumentIds
  BY InitEInv DEF DocumentIds, ExchangesAssumption
<1>2. /\ s = SaleOf(OpeningSale, OpeningLines, 0)
      /\ \A e \in DocumentIds \ {o} : documents[e] = Nil
  BY <1>1 DEF Init
<1>3. OpeningSale \in Requests /\ OpeningLines \in LineChoices
  BY DEF ExchangesAssumption
<1>4. PICK T : T = Total(OpeningLines, Prices[OpeningSale])
  OBVIOUS
<1>5. T \in Nat
  BY <1>3, <1>4, TotalIsNat
<1>6. Sold(s, OpeningSale, OpeningLines, 0) /\ s.original = Nil /\ s.return = Nil /\ s.new = Nil
  BY <1>2, <1>3, <1>4, <1>5, SaleIs
<1>7. s # Nil /\ s.kind = "egreso" /\ s.lines = OpeningLines /\ s.status = "approved" /\ s.received = T
  BY <1>4, <1>5, <1>6 DEF Sold, NilAssumption
<1>8. Sides
  <2>1. o[2] = "sale" /\ "sale" # "return"
    OBVIOUS
  <2> HIDE DEF o
  <2>2. \A e \in DocumentIds : documents[e] # Nil => e = o
    BY <1>2
  <2> QED
    BY <1>6, <1>7, <2>1, <2>2 DEF Sides
<1>9. ReturnsFit
  BY <1>2, <1>6 DEF ReturnsFit
<1>10. Plans /\ Moving /\ Held
  BY DEF Init, Plans, Moving, Held, Active, NoChange, ExchangesAssumption
<1>11. Books
  <2>1. IsFiniteSet(DocumentIds)
    BY FiniteDocuments
  <2> DEFINE zero == [e \in DocumentIds |-> 0]
  <2>2. SumFunctionOnSet(zero, DocumentIds) = 0
    BY <2>1, SumZero
  <2>3. ASSUME NEW p \in Products
        PROVE  SumFunctionOnSet(Share(p), DocumentIds) = -QuantityOf(OpeningLines, p)
    <3>1. /\ \A e \in DocumentIds : Share(p)[e] = ShareOf(e, p)
          /\ QuantityOf(OpeningLines, p) \in Nat
      BY <1>1, <1>3, SharesAre, QuantityIs
    <3>2. /\ Share(p)[o] = -QuantityOf(OpeningLines, p)
          /\ \A e \in DocumentIds \ {o} : Share(p)[e] = 0
      BY <1>1, <1>2, <1>7, <3>1 DEF ShareOf, Approved, Exists
    <3>3. PICK g : g = Share(p)
      OBVIOUS
    <3>4. /\ g[o] \in Int /\ zero[o] = 0
          /\ \A e \in DocumentIds : zero[e] \in Int
          /\ \A e \in DocumentIds \ {o} : g[e] = zero[e]
      BY <1>1, <3>1, <3>2, <3>3
    <3> HIDE DEF zero, o
    <3>5. SumFunctionOnSet(g, DocumentIds) = SumFunctionOnSet(zero, DocumentIds) + g[o] - zero[o]
      BY <1>1, <2>1, <3>4, SumChange
    <3> QED
      BY <2>2, <3>1, <3>2, <3>3, <3>4, <3>5
  <2>4. SumFunctionOnSet(Takings, DocumentIds) = T
    <3>1. \A e \in DocumentIds : Takings[e] = TakenBy(e)
      BY <1>1, SharesAre
    <3>2. Takings[o] = T /\ \A e \in DocumentIds \ {o} : Takings[e] = 0
      BY <1>1, <1>2, <1>7, <3>1 DEF TakenBy, Approved, Exists
    <3>3. /\ Takings[o] \in Int /\ zero[o] = 0
          /\ \A e \in DocumentIds : zero[e] \in Int
          /\ \A e \in DocumentIds \ {o} : Takings[e] = zero[e]
      BY <1>1, <1>5, <3>2
    <3> HIDE DEF zero, o
    <3>4. SumFunctionOnSet(Takings, DocumentIds) = SumFunctionOnSet(zero, DocumentIds) + Takings[o] - zero[o]
      BY <1>1, <2>1, <3>3, SumChange
    <3> QED
      BY <1>5, <2>2, <3>2, <3>3, <3>4
  <2>5. stock = InitialStock /\ drawer = T /\ \A p \in Products : InitialStock[p] \in Nat
    BY <1>4 DEF Init, ExchangesAssumption
  <2>6. \A p \in Products : QuantityOf(OpeningLines, p) \in Nat
    BY <1>3, QuantityIs
  <2> QED
    BY <2>3, <2>4, <2>5, <2>6 DEF Books
<1> QED
  BY <1>1, <1>8, <1>9, <1>10, <1>11 DEF StockInv

\* What does not change while documents do not.
LEMMA SameBooks ==
  ASSUME Sides, ReturnsFit, Books, UNCHANGED committed
  PROVE  Sides' /\ ReturnsFit' /\ Books'
<1>1. documents' = documents /\ stock' = stock /\ drawer' = drawer
  BY DEF committed
<1>2. Takings' = Takings /\ \A p \in Products : Share(p)' = Share(p)
  BY <1>1 DEF Takings, Share, Approved, Exists
<1> QED
  BY <1>1, <1>2 DEF Sides, ReturnsFit, Books, Returnable

\* A request starts with a plan that makes up its task.
LEMMA StartMoves ==
  ASSUME StockInv, NEW r \in Requests, NEW t \in Task, NEW s \in Seq(Row), s # <<>>, Start(r, t, s),
         \A p \in Products : Pending(s, p) = TaskEffect(t, p)
  PROVE  Sides' /\ ReturnsFit' /\ Plans' /\ Moving' /\ Held' /\ Books'
<1>1. /\ pc[r] = "idle" /\ pc' = [pc EXCEPT ![r] = "locking"] /\ task' = [task EXCEPT ![r] = t]
      /\ plan' = [plan EXCEPT ![r] = s] /\ UNCHANGED committed
      /\ owner' = owner /\ change' = change /\ stock' = stock /\ documents' = documents
  BY DEF Start, committed
<1>2. /\ pc'[r] = "locking" /\ task'[r] = t /\ plan'[r] = s /\ ~Active(r)
      /\ \A q \in Requests \ {r} : pc'[q] = pc[q] /\ task'[q] = task[q] /\ plan'[q] = plan[q]
  BY <1>1 DEF StockInv, EInv, Shape, Plans, Active
<1>3. Sides' /\ ReturnsFit' /\ Books'
  BY <1>1, SameBooks DEF StockInv
<1>4. Plans'
  BY <1>1, <1>2 DEF StockInv, Plans
<1>5. Held'
  BY <1>1 DEF StockInv, Held
<1>6. Moving'
  <2>1. \A q \in Requests : Active(q)' <=> (q = r \/ Active(q))
    BY <1>1, <1>2 DEF Active
  <2>2. \A u, p : TaskEffect(u, p)' = TaskEffect(u, p)
    BY <1>1 DEF TaskEffect
  <2>3. change' \in [Requests -> [Products -> Int]]
    BY <1>1 DEF StockInv, Moving
  <2>4. ASSUME NEW q \in Requests, NEW p \in Products
        PROVE  IF Active(q)' THEN change'[q][p] + Pending(plan'[q], p) = TaskEffect(task[q], p)'
                             ELSE change'[q][p] = 0
    <3>1. CASE q = r
      <4>1. change[r][p] = 0
        BY <1>2 DEF StockInv, Moving
      <4>2. TaskEffect(task[r], p)' = TaskEffect(t, p)
        BY <1>1, <1>2 DEF TaskEffect
      <4>3. Pending(s, p) \in Int
        BY PendingParts
      <4> QED
        BY <1>1, <1>2, <2>1, <3>1, <4>1, <4>2, <4>3
    <3>2. CASE q # r
      <4>1. TaskEffect(task[q], p)' = TaskEffect(task[q], p)
        BY <1>1, <1>2, <3>2 DEF TaskEffect
      <4> QED
        BY <1>1, <1>2, <2>1, <3>2, <4>1 DEF StockInv, Moving
    <3> QED
      BY <3>1, <3>2
  <2> QED
    BY <2>3, <2>4 DEF Moving
<1> QED
  BY <1>3, <1>4, <1>5, <1>6

\* A request on a sale starts.
LEMMA RequestMoves ==
  ASSUME StockInv, NEW r \in Requests, SaleRequests(r)
  PROVE  Sides' /\ ReturnsFit' /\ Plans' /\ Moving' /\ Held' /\ Books'
<1>1. CASE Sell(r)
  <2>1. PICK lines \in LineChoices :
          Start(r, [operation |-> "sell", sale |-> <<r, "sale">>, lines |-> lines,
                    returned |-> <<>>, return |-> Nil, new |-> Nil], SalePlan(lines))
    BY <1>1 DEF Sell
  <2>2. PICK t : t = [operation |-> "sell", sale |-> <<r, "sale">>, lines |-> lines,
                      returned |-> <<>>, return |-> Nil, new |-> Nil]
    OBVIOUS
  <2>3. t \in Task
    BY <2>2 DEF Task, Link, DocumentIds
  <2>4. \A p : TaskEffect(t, p) = -QuantityOf(lines, p)
    BY <2>2 DEF TaskEffect
  <2>5. SalePlan(lines) \in Seq(Row) /\ SalePlan(lines) # <<>>
        /\ \A p \in Products : Pending(SalePlan(lines), p) = TaskEffect(t, p)
    BY <2>4, PlansAdd
  <2>6. Start(r, t, SalePlan(lines))
    BY <2>1, <2>2
  <2> QED
    BY <2>3, <2>5, <2>6, StartMoves
<1>2. ASSUME NEW d \in DocumentIds, Exchange(r, d)
      PROVE  Sides' /\ ReturnsFit' /\ Plans' /\ Moving' /\ Held' /\ Books'
  <2>1. PICK returned \in LineChoices, lines \in LineChoices :
          Start(r, [operation |-> "exchange", sale |-> d, lines |-> lines,
                    returned |-> returned, return |-> Nil, new |-> Nil],
                ExchangePlan(returned, lines))
    BY <1>2 DEF Exchange
  <2>2. PICK t : t = [operation |-> "exchange", sale |-> d, lines |-> lines,
                      returned |-> returned, return |-> Nil, new |-> Nil]
    OBVIOUS
  <2>3. t \in Task
    BY <2>2 DEF Task, Link
  <2>4. \A p : TaskEffect(t, p) = QuantityOf(returned, p) - QuantityOf(lines, p)
    BY <2>2 DEF TaskEffect
  <2>5. PICK s : s = ExchangePlan(returned, lines)
    OBVIOUS
  <2>6. s \in Seq(Row) /\ s # <<>>
        /\ \A p \in Products : Pending(s, p) = QuantityOf(returned, p) - QuantityOf(lines, p)
    BY <2>5, PlansAdd
  <2> QED
    BY <2>1, <2>2, <2>3, <2>4, <2>5, <2>6, StartMoves
<1>3. ASSUME NEW d \in DocumentIds, Revert(r, d)
      PROVE  Sides' /\ ReturnsFit' /\ Plans' /\ Moving' /\ Held' /\ Books'
  <2>1. EInv
    BY DEF StockInv
  <2>2. PICK n : n = IF documents[d].new # Nil THEN documents[d].new ELSE d
    OBVIOUS
  <2>3. documents[d] # Nil /\ documents[d] \in Document
    BY <1>3, <2>1 DEF Revert, EInv, Shape
  <2>4. n \in DocumentIds /\ documents[n] # Nil
    BY <2>1, <2>2, <2>3 DEF EInv, Shape, Agreed, Linked, Document, Link
  <2>5. PICK o, x : o = documents[n].original /\ x = documents[n].return
    OBVIOUS
  <2>6. /\ o # Nil /\ x # Nil /\ Exists(x, "approved")
        /\ Start(r, [operation |-> "revert", sale |-> o, lines |-> <<>>,
                     returned |-> <<>>, return |-> x, new |-> n],
                 RevertPlan(documents[x].lines, documents[n].lines))
    BY <1>3, <2>2, <2>5 DEF Revert
  <2>7. o \in DocumentIds /\ x \in DocumentIds /\ documents[x] # Nil
    BY <2>1, <2>4, <2>5, <2>6 DEF EInv, Shape, Document, Link, Exists
  <2>8. documents[x].lines \in LineChoices /\ documents[n].lines \in LineChoices
    BY <2>1, <2>4, <2>7 DEF EInv, Shape, Document
  <2>9. PICK t : t = [operation |-> "revert", sale |-> o, lines |-> <<>>,
                      returned |-> <<>>, return |-> x, new |-> n]
    OBVIOUS
  <2>10. t \in Task
    BY <2>4, <2>7, <2>9 DEF Task, Link
  <2>11. \A p : TaskEffect(t, p) = QuantityOf(documents[n].lines, p) - QuantityOf(documents[x].lines, p)
    BY <2>9 DEF TaskEffect
  <2>12. PICK s : s = RevertPlan(documents[x].lines, documents[n].lines)
    OBVIOUS
  <2>13. s \in Seq(Row) /\ s # <<>>
         /\ \A p \in Products :
              Pending(s, p) = QuantityOf(documents[n].lines, p) - QuantityOf(documents[x].lines, p)
    <3>1. PICK a, b : a = documents[x].lines /\ b = documents[n].lines
      OBVIOUS
    <3>2. a \in LineChoices /\ b \in LineChoices /\ s = RevertPlan(a, b)
      BY ONLY <2>8, <2>12, <3>1
    <3>3. s \in Seq(Row) /\ s # <<>>
          /\ \A p : Pending(s, p) = QuantityOf(b, p) - QuantityOf(a, p)
      BY ONLY <3>2, PlansAdd, ExchangesAssumption, NilAssumption
    <3> QED
      BY ONLY <3>1, <3>3
  <2>14. Start(r, t, s)
    BY <2>6, <2>9, <2>12
  <2> QED
    BY <2>10, <2>11, <2>13, <2>14, StartMoves
<1>4. ASSUME NEW d \in DocumentIds, Void(r, d)
      PROVE  Sides' /\ ReturnsFit' /\ Plans' /\ Moving' /\ Held' /\ Books'
  <2>1. PICK t : t = [operation |-> "void", sale |-> d, lines |-> <<>>, returned |-> <<>>,
                      return |-> Nil, new |-> Nil]
    OBVIOUS
  <2>2. t \in Task
    BY <2>1 DEF Task, Link
  <2>3. documents[d] # Nil /\ Start(r, t, Entering(documents[d].lines))
    BY <1>4, <2>1 DEF Void, Exists
  <2>4. documents[d].lines \in LineChoices
    BY <2>3 DEF StockInv, EInv, Shape, Document
  <2>5. \A p : TaskEffect(t, p) = QuantityOf(documents[d].lines, p)
    BY <2>1 DEF TaskEffect
  <2> QED
    BY <2>2, <2>3, <2>4, <2>5, EnteringAdds, StartMoves
<1> QED
  BY <1>1, <1>2, <1>3, <1>4 DEF SaleRequests

\* A row more is locked, and what the plan had for it has been moved.
LEMMA LockMoves ==
  ASSUME StockInv, NEW r \in Requests, Lock(r)
  PROVE  Sides' /\ ReturnsFit' /\ Plans' /\ Moving' /\ Held' /\ Books'
<1>1. PICK next : next = Head(plan[r])
  OBVIOUS
<1>2. /\ pc[r] = "locking" /\ UNCHANGED committed /\ task' = task
      /\ owner[next.row] \in {r, Nil}
      /\ next.row \in Products => stock[next.row] + change[r][next.row] + next.adds >= 0
      /\ owner' = [owner EXCEPT ![next.row] = r]
      /\ change' = IF next.row \in Products
                   THEN [change EXCEPT ![r][next.row] = @ + next.adds] ELSE change
      /\ plan' = [plan EXCEPT ![r] = Tail(@)]
      /\ pc' = [pc EXCEPT ![r] = IF Len(plan[r]) = 1 THEN "commit" ELSE "locking"]
  BY <1>1 DEF Lock, Available, Suffices
<1>3. /\ plan \in [Requests -> Seq(Row)] /\ plan[r] \in Seq(Row) /\ plan[r] # <<>>
      /\ change \in [Requests -> [Products -> Int]] /\ stock \in [Products -> Nat]
      /\ owner \in [Resources -> Requests \cup {Nil}]
      /\ pc \in [Requests -> {"idle", "locking", "commit", "done", "failed"}]
  BY <1>2 DEF StockInv, Plans, Moving, Held, EInv, Shape
<1>4. /\ next \in Row /\ Tail(plan[r]) \in Seq(Row)
      /\ \A p : /\ Pending(Tail(plan[r]), p) \in Int
                /\ Pending(plan[r], p) = (IF next.row = p THEN next.adds ELSE 0) + Pending(Tail(plan[r]), p)
  BY <1>1, <1>3, PendingRest
<1>5. next.row \in Resources /\ next.adds \in Int
  BY <1>4 DEF Row
<1>6. Sides' /\ ReturnsFit' /\ Books'
  BY <1>2, SameBooks DEF StockInv
<1>7. /\ plan' \in [Requests -> Seq(Row)] /\ plan'[r] = Tail(plan[r])
      /\ \A q \in Requests \ {r} : plan'[q] = plan[q] /\ pc'[q] = pc[q]
      /\ pc'[r] = IF Len(plan[r]) = 1 THEN "commit" ELSE "locking"
  BY <1>2, <1>3, <1>4
<1>8. Plans'
  <2>1. Len(Tail(plan[r])) = Len(plan[r]) - 1 /\ Len(plan[r]) \in Nat
    BY <1>3
  <2>2. Tail(plan[r]) = <<>> <=> Len(Tail(plan[r])) = 0
    <3>1. \A s \in Seq(Row) : s = <<>> <=> Len(s) = 0
      OBVIOUS
    <3> QED
      BY <1>4, <3>1
  <2>3. Len(plan[r]) = 1 <=> Tail(plan[r]) = <<>>
    BY <2>1, <2>2
  <2> QED
    BY <1>7, <2>3 DEF StockInv, Plans
<1>9. /\ change' \in [Requests -> [Products -> Int]]
      /\ \A p \in Products : change'[r][p] = change[r][p] + (IF next.row = p THEN next.adds ELSE 0)
      /\ \A q \in Requests \ {r}, p \in Products : change'[q][p] = change[q][p]
  <2>1. CASE next.row \in Products
    <3>1. PICK f : f = [change[r] EXCEPT ![next.row] = @ + next.adds]
      OBVIOUS
    <3>2. change' = [change EXCEPT ![r] = f]
      BY <1>2, <2>1, <3>1
    <3>3. \A p \in Products : f[p] = change[r][p] + (IF next.row = p THEN next.adds ELSE 0)
      BY <1>3, <1>5, <3>1
    <3>4. f \in [Products -> Int]
      BY <1>3, <1>5, <2>1, <3>1
    <3> QED
      BY <1>3, <3>2, <3>3, <3>4
  <2>2. CASE next.row \notin Products
    BY <1>2, <1>3, <2>2
  <2> QED
    BY <2>1, <2>2
<1>10. Moving'
  <2>1. \A q \in Requests : Active(q)' <=> Active(q)
    BY <1>2, <1>7 DEF Active
  <2>2. \A q \in Requests, p \in Products : TaskEffect(task[q], p)' = TaskEffect(task[q], p)
    BY <1>2 DEF TaskEffect, committed
  <2>3. ASSUME NEW q \in Requests, NEW p \in Products
        PROVE  IF Active(q)' THEN change'[q][p] + Pending(plan'[q], p) = TaskEffect(task[q], p)'
                             ELSE change'[q][p] = 0
    <3>1. IF Active(q) THEN change[q][p] + Pending(plan[q], p) = TaskEffect(task[q], p)
                       ELSE change[q][p] = 0
      BY DEF StockInv, Moving
    <3>2. CASE q = r
      <4>1. Active(r) /\ change[r][p] \in Int
        BY <1>2, <1>3 DEF Active
      <4>2. PICK a, b, c : /\ a = change[r][p] /\ b = Pending(Tail(plan[r]), p)
                           /\ c = IF next.row = p THEN next.adds ELSE 0
        OBVIOUS
      <4>5. a \in Int /\ b \in Int /\ c \in Int
        BY <1>4, <1>5, <4>1, <4>2
      <4>3. change'[r][p] = a + c /\ Pending(plan'[r], p) = b
        BY <1>7, <1>9, <4>2
      <4>4. a + (c + b) = TaskEffect(task[r], p)
        BY <1>4, <3>1, <3>2, <4>1, <4>2
      <4> QED
        BY <2>1, <2>2, <3>2, <4>1, <4>3, <4>4, <4>5
    <3>3. CASE q # r
      BY <1>7, <1>9, <2>1, <2>2, <3>1, <3>3
    <3> QED
      BY <3>2, <3>3
  <2> QED
    BY <1>9, <2>3 DEF Moving
<1>11. Held'
  <2>1. stock' = stock /\ owner' \in [Resources -> Requests \cup {Nil}]
    BY <1>2, <1>3, <1>5 DEF committed
  <2>2. ASSUME NEW q \in Requests, NEW p \in Products, change'[q][p] # 0
        PROVE  owner'[p] = q /\ stock[p] + change'[q][p] >= 0
    <3>1. change[q][p] # 0 => owner[p] = q /\ stock[p] + change[q][p] >= 0
      BY DEF StockInv, Held
    <3>2. p \in Resources /\ Nil \notin Requests /\ change[q][p] \in Int /\ stock[p] \in Nat
      BY <1>3 DEF Resources, ExchangesAssumption
    <3>3. CASE q = r /\ next.row = p
      BY <1>2, <1>3, <1>5, <1>9, <3>2, <3>3
    <3>4. CASE q = r /\ next.row # p
      BY <1>2, <1>3, <1>9, <2>2, <3>1, <3>2, <3>4
    <3>5. CASE q # r
      <4>1. change[q][p] # 0 /\ change'[q][p] = change[q][p]
        BY <1>9, <2>2, <3>5
      <4>2. next.row # p
        BY <1>2, <3>1, <3>2, <3>5, <4>1
      <4> QED
        BY <1>2, <1>3, <3>1, <3>2, <4>1, <4>2
    <3> QED
      BY <3>3, <3>4, <3>5
  <2> QED
    BY <1>3, <2>1, <2>2 DEF Held
<1> QED
  BY <1>6, <1>8, <1>10, <1>11

\* A request that ends has nothing left to lock and has moved nothing; the others
\* keep what they hold.
Ended(r) ==
  /\ pc'[r] \in {"done", "failed"} /\ ~Active(r)'
  /\ \A q \in Requests \ {r} : /\ pc'[q] = pc[q] /\ task'[q] = task[q] /\ plan'[q] = plan[q]
                               /\ change'[q] = change[q] /\ (Active(q)' <=> Active(q))
  /\ change' \in [Requests -> [Products -> Int]]
  /\ \A p \in Products : change'[r][p] = 0
  /\ owner' \in [Resources -> Requests \cup {Nil}]
  /\ \A x \in Resources : owner[x] # r => owner'[x] = owner[x]
  /\ Plans'

LEMMA EndMoves ==
  ASSUME StockInv, NEW r \in Requests, NEW outcome \in {"done", "failed"}, End(r, outcome)
  PROVE  Ended(r)
<1>1. /\ pc' = [pc EXCEPT ![r] = outcome] /\ task' = [task EXCEPT ![r] = Nil]
      /\ plan' = [plan EXCEPT ![r] = <<>>] /\ change' = [change EXCEPT ![r] = NoChange]
      /\ owner' = [x \in Resources |-> IF owner[x] = r THEN Nil ELSE owner[x]]
  BY DEF End
<1>2. /\ plan \in [Requests -> Seq(Row)] /\ change \in [Requests -> [Products -> Int]]
      /\ owner \in [Resources -> Requests \cup {Nil}]
      /\ task \in [Requests -> Task \cup {Nil}]
      /\ pc \in [Requests -> {"idle", "locking", "commit", "done", "failed"}]
  BY DEF StockInv, Plans, Moving, Held, EInv, Shape
<1>3. pc'[r] = outcome /\ \A q \in Requests \ {r} : pc'[q] = pc[q]
  BY <1>1, <1>2
<1>4. \A q \in Requests \ {r} : task'[q] = task[q]
  BY <1>1, <1>2
<1>5. plan' \in [Requests -> Seq(Row)] /\ \A q \in Requests \ {r} : plan'[q] = plan[q]
  BY <1>1, <1>2
<1>6. /\ change' \in [Requests -> [Products -> Int]]
      /\ \A p \in Products : change'[r][p] = 0
      /\ \A q \in Requests \ {r} : change'[q] = change[q]
  BY <1>1, <1>2 DEF NoChange
<1>7. /\ owner' \in [Resources -> Requests \cup {Nil}]
      /\ \A x \in Resources : owner[x] # r => owner'[x] = owner[x]
  BY <1>1, <1>2
<1>8. ~Active(r)' /\ \A q \in Requests \ {r} : Active(q)' <=> Active(q)
  BY <1>3 DEF Active
<1>9. Plans'
  BY <1>3, <1>5 DEF StockInv, Plans
<1> QED
  BY <1>3, <1>4, <1>5, <1>6, <1>7, <1>8, <1>9 DEF Ended

\* A request ends without having changed anything.
LEMMA RollbackMoves ==
  ASSUME StockInv, NEW r \in Requests, Rollback(r)
  PROVE  Sides' /\ ReturnsFit' /\ Plans' /\ Moving' /\ Held' /\ Books'
<1>1. Ended(r) /\ UNCHANGED committed
  BY EndMoves DEF Rollback
<1>2. documents' = documents /\ stock' = stock
  BY <1>1 DEF committed
<1>3. Sides' /\ ReturnsFit' /\ Books'
  BY <1>1, SameBooks DEF StockInv
<1>4. Moving'
  <2>1. ASSUME NEW q \in Requests \ {r}, NEW p \in Products
        PROVE  TaskEffect(task[q], p)' = TaskEffect(task[q], p)
    BY <1>1, <1>2 DEF Ended, TaskEffect
  <2> QED
    BY <1>1, <2>1 DEF Ended, StockInv, Moving
<1>5. Held'
  <2>1. \A p \in Products : p \in Resources
    BY DEF Resources
  <2>2. Held
    BY DEF StockInv
  <2>3. ASSUME NEW q \in Requests, NEW p \in Products, change'[q][p] # 0
        PROVE  owner'[p] = q /\ stock[p] + change'[q][p] >= 0
    <3>1. q # r /\ change'[q] = change[q]
      BY <1>1, <2>3 DEF Ended
    <3>2. owner[p] = q /\ stock[p] + change[q][p] >= 0
      BY <2>2, <2>3, <3>1 DEF Held
    <3> QED
      BY <1>1, <2>1, <3>1, <3>2 DEF Ended
  <2>4. owner' \in [Resources -> Requests \cup {Nil}]
    BY <1>1 DEF Ended
  <2> QED
    BY <1>2, <2>2, <2>3, <2>4 DEF Held
<1> QED
  BY <1>1, <1>3, <1>4, <1>5 DEF Ended

\* What a task adds stays the same while others commit.
LEMMA TaskStays ==
  ASSUME EInv, GoodsStay, NEW q \in Requests, Active(q), task'[q] = task[q]
  PROVE  \A p : TaskEffect(task[q], p)' = TaskEffect(task[q], p)
<1>1. PICK t \in Task : t = task[q]
  BY DEF EInv, Shape, Tasks
<1>2. Fit(q, t) /\ t.sale \in DocumentIds /\ t.operation \in {"sell", "exchange", "revert", "void"}
  BY <1>1 DEF EInv, Tasks, Task
<1>3. CASE t.operation \in {"sell", "exchange"}
  BY <1>1, <1>3 DEF TaskEffect
<1>4. CASE t.operation = "void"
  <2>1. documents[t.sale] # Nil
    BY <1>2, <1>4 DEF Fit, Exists
  <2>2. documents'[t.sale].lines = documents[t.sale].lines
    BY <1>2, <2>1 DEF GoodsStay, SameGoods
  <2> QED
    BY <1>1, <1>4, <2>2 DEF TaskEffect
<1>5. CASE t.operation = "revert"
  <2>1. /\ documents[t.sale] # Nil /\ documents[t.sale].original = Nil
        /\ documents[t.sale].new # Nil /\ documents[t.sale].new = t.new
        /\ documents[t.sale].return = t.return
    BY <1>2, <1>5 DEF Fit
  <2>2. PICK x, n \in DocumentIds :
          x = t.return /\ n = t.new /\ documents[x] # Nil /\ documents[n] # Nil
    BY <1>2, <2>1, ThreeAgree
  <2>3. documents'[x].lines = documents[x].lines /\ documents'[n].lines = documents[n].lines
    BY <2>2 DEF GoodsStay, SameGoods
  <2> QED
    BY <1>1, <1>5, <2>2, <2>3 DEF TaskEffect
<1> QED
  BY <1>2, <1>3, <1>4, <1>5

\* Whatever a request commits settles two documents.
LEMMA CommitSettles ==
  ASSUME EInv, Sides, NEW r \in Requests, Commit(r)
  PROVE  \E x, n : Settles(r, x, n)
<1>1. task[r].operation \in {"sell", "exchange", "revert", "void"}
  BY Committing DEF Commit, Task
<1> QED
  BY <1>1, SellSettles, VoidSettles, ExchangeSettles, RevertSettles

\* The books after a commit.
LEMMA CommitBooks ==
  ASSUME IsFiniteSet(Requests), StockInv, EInv', NEW r \in Requests, Commit(r)
  PROVE  Books'
<1>1. EInv /\ Sides /\ Plans /\ Moving /\ Held /\ Books
  BY DEF StockInv
<1>2. PICK x, n : Settles(r, x, n)
  BY <1>1, CommitSettles
<1>3. /\ x \in DocumentIds /\ n \in DocumentIds /\ x # n
      /\ \A e \in DocumentIds \ {x, n} :
           TakenBy(e)' = TakenBy(e) /\ \A p \in Products : ShareOf(e, p)' = ShareOf(e, p)
      /\ Payment(r) = (TakenBy(x)' - TakenBy(x)) + (TakenBy(n)' - TakenBy(n))
      /\ \A p \in Products :
           TaskEffect(task[r], p) = (ShareOf(x, p)' - ShareOf(x, p)) + (ShareOf(n, p)' - ShareOf(n, p))
  BY <1>2 DEF Settles
<1>4. IsFiniteSet(DocumentIds)
  BY FiniteDocuments
<1>5. /\ pc[r] = "commit" /\ drawer' = drawer + Payment(r)
      /\ stock' = [p \in Products |-> stock[p] + change[r][p]]
  BY DEF Commit
<1>6. /\ \A e \in DocumentIds : TakenBy(e) \in Nat /\ Takings[e] = TakenBy(e)
      /\ \A e \in DocumentIds, p \in Products : ShareOf(e, p) \in Int /\ Share(p)[e] = ShareOf(e, p)
  BY <1>1, SharesAre
<1>7. /\ \A e \in DocumentIds : TakenBy(e)' \in Nat /\ Takings'[e] = TakenBy(e)'
      /\ \A e \in DocumentIds, p \in Products :
           ShareOf(e, p)' \in Int /\ Share(p)'[e] = ShareOf(e, p)'
  BY SharesAreNext DEF SharesNumbers
<1>8. drawer' = SumFunctionOnSet(Takings', DocumentIds)
  <2>1. PICK f, g : f = Takings /\ g = Takings'
    OBVIOUS
  <2>2. /\ \A z \in DocumentIds : f[z] \in Int /\ g[z] \in Int
        /\ \A z \in DocumentIds \ {x, n} : g[z] = f[z]
        /\ Payment(r) = (g[x] - f[x]) + (g[n] - f[n])
    BY <1>3, <1>6, <1>7, <2>1
  <2>3. SumFunctionOnSet(g, DocumentIds) =
          SumFunctionOnSet(f, DocumentIds) + (g[x] - f[x]) + (g[n] - f[n])
    BY <1>3, <1>4, <2>2, SumChangeTwo
  <2>4. SumFunctionOnSet(f, DocumentIds) \in Int /\ drawer = SumFunctionOnSet(f, DocumentIds)
    BY <1>1, <1>4, <2>1, <2>2, SumType DEF Books
  <2> QED
    BY <1>3, <1>5, <2>1, <2>2, <2>3, <2>4
<1>9. ASSUME NEW p \in Products
      PROVE  stock'[p] = InitialStock[p] + QuantityOf(OpeningLines, p)
                           + SumFunctionOnSet(Share(p)', DocumentIds)
  <2>1. PICK f, g : f = Share(p) /\ g = Share(p)'
    OBVIOUS
  <2>2. change[r][p] \in Int /\ change[r][p] = TaskEffect(task[r], p)
    <3>1. Active(r) /\ plan[r] = <<>>
      BY <1>1, <1>5 DEF Active, Plans
    <3>2. Pending(<<>>, p) = 0
      BY SumEmpty DEF Pending, SumFunction
    <3> QED
      BY <1>1, <3>1, <3>2 DEF Moving
  <2>3. /\ \A z \in DocumentIds : f[z] \in Int /\ g[z] \in Int
        /\ \A z \in DocumentIds \ {x, n} : g[z] = f[z]
        /\ change[r][p] = (g[x] - f[x]) + (g[n] - f[n])
    BY <1>3, <1>6, <1>7, <2>1, <2>2
  <2>4. SumFunctionOnSet(g, DocumentIds) =
          SumFunctionOnSet(f, DocumentIds) + (g[x] - f[x]) + (g[n] - f[n])
    BY <1>3, <1>4, <2>3, SumChangeTwo
  <2>5. SumFunctionOnSet(f, DocumentIds) \in Int
        /\ stock[p] = InitialStock[p] + QuantityOf(OpeningLines, p) + SumFunctionOnSet(f, DocumentIds)
    BY <1>1, <1>4, <2>1, <2>3, SumType DEF Books
  <2>6. stock'[p] = stock[p] + change[r][p]
    BY <1>5
  <2>7. InitialStock[p] \in Int /\ QuantityOf(OpeningLines, p) \in Int
    BY QuantityIs DEF ExchangesAssumption
  <2> QED
    BY <1>3, <2>1, <2>2, <2>3, <2>4, <2>5, <2>6, <2>7
<1> QED
  BY <1>8, <1>9 DEF Books

\* A commit.
LEMMA CommitMoves ==
  ASSUME IsFiniteSet(Requests), StockInv, EInv', NEW r \in Requests, Commit(r)
  PROVE  Sides' /\ ReturnsFit' /\ Plans' /\ Moving' /\ Held' /\ Books'
<1>1. EInv /\ Sides /\ ReturnsFit /\ Plans /\ Moving /\ Held
  BY DEF StockInv
<1>2. Ended(r) /\ GoodsStay
  BY <1>1, EndMoves, CommitGoods DEF Commit
<1>3. Sides' /\ ReturnsFit' /\ Books'
  BY <1>1, CommitSides, CommitReturnsFit, CommitBooks
<1>4. Moving'
  <2>1. ASSUME NEW q \in Requests \ {r}, Active(q), NEW p \in Products
        PROVE  TaskEffect(task[q], p)' = TaskEffect(task[q], p)
    BY <1>1, <1>2, <2>1, TaskStays DEF Ended
  <2> QED
    BY <1>1, <1>2, <2>1 DEF Ended, Moving
<1>5. Held'
  <2>1. stock' = [p \in Products |-> stock[p] + change[r][p]]
    BY DEF Commit
  <2>2. \A p \in Products : stock[p] \in Nat /\ change[r][p] \in Int
    BY <1>1 DEF Held, Moving
  <2>3. \A p \in Products : stock[p] + change[r][p] \in Nat
    BY <1>1, <2>2 DEF Held
  <2>4. stock' \in [Products -> Nat]
    BY <2>1, <2>3
  <2>5. ASSUME NEW q \in Requests, NEW p \in Products, change'[q][p] # 0
        PROVE  owner'[p] = q /\ stock'[p] + change'[q][p] >= 0
    <3>1. q # r /\ change'[q] = change[q] /\ p \in Resources
      BY <1>2, <2>5 DEF Ended, Resources
    <3>2. owner[p] = q /\ stock[p] + change[q][p] >= 0
      BY <1>1, <2>5, <3>1 DEF Held
    <3>3. owner'[p] = q
      BY <1>2, <3>1, <3>2 DEF Ended
    <3>4. change[r][p] = 0
      BY <1>1, <3>1, <3>2 DEF Held
    <3>5. stock'[p] = stock[p]
      BY <2>1, <2>2, <3>4
    <3> QED
      BY <3>1, <3>2, <3>3, <3>5
  <2> QED
    BY <1>2, <2>4, <2>5 DEF Held, Ended
<1> QED
  BY <1>2, <1>3, <1>4, <1>5 DEF Ended

\* Every step keeps the invariant.
LEMMA StepStockInv ==
  ASSUME ~SameSale, IsFiniteSet(Requests), StockInv, [Next]_vars PROVE StockInv'
<1>1. EInv'
  BY StepEInv DEF StockInv
<1>2. CASE UNCHANGED vars
  <2>1. UNCHANGED committed /\ UNCHANGED <<owner, pc, task, plan, change>> /\ UNCHANGED documents
    BY <1>2 DEF vars, private, committed
  <2>2. Sides' /\ ReturnsFit' /\ Books'
    BY <2>1, SameBooks DEF StockInv
  <2>3. Plans' /\ Held' /\ Moving'
    BY <1>2 DEF vars, private, committed, StockInv, Plans, Held, Moving, Active, TaskEffect
  <2> QED
    BY <1>1, <2>2, <2>3 DEF StockInv
<1>3. ASSUME NEW r \in Requests, Refuse(r) \/ Abort(r) \/ DeadlockVictim(r)
      PROVE  Rollback(r)
  BY <1>3 DEF Refuse, Abort, DeadlockVictim
<1> QED
  BY <1>1, <1>2, <1>3, RequestMoves, LockMoves, CommitMoves, RollbackMoves DEF Next, Step, StockInv

\* What each handler has moved and has still to move, the rows it holds, the
\* documents in force, the stock and the drawer agree all the time.
THEOREM StockInvariance ==
  ASSUME ~SameSale, IsFiniteSet(Requests) PROVE Spec => []StockInv
<1>1. Init => StockInv
  BY InitStockInv
<1>2. StockInv /\ [Next]_vars => StockInv'
  BY StepStockInv
<1> QED
  BY <1>1, <1>2, PTL DEF Spec

\* Numbers are numbers: neither the stock nor the drawer goes below zero.
THEOREM TypeCorrect == ASSUME ~SameSale, IsFiniteSet(Requests) PROVE Spec => []TypeOK
<1>1. ASSUME StockInv PROVE TypeOK
  <2>1. /\ EInv /\ stock \in [Products -> Nat] /\ owner \in [Resources -> Requests \cup {Nil}]
        /\ plan \in [Requests -> Seq(Row)] /\ change \in [Requests -> [Products -> Int]]
    BY <1>1 DEF StockInv, Held, Plans, Moving
  <2>2. drawer \in Nat
    <3>1. \A e \in DocumentIds : Takings[e] \in Nat
      BY <2>1, SharesAre
    <3>2. SumFunctionOnSet(Takings, DocumentIds) \in Nat
      BY <3>1, FiniteDocuments, SumNatural
    <3> QED
      BY <1>1, <3>2 DEF StockInv, Books
  <2>3. \A r \in Requests : task[r] = Nil \/ task[r] \in Task
    BY <2>1 DEF EInv, Shape
  <2>4. \A d \in DocumentIds : documents[d] = Nil \/ documents[d] \in Document
    BY <2>1 DEF EInv, Shape
  <2>5. pc \in [Requests -> {"idle", "locking", "commit", "done", "failed"}]
    BY <2>1 DEF EInv, Shape
  <2> QED
    BY <2>1, <2>2, <2>3, <2>4, <2>5 DEF TypeOK, Row
<1> QED
  BY <1>1, StockInvariance, PTL

\* Stock is what the documents in force add up to, however sales, exchanges,
\* reversals and voids interleave.
THEOREM StockAddsUp ==
  ASSUME ~SameSale, IsFiniteSet(Requests) PROVE Spec => []StockIsSumOfApproved
<1>1. ASSUME StockInv PROVE StockIsSumOfApproved
  <2> SUFFICES ASSUME NEW p \in Products
               PROVE  stock[p] = InitialStock[p] + QuantityOf(OpeningLines, p) +
                        SumFunction([d \in {e \in DocumentIds : Approved(e)} |->
                                       Effect(documents[d].kind, documents[d].lines)[p]])
    BY DEF StockIsSumOfApproved
  <2>1. PICK In : In = {e \in DocumentIds : Approved(e)}
    OBVIOUS
  <2>2. PICK Out : Out = DocumentIds \ In
    OBVIOUS
  <2>3. PICK f, g : f = Share(p) /\ g = [d \in In |-> Effect(documents[d].kind, documents[d].lines)[p]]
    OBVIOUS
  <2>4. IsFiniteSet(In) /\ IsFiniteSet(Out) /\ In \cap Out = {} /\ DocumentIds = In \cup Out
    BY <2>1, <2>2, FiniteDocuments, FS_Subset
  <2>5. \A d \in DocumentIds : f[d] \in Int
    BY <1>1, <2>3, SharesAre DEF StockInv
  <2>6. DOMAIN g = In /\ \A d \in In : g[d] = f[d]
    BY <2>1, <2>3 DEF Share
  <2>7. \A d \in Out : f[d] = 0
    BY <2>1, <2>2, <2>3 DEF Share
  <2>8. SumFunctionOnSet(f, Out) = 0 /\ SumFunctionOnSet(g, In) = SumFunctionOnSet(f, In)
    BY <2>4, <2>6, <2>7, SumZero, SumEqual
  <2>9. SumFunctionOnSet(f, In \cup Out) = SumFunctionOnSet(f, In) + SumFunctionOnSet(f, Out)
    BY <2>4, <2>5, SumUnion
  <2>10. SumFunctionOnSet(f, In) \in Int
    BY <2>4, <2>5, SumType
  <2>11. SumFunction(g) = SumFunctionOnSet(f, DocumentIds)
    BY <2>4, <2>6, <2>8, <2>9, <2>10 DEF SumFunction
  <2>12. stock[p] = InitialStock[p] + QuantityOf(OpeningLines, p) + SumFunctionOnSet(f, DocumentIds)
    BY <1>1, <2>3 DEF StockInv, Books
  <2> QED
    BY <2>1, <2>3, <2>11, <2>12
<1> QED
  BY <1>1, StockInvariance, PTL

\* Nobody brings back more than was sold: at most one return of a sale is in
\* force, and it fits the sale.
THEOREM ReturnsWithinSold ==
  ASSUME ~SameSale, IsFiniteSet(Requests) PROVE Spec => []ReturnedWithinSold
<1>1. ASSUME StockInv PROVE ReturnedWithinSold
  <2> SUFFICES ASSUME NEW d \in DocumentIds, NEW p \in Products, NEW R,
                      R = {x \in DocumentIds : /\ Approved(x) /\ documents[x].kind = "ingreso"
                                               /\ documents[x].original = d}
               PROVE  SumFunction([x \in R |-> QuantityOf(documents[x].lines, p)]) <=
                        IF Approved(d) THEN QuantityOf(documents[d].lines, p) ELSE 0
    BY DEF ReturnedWithinSold
  <2>1. EInv /\ Sides /\ ReturnsFit
    BY <1>1 DEF StockInv
  <2>2. PICK g : g = [x \in R |-> QuantityOf(documents[x].lines, p)]
    OBVIOUS
  <2>3. \A q, e : e \in DocumentIds /\ documents[e] # Nil => QuantityOf(documents[e].lines, q) \in Nat
    BY <2>1, QuantityIs, DocumentIs DEF EInv, Shape
  <2>4. CASE R = {}
    <3>1. SumFunction(g) = 0
      BY <2>2, <2>4, SumEmpty DEF SumFunction
    <3>2. Approved(d) => QuantityOf(documents[d].lines, p) \in Nat
      BY <2>3 DEF Approved, Exists
    <3> QED
      BY <2>2, <3>1, <3>2
  <2>5. CASE R # {}
    <3>1. PICK x \in R : TRUE
      BY <2>5
    <3>2. \A y \in R : /\ y \in DocumentIds /\ Approved(y) /\ documents[y] # Nil
                       /\ documents[y].original = d /\ documents[y].kind = "ingreso"
      BY DEF Approved, Exists
    <3>3. \A y \in R : y[2] = "return" /\ y = documents[d].return
      <4> SUFFICES ASSUME NEW y \in R PROVE y[2] = "return" /\ y = documents[d].return
        OBVIOUS
      <4>1. y[2] = "return"
        BY <2>1, <3>2 DEF Sides
      <4>2. d # Nil
        BY DEF NilAssumption
      <4>3. y \in {documents[d].return, documents[d].new} /\ documents[d] # Nil
        BY <2>1, <3>2, <4>2 DEF EInv, Agreed, Linked, ExchangeIsNamed
      <4>4. y # Nil
        BY <3>2 DEF NilAssumption
      <4>5. documents[d].new = y => y[2] = "sale"
        BY <2>1, <4>3, <4>4 DEF Sides
      <4> QED
        BY <4>1, <4>3, <4>5
    <3>4. R = {x}
      BY <3>1, <3>3
    <3>5. g[x] \in Int /\ DOMAIN g = {x} /\ g[x] = QuantityOf(documents[x].lines, p)
      BY <2>2, <2>3, <3>2, <3>4
    <3>6. SumFunction(g) = QuantityOf(documents[x].lines, p)
      BY <3>5, SumOne DEF SumFunction
    <3>7. /\ documents[d] # Nil /\ documents[d].original = Nil /\ documents[d].return = x
          /\ x # Nil
      BY <2>1, <3>1, <3>2, <3>3 DEF EInv, Agreed, Linked, NilAssumption
    <3>8. documents[d].new # Nil
      BY <2>1, <3>7 DEF EInv, Agreed, Linked
    <3>9. Approved(d) /\ Returnable(documents[x].lines, documents[d].lines)
      BY <2>1, <3>7, <3>8 DEF EInv, Agreed, SaleNamesItsExchange, ReturnsFit
    <3>10. QuantityOf(documents[x].lines, p) <= QuantityOf(documents[d].lines, p)
      <4>1. CASE p \in ProductsOf(documents[x].lines)
        BY <3>9, <4>1 DEF Returnable
      <4>2. CASE p \notin ProductsOf(documents[x].lines)
        <5>1. documents[x].lines \in LineChoices
          BY <2>1, <3>1, <3>2, DocumentIs DEF EInv, Shape
        <5>2. QuantityOf(documents[x].lines, p) = 0
          BY <4>2 DEF QuantityOf
        <5>3. QuantityOf(documents[d].lines, p) \in Nat
          BY <2>3, <3>7
        <5> QED
          BY <5>2, <5>3
      <4> QED
        BY <4>1, <4>2
    <3> QED
      BY <2>2, <3>6, <3>9, <3>10
  <2> QED
    BY <2>4, <2>5
<1> QED
  BY <1>1, StockInvariance, PTL

-----------------------------------------------------------------------------
(* The reports on sales.                                                   *)

\* What a sale of r is paid with: its return, once it is one of an exchange.
PaidWith(r, s, x) ==
  /\ s = Nil => x = Nil
  /\ s # Nil =>
       /\ s.received = Total(s.lines, s.prices) - s.credit
       /\ s.original = Nil => x = Nil /\ s.credit = 0
       /\ s.original # Nil =>
            /\ x # Nil /\ x.original = s.original /\ x.status = s.status
            /\ s.return = <<r, "return">> /\ s.credit = Total(x.lines, x.prices)

\* The two documents of a request come and go together.
Twins == \A r \in Requests : PaidWith(r, documents[<<r, "sale">>], documents[<<r, "return">>])

\* The opening sale came alone.
LEMMA InitTwins == Init => Twins
<1> SUFFICES ASSUME Init, NEW r \in Requests
             PROVE  PaidWith(r, documents[<<r, "sale">>], documents[<<r, "return">>])
  BY DEF Twins
<1>1. PICK n, x, o : n = <<r, "sale">> /\ x = <<r, "return">> /\ o = <<OpeningSale, "sale">>
  OBVIOUS
<1>2. n \in DocumentIds /\ x \in DocumentIds /\ x # o /\ (n = o <=> r = OpeningSale)
  BY ONLY <1>1, r \in Requests DEF DocumentIds
<1>3. PICK s : s = SaleOf(OpeningSale, OpeningLines, 0)
  OBVIOUS
<1>4. documents[x] = Nil /\ documents[n] = IF n = o THEN s ELSE Nil
  BY <1>1, <1>2, <1>3 DEF Init
<1>5. OpeningSale \in Requests /\ OpeningLines \in LineChoices
  BY DEF ExchangesAssumption
<1>6. Total(OpeningLines, Prices[OpeningSale]) >= 0
  BY <1>5, TotalIsNat
<1>7. s.original = Nil /\ Sold(s, OpeningSale, OpeningLines, 0)
  BY <1>3, <1>5, <1>6, SaleIs
<1>8. PaidWith(r, documents[n], documents[x])
  BY ONLY <1>4, <1>7 DEF PaidWith, Sold
<1> QED
  BY ONLY <1>1, <1>8

\* What goes on about a document with its side.
LEMMA SideOf ==
  ASSUME EInv, Sides, NEW d \in DocumentIds, documents[d] # Nil, documents[d].original = Nil
  PROVE  \E q \in Requests : d = <<q, "sale">>
<1>1. d[2] # "return"
  BY DEF Sides
<1>2. PICK q \in Requests, side \in {"sale", "return"} : d = <<q, side>>
  BY DEF DocumentIds
<1> QED
  BY ONLY <1>1, <1>2

\* The twins after a commit: those a commit does not write stay.
LEMMA OtherTwins ==
  ASSUME Twins, NEW q \in Requests, documents'[<<q, "sale">>] = documents[<<q, "sale">>],
         documents'[<<q, "return">>] = documents[<<q, "return">>]
  PROVE  PaidWith(q, documents'[<<q, "sale">>], documents'[<<q, "return">>])
BY DEF Twins

\* Payments of a document stay, also when its links change.
LEMMA SaleStaysPaid ==
  ASSUME NEW q, NEW s, NEW w, s # Nil, w # Nil, PaidWith(q, s, Nil), SameGoods(w, s)
  PROVE  PaidWith(q, w, Nil)
BY DEF PaidWith, SameGoods

\* The commit of a plain sale and of a void.
LEMMA SellTwins ==
  ASSUME EInv, Twins, NEW r \in Requests, Commit(r), task[r].operation = "sell"
  PROVE  Twins'
<1>1. PICK d, s : SaleWritten(r, d, s)
  BY SellWrites
<1>2. pc[r] = "commit"
  BY DEF Commit
<1>3. <<r, "return">> \in DocumentIds /\ documents[<<r, "return">>] = Nil
  BY <1>2, Committing
<1>4. <<r, "return">> # d /\ d = <<r, "sale">> /\ documents'[d] = s
  BY <1>1 DEF SaleWritten
<1>5. \A e \in DocumentIds : e # d => documents'[e] = documents[e]
  BY <1>1 DEF SaleWritten, WritesOnly
<1>6. s # Nil /\ s.original = Nil /\ Sold(s, r, task[r].lines, 0)
  BY <1>1 DEF SaleWritten
<1>7. PaidWith(r, s, Nil)
  BY ONLY <1>6 DEF PaidWith, Sold
<1>8. PaidWith(r, documents'[<<r, "sale">>], documents'[<<r, "return">>])
  BY ONLY <1>3, <1>4, <1>5, <1>7
<1>9. ASSUME NEW q \in Requests, q # r
      PROVE  PaidWith(q, documents'[<<q, "sale">>], documents'[<<q, "return">>])
  <2>1. <<q, "sale">> \in DocumentIds \ {d} /\ <<q, "return">> \in DocumentIds \ {d}
    BY ONLY <1>4, <1>9 DEF DocumentIds
  <2> QED
    BY <1>5, <2>1, OtherTwins
<1> QED
  BY <1>8, <1>9 DEF Twins

LEMMA VoidTwins ==
  ASSUME EInv, Sides, Twins, NEW r \in Requests, Commit(r), task[r].operation = "void"
  PROVE  Twins'
<1>1. PICK d, w, v : VoidWritten(r, d, w, v)
  BY VoidWrites
<1>2. /\ d \in DocumentIds /\ w = documents[d] /\ w.original = Nil /\ SameGoods(v, w)
      /\ w # Nil /\ v # Nil /\ documents'[d] = v
  BY <1>1 DEF VoidWritten
<1>3. \A e \in DocumentIds : e # d => documents'[e] = documents[e]
  BY <1>1 DEF VoidWritten, WritesOnly
<1>4. PICK q \in Requests : d = <<q, "sale">>
  BY <1>2, SideOf
<1>5. PaidWith(q, w, documents[<<q, "return">>])
  BY <1>2, <1>4 DEF Twins
<1>6. documents[<<q, "return">>] = Nil
  BY ONLY <1>2, <1>5 DEF PaidWith
<1>7. <<q, "return">> \in DocumentIds /\ <<q, "return">> # d
  BY ONLY <1>4 DEF DocumentIds
<1>8. PaidWith(q, v, Nil)
  BY ONLY <1>2, <1>5, <1>6, SaleStaysPaid
<1>9. PaidWith(q, documents'[<<q, "sale">>], documents'[<<q, "return">>])
  BY ONLY <1>2, <1>3, <1>4, <1>6, <1>7, <1>8
<1>10. ASSUME NEW z \in Requests, z # q
       PROVE  PaidWith(z, documents'[<<z, "sale">>], documents'[<<z, "return">>])
  <2>1. <<z, "sale">> \in DocumentIds \ {d} /\ <<z, "return">> \in DocumentIds \ {d}
    BY ONLY <1>4, <1>10 DEF DocumentIds
  <2> QED
    BY <1>3, <2>1, OtherTwins
<1> QED
  BY <1>9, <1>10 DEF Twins

\* The commit of an exchange makes twins, and links the sale they are of.
LEMMA ExchangeTwins ==
  ASSUME EInv, Sides, Twins, NEW r \in Requests, Commit(r), task[r].operation = "exchange"
  PROVE  Twins'
<1>1. PICK d, x, n, w, wd, wx, wn : ExchangeWritten(r, d, x, n, w, wd, wx, wn)
  BY ExchangeWrites
<1>2. /\ d \in DocumentIds /\ w = documents[d] /\ w.original = Nil /\ SameGoods(wd, w)
      /\ w # Nil /\ wd # Nil /\ documents'[d] = wd /\ documents'[x] = wx /\ documents'[n] = wn
      /\ x = <<r, "return">> /\ n = <<r, "sale">> /\ documents[n] = Nil
  BY <1>1 DEF ExchangeWritten
<1>3. \A e \in DocumentIds : e \notin {d, x, n} => documents'[e] = documents[e]
  BY <1>1 DEF ExchangeWritten, WritesOnly
<1>4. PICK q \in Requests : d = <<q, "sale">>
  BY <1>2, SideOf
<1>5. q # r
  BY <1>2, <1>4
<1>6. PaidWith(q, w, documents[<<q, "return">>])
  BY <1>2, <1>4 DEF Twins
<1>7. documents[<<q, "return">>] = Nil
  BY ONLY <1>2, <1>6 DEF PaidWith
<1>8. \A z \in Requests : /\ <<z, "return">> \in DocumentIds /\ <<z, "sale">> \in DocumentIds
                          /\ <<z, "return">> # d /\ <<z, "return">> # n /\ <<z, "sale">> # x
                          /\ (<<z, "sale">> = d => z = q) /\ (<<z, "sale">> = n => z = r)
                          /\ (<<z, "return">> = x => z = r)
  BY ONLY <1>2, <1>4 DEF DocumentIds
<1>9. PaidWith(q, wd, Nil)
  BY ONLY <1>2, <1>6, <1>7, SaleStaysPaid
<1>10. PaidWith(q, documents'[<<q, "sale">>], documents'[<<q, "return">>])
  <2>1. documents'[<<q, "return">>] = Nil
    BY <1>3, <1>5, <1>7, <1>8
  <2> QED
    BY ONLY <1>2, <1>4, <1>9, <2>1
<1>11. /\ wx # Nil /\ wx.original = d /\ wx.status = "approved" /\ wx.lines = task[r].returned
       /\ wx.prices = w.prices /\ wn # Nil /\ wn.original = d /\ wn.return = x
       /\ Sold(wn, r, task[r].lines, Total(task[r].returned, w.prices))
  BY <1>1 DEF ExchangeWritten
<1>12. d # Nil
  BY <1>2 DEF NilAssumption
<1>13. PaidWith(r, wn, wx)
  BY ONLY <1>2, <1>11, <1>12 DEF PaidWith, Sold
<1>14. PaidWith(r, documents'[<<r, "sale">>], documents'[<<r, "return">>])
  BY ONLY <1>2, <1>13
<1>15. ASSUME NEW z \in Requests, z # q, z # r
       PROVE  PaidWith(z, documents'[<<z, "sale">>], documents'[<<z, "return">>])
  <2>1. documents'[<<z, "sale">>] = documents[<<z, "sale">>]
    BY <1>3, <1>8, <1>15
  <2>2. documents'[<<z, "return">>] = documents[<<z, "return">>]
    BY <1>3, <1>8, <1>15
  <2> QED
    BY <2>1, <2>2, OtherTwins
<1> QED
  BY <1>10, <1>14, <1>15 DEF Twins

\* The commit of a reversal voids both.
LEMMA RevertTwins ==
  ASSUME EInv, Sides, Twins, NEW r \in Requests, Commit(r), task[r].operation = "revert"
  PROVE  Twins'
<1>1. PICK d, x, n, vd, vx, vn, wd, wx, wn : ReversalWritten(r, d, x, n, vd, vx, vn, wd, wx, wn)
  BY RevertWrites
<1>2. /\ d \in DocumentIds /\ x \in DocumentIds /\ n \in DocumentIds /\ d # n
      /\ vd = documents[d] /\ vx = documents[x] /\ vn = documents[n]
      /\ vd # Nil /\ vx # Nil /\ vn # Nil /\ vd.original = Nil /\ vd.return = x /\ vd.new = n
      /\ vn.original = d /\ vn.return = x
      /\ SameGoods(wd, vd) /\ SameGoods(wx, vx) /\ SameGoods(wn, vn)
      /\ wx.status = "voided" /\ wn.status = "voided" /\ wn.return = x
      /\ wd # Nil /\ wx # Nil /\ wn # Nil
      /\ documents'[d] = wd /\ documents'[x] = wx /\ documents'[n] = wn
  BY <1>1 DEF ReversalWritten
<1>3. \A e \in DocumentIds : e \notin {d, x, n} => documents'[e] = documents[e]
  BY <1>1 DEF ReversalWritten, WritesOnly
<1>4. PICK q \in Requests : d = <<q, "sale">>
  BY <1>2, SideOf
<1>5. n[2] = "sale"
  <2>1. n # Nil
    BY <1>2 DEF NilAssumption
  <2> QED
    BY <1>2, <2>1 DEF Sides
<1>6. PICK o \in Requests : n = <<o, "sale">>
  BY <1>2, <1>5 DEF DocumentIds
<1>7. PaidWith(o, vn, documents[<<o, "return">>])
  BY <1>2, <1>6 DEF Twins
<1>8. d # Nil
  BY <1>2 DEF NilAssumption
<1>9. x = <<o, "return">>
  BY ONLY <1>2, <1>7, <1>8 DEF PaidWith
<1>10. PaidWith(q, vd, documents[<<q, "return">>])
  BY <1>2, <1>4 DEF Twins
<1>11. documents[<<q, "return">>] = Nil
  BY ONLY <1>2, <1>10 DEF PaidWith
<1>12. o # q
  BY ONLY <1>2, <1>4, <1>6
<1>13. \A z \in Requests : /\ <<z, "return">> \in DocumentIds /\ <<z, "sale">> \in DocumentIds
                           /\ <<z, "return">> # d /\ <<z, "return">> # n /\ <<z, "sale">> # x
                           /\ (<<z, "sale">> = d => z = q) /\ (<<z, "sale">> = n => z = o)
                           /\ (<<z, "return">> = x => z = o)
  BY ONLY <1>4, <1>6, <1>9 DEF DocumentIds
<1>14. PaidWith(q, documents'[<<q, "sale">>], documents'[<<q, "return">>])
  <2>1. documents'[<<q, "return">>] = Nil
    BY <1>3, <1>11, <1>12, <1>13
  <2>2. PaidWith(q, wd, Nil)
    BY ONLY <1>2, <1>10, <1>11, SaleStaysPaid
  <2> QED
    BY ONLY <1>2, <1>4, <2>1, <2>2
<1>15. PaidWith(o, documents'[<<o, "sale">>], documents'[<<o, "return">>])
  <2>1. PaidWith(o, vn, vx)
    BY ONLY <1>2, <1>7, <1>9
  <2>2. PaidWith(o, wn, wx)
    BY ONLY <1>2, <1>8, <1>9, <2>1 DEF PaidWith, SameGoods
  <2> QED
    BY ONLY <1>2, <1>6, <1>9, <2>2
<1>16. ASSUME NEW z \in Requests, z # q, z # o
       PROVE  PaidWith(z, documents'[<<z, "sale">>], documents'[<<z, "return">>])
  <2>1. documents'[<<z, "sale">>] = documents[<<z, "sale">>]
    BY <1>3, <1>13, <1>16
  <2>2. documents'[<<z, "return">>] = documents[<<z, "return">>]
    BY <1>3, <1>13, <1>16
  <2> QED
    BY <2>1, <2>2, OtherTwins
<1> QED
  BY <1>14, <1>15, <1>16 DEF Twins

\* Every step keeps them together.
LEMMA StepTwins == ASSUME EInv, Sides, Twins, [Next]_vars PROVE Twins'
<1>1. ASSUME NEW r \in Requests, Commit(r) PROVE Twins'
  <2>1. task[r].operation \in {"sell", "exchange", "revert", "void"}
    BY <1>1, Committing DEF Commit, Task
  <2> QED
    BY <1>1, <2>1, SellTwins, VoidTwins, ExchangeTwins, RevertTwins
<1>2. ASSUME documents' = documents PROVE Twins'
  BY <1>2 DEF Twins
<1>3. CASE UNCHANGED vars
  BY <1>2, <1>3 DEF vars, committed
<1>4. ASSUME NEW r \in Requests, SaleRequests(r) \/ Lock(r) \/ Rollback(r)
      PROVE  documents' = documents
  BY <1>4 DEF SaleRequests, Sell, Exchange, Revert, Void, Start, Lock, Rollback, committed
<1>5. ASSUME NEW r \in Requests, Refuse(r) \/ Abort(r) \/ DeadlockVictim(r)
      PROVE  Rollback(r)
  BY <1>5 DEF Refuse, Abort, DeadlockVictim
<1> QED
  BY <1>1, <1>2, <1>3, <1>4, <1>5 DEF Next, Step
-----------------------------------------------------------------------------
(* What each report tells of one sale.                                     *)

\* The sales and the returns in force.
InForce(side) == {d \in DocumentIds : d[2] = side /\ Approved(d)}

\* What a document in force was paid with.
Received == [d \in DocumentIds |-> IF Approved(d) THEN documents[d].received ELSE 0]

\* A document in force, and its lines, prices and money.
LEMMA ForceIs ==
  ASSUME StockInv, NEW d \in DocumentIds, documents[d] # Nil
  PROVE  /\ documents[d].status # "voided" <=> Approved(d)
         /\ documents[d].kind = "egreso" <=> d[2] = "sale"
         /\ documents[d].kind = "ingreso" <=> d[2] = "return"
         /\ documents[d].received \in Nat /\ documents[d].credit \in Nat
         /\ documents[d].lines \in LineChoices /\ documents[d].status \in {"approved", "voided"}
         /\ LineTotal(d) \in Nat
<1>1. documents[d] \in Document
  BY DEF StockInv, EInv, Shape
<1>2. PICK r \in Requests : documents[d].prices = Prices[r]
  BY DEF StockInv, EInv, Shape
<1>3. documents[d].status \in {"approved", "voided"}
  BY <1>1 DEF Document
<1>4. documents[d].received \in Nat /\ documents[d].credit \in Nat /\ documents[d].lines \in LineChoices
  BY <1>1, DocumentIs
<1>5. LineTotal(d) \in Nat
  BY <1>2, <1>4, TotalIsNat DEF LineTotal
<1>6. d[2] \in {"sale", "return"}
  BY DEF DocumentIds
<1>7. documents[d].kind = IF d[2] = "return" THEN "ingreso" ELSE "egreso"
  BY DEF StockInv, Sides
<1> QED
  BY <1>3, <1>4, <1>5, <1>6, <1>7 DEF Approved, Exists

\* What is in force of the returns of a sale's original.
Brought(d) == {x \in DocumentIds : /\ Approved(x) /\ documents[x].kind = "ingreso"
                                   /\ documents[x].original = documents[d].original}

\* The return in force of an exchange is the one made with it.
LEMMA BroughtIs ==
  ASSUME StockInv, Twins, NEW r \in Requests, Approved(<<r, "sale">>),
         documents[<<r, "sale">>].original # Nil
  PROVE  /\ Brought(<<r, "sale">>) = {<<r, "return">>} /\ Approved(<<r, "return">>)
         /\ documents[<<r, "sale">>].credit = LineTotal(<<r, "return">>)
<1>1. PICK d, x : d = <<r, "sale">> /\ x = <<r, "return">>
  OBVIOUS
<1>2. d \in DocumentIds /\ x \in DocumentIds /\ x[2] = "return" /\ d[2] = "sale"
  BY ONLY <1>1, r \in Requests DEF DocumentIds
<1>3. EInv /\ Sides
  BY DEF StockInv
<1>4. Approved(d) /\ documents[d] # Nil /\ documents[d].original # Nil /\ documents[d].status = "approved"
  BY <1>1 DEF Approved, Exists
<1>5. /\ documents[x] # Nil /\ documents[x].original = documents[d].original
      /\ documents[x].status = "approved" /\ documents[d].credit = Total(documents[x].lines, documents[x].prices)
  BY <1>1, <1>4 DEF Twins, PaidWith
<1>6. Approved(x) /\ documents[d].credit = LineTotal(x) /\ documents[x].kind = "ingreso"
  BY <1>2, <1>3, <1>5 DEF Approved, Exists, LineTotal, Sides
<1>7. PICK o \in DocumentIds : /\ documents[x].original = o /\ documents[o] # Nil
                               /\ documents[o].original = Nil
  BY <1>2, <1>3, <1>4, <1>5, OriginalIs
<1>8. \A y \in Brought(d) : y = documents[o].return
  <2> SUFFICES ASSUME NEW y \in Brought(d) PROVE y = documents[o].return
    OBVIOUS
  <2>1. y \in DocumentIds /\ documents[y] # Nil /\ documents[y].status = "approved"
        /\ documents[y].kind = "ingreso" /\ documents[y].original = o
    BY <1>5, <1>7 DEF Brought, Approved, Exists
  <2>2. y[2] = "return" /\ y # Nil /\ o # Nil
    BY <1>3, <1>7, <2>1 DEF Sides, NilAssumption
  <2>3. y \in {documents[o].return, documents[o].new}
    BY <1>3, <2>1, <2>2, OriginalIs
  <2>4. documents[o].new = y => y[2] = "sale"
    BY <1>3, <1>7, <2>2 DEF Sides
  <2> QED
    BY ONLY <2>2, <2>3, <2>4
<1>9. x \in Brought(d)
  BY <1>2, <1>5, <1>6 DEF Brought
<1>10. Brought(d) = {x}
  BY <1>8, <1>9
<1> QED
  BY ONLY <1>1, <1>6, <1>10

\* What came back is worth what it is credited with.
LEMMA ReturnedIs ==
  ASSUME StockInv, Twins, NEW r \in Requests, Approved(<<r, "sale">>),
         documents[<<r, "sale">>].original # Nil
  PROVE  ReturnedAmount(<<r, "sale">>) = documents[<<r, "sale">>].credit
<1>1. PICK d, x : d = <<r, "sale">> /\ x = <<r, "return">>
  OBVIOUS
<1>2. Brought(d) = {x} /\ Approved(x) /\ documents[d].credit = LineTotal(x) /\ x \in DocumentIds
  BY <1>1, BroughtIs DEF DocumentIds
<1>3. LineTotal(x) \in Nat
  BY <1>2, ForceIs DEF Approved, Exists
<1>4. PICK g : g = [e \in Brought(d) |-> LineTotal(e)]
  OBVIOUS
<1>5. DOMAIN g = {x} /\ g[x] = LineTotal(x)
  BY <1>2, <1>4
<1>6. SumFunction(g) = LineTotal(x)
  BY <1>3, <1>5, SumOne DEF SumFunction
<1>7. ReturnedAmount(d) = SumFunction(g)
  BY <1>4 DEF ReturnedAmount, SumOf, Brought
<1> QED
  BY ONLY <1>1, <1>2, <1>6, <1>7

\* The net amount by the links and the cash by the credit are what the
\* customer paid.
LEMMA SaleTold ==
  ASSUME StockInv, Twins, NEW d \in InForce("sale")
  PROVE  /\ NetAmount(d) = Received[d] /\ Collected(d) = Received[d] /\ Received[d] \in Nat
         /\ LineTotal(d) = Received[d] + documents[d].credit
<1>1. d \in DocumentIds /\ Approved(d) /\ documents[d] # Nil /\ d[2] = "sale"
  BY DEF InForce, Approved, Exists
<1>2. PICK r \in Requests : d = <<r, "sale">>
  BY <1>1 DEF DocumentIds
<1>3. PICK s, x : s = documents[d] /\ x = documents[<<r, "return">>]
  OBVIOUS
<1>4. PaidWith(r, s, x)
  BY <1>2, <1>3 DEF Twins
<1>5. /\ LineTotal(d) \in Nat /\ s.credit \in Nat /\ s.received \in Nat /\ LineTotal(d) = Total(s.lines, s.prices)
  BY <1>1, <1>3, ForceIs DEF LineTotal
<1>6. s.received = LineTotal(d) - s.credit
  BY ONLY <1>1, <1>3, <1>4, <1>5 DEF PaidWith
<1>7. Received[d] = s.received
  BY <1>1, <1>3 DEF Received
<1>8. s.original = Nil => s.credit = 0
  BY ONLY <1>1, <1>3, <1>4 DEF PaidWith
<1>9. s.original # Nil => ReturnedAmount(d) = s.credit
  BY <1>1, <1>2, <1>3, ReturnedIs
<1>10. NetAmount(d) = s.received
  BY ONLY <1>3, <1>5, <1>6, <1>8, <1>9 DEF NetAmount
<1>11. Credit(d) = s.credit
  BY ONLY <1>3, <1>5, <1>8, <1>9 DEF Credit
<1>12. Collected(d) = s.received
  BY ONLY <1>5, <1>6, <1>11 DEF Collected
<1> QED
  BY ONLY <1>3, <1>5, <1>6, <1>7, <1>10, <1>12
-----------------------------------------------------------------------------
(* Sums over the sales of a period.                                        *)

\* What the sales of a set are told to have brought, by the links and by the
\* credit.
NetOf(S) == SumFunction([d \in S |-> NetAmount(d)])
CollectedOf(S) == SumFunction([d \in S |-> Collected(d)])

\* The sales and the returns of some days.
OnDays(side, K) == {d \in InForce(side) : DayOf[d[1]] \in K}

LEMMA FiniteForce ==
  ASSUME IsFiniteSet(Requests), NEW side, NEW K
  PROVE  IsFiniteSet(InForce(side)) /\ IsFiniteSet(OnDays(side, K))
BY FiniteDocuments, FS_Subset DEF InForce, OnDays

\* Whichever way it is told, it is what was paid.
LEMMA NetIsPaid ==
  ASSUME StockInv, Twins, IsFiniteSet(Requests), NEW S, S \subseteq InForce("sale")
  PROVE  /\ NetOf(S) = SumFunctionOnSet(Received, S)
         /\ CollectedOf(S) = SumFunctionOnSet(Received, S)
         /\ IsFiniteSet(S) /\ \A d \in S : Received[d] \in Int
<1>1. IsFiniteSet(S)
  BY FiniteForce, FS_Subset
<1>2. \A d \in S : NetAmount(d) = Received[d] /\ Collected(d) = Received[d] /\ Received[d] \in Nat
  BY SaleTold
<1>3. PICK f, g : f = [d \in S |-> NetAmount(d)] /\ g = [d \in S |-> Collected(d)]
  OBVIOUS
<1>4. DOMAIN f = S /\ DOMAIN g = S /\ \A d \in S : f[d] = Received[d] /\ g[d] = Received[d]
  BY <1>2, <1>3
<1>5. SumFunctionOnSet(f, S) = SumFunctionOnSet(Received, S)
  BY <1>1, <1>4, SumEqual
<1>6. SumFunctionOnSet(g, S) = SumFunctionOnSet(Received, S)
  BY <1>1, <1>4, SumEqual
<1> QED
  BY <1>1, <1>2, <1>3, <1>4, <1>5, <1>6 DEF NetOf, CollectedOf, SumFunction

\* Every document is dated.
LEMMA DatedIs ==
  \A d \in DocumentIds : d[1] \in Requests /\ DayOf[d[1]] \in Days /\ DayOf[d[1]] \in Nat
BY SalesReportsAssumption DEF DocumentIds

\* The sales and the returns of a period are those of its days.
LEMMA PeriodIs ==
  ASSUME StockInv, NEW a \in Days, NEW b \in Days
  PROVE  /\ Sales(<<a, b>>) = OnDays("sale", {y \in Days : y \in a..b})
         /\ Returns(<<a, b>>) = OnDays("return", {y \in Days : y \in a..b})
<1>1. PICK K : K = {y \in Days : y \in a..b}
  OBVIOUS
<1>2. \A d \in DocumentIds : Kept(d, <<a, b>>) <=> Approved(d) /\ DayOf[d[1]] \in K
  BY <1>1, ForceIs, DatedIs DEF Kept, CreatedIn, Approved, Exists
<1>3. \A d \in DocumentIds : Approved(d) => /\ documents[d].kind = "egreso" <=> d[2] = "sale"
                                            /\ documents[d].kind = "ingreso" <=> d[2] = "return"
  BY ForceIs DEF Approved, Exists
<1>4. Sales(<<a, b>>) = OnDays("sale", K)
  BY <1>2, <1>3 DEF Sales, OnDays, InForce
<1>5. Returns(<<a, b>>) = OnDays("return", K)
  BY <1>2, <1>3 DEF Returns, OnDays, InForce
<1> QED
  BY <1>1, <1>4, <1>5

\* The closing of a day.
LEMMA ClosingIs ==
  ASSUME StockInv, NEW y \in Days
  PROVE  ClosingTotal(y) = CollectedOf(OnDays("sale", {y}))
<1>1. {z \in Days : z \in y..y} = {y}
  BY SalesReportsAssumption
<1>2. Sales(<<y, y>>) = OnDays("sale", {y})
  BY <1>1, PeriodIs
<1> QED
  BY <1>2 DEF ClosingTotal, SumOf, CollectedOf

\* The closings of some days are what was paid on these days.
LEMMA ClosingsAre ==
  ASSUME StockInv, Twins, IsFiniteSet(Requests), NEW K \in SUBSET Days
  PROVE  SumFunction([y \in K |-> ClosingTotal(y)]) = SumFunctionOnSet(Received, OnDays("sale", K))
<1>1. PICK S, key, part, h :
        /\ S = OnDays("sale", K) /\ key = [d \in DocumentIds |-> DayOf[d[1]]]
        /\ part = [y \in K |-> OnDays("sale", {y})] /\ h = [y \in K |-> ClosingTotal(y)]
  OBVIOUS
<1>2. S \subseteq InForce("sale") /\ S \subseteq DocumentIds /\ IsFiniteSet(K)
  BY <1>1, SalesReportsAssumption, FS_Subset DEF OnDays, InForce
<1>3. IsFiniteSet(S) /\ \A d \in S : Received[d] \in Int
  BY <1>2, NetIsPaid
<1>4. ASSUME NEW y \in K PROVE h[y] = SumFunctionOnSet(Received, part[y])
  <2>1. OnDays("sale", {y}) \subseteq InForce("sale")
    BY DEF OnDays
  <2>2. CollectedOf(OnDays("sale", {y})) = SumFunctionOnSet(Received, OnDays("sale", {y}))
    BY <2>1, NetIsPaid
  <2>3. h[y] = ClosingTotal(y) /\ part[y] = OnDays("sale", {y})
    BY <1>1
  <2> QED
    BY <2>2, <2>3, ClosingIs
<1>5. InParts(S, K, key, part)
  <2>1. \A x \in S : key[x] \in K
    BY <1>1, <1>2 DEF OnDays
  <2>2. \A y \in K : \A x : x \in part[y] <=> x \in S /\ key[x] = y
    BY <1>1, <1>2 DEF OnDays, InForce
  <2> QED
    BY <2>1, <2>2 DEF InParts
<1>6. SumFunctionOnSet(Received, S) = SumFunctionOnSet(h, K)
  BY ONLY <1>2, <1>3, <1>4, <1>5, SumParts
<1>7. DOMAIN h = K
  BY <1>1
<1> QED
  BY <1>1, <1>6, <1>7 DEF SumFunction

\* What was paid on some days is what was sold less what was brought back.
LEMMA SoldLessReturned ==
  ASSUME StockInv, Twins, IsFiniteSet(Requests), NEW K
  PROVE  SumFunctionOnSet(Received, OnDays("sale", K)) =
           SumFunction([d \in OnDays("sale", K) |-> LineTotal(d)])
             - SumFunction([d \in OnDays("return", K) |-> LineTotal(d)])
<1>1. PICK S, T, E, P : /\ S = OnDays("sale", K) /\ T = OnDays("return", K)
                        /\ E = {d \in S : documents[d].original # Nil} /\ P = S \ E
  OBVIOUS
<1>2. PICK f, g, b : /\ f = [d \in S |-> LineTotal(d)] /\ g = [d \in T |-> LineTotal(d)]
                     /\ b = [d \in S |-> <<d[1], "return">>]
  OBVIOUS
<1>3. PICK c : c = [d \in S |-> documents[d].credit]
  OBVIOUS
<1>4. S \subseteq InForce("sale") /\ IsFiniteSet(S) /\ IsFiniteSet(E) /\ IsFiniteSet(P) /\ IsFiniteSet(T)
      /\ S = E \cup P /\ E \cap P = {}
  BY <1>1, FiniteForce, FS_Subset DEF OnDays
<1>5. \A d \in S : \E r \in Requests : /\ d = <<r, "sale">> /\ Approved(d) /\ documents[d] # Nil
                                       /\ d \in DocumentIds /\ DayOf[r] \in K
  BY <1>1 DEF OnDays, InForce, DocumentIds, Approved, Exists
<1>6. \A d \in S : /\ f[d] \in Int /\ c[d] \in Int /\ Received[d] \in Int
                   /\ Received[d] = f[d] - c[d] /\ f[d] = LineTotal(d) /\ c[d] = documents[d].credit
  <2> SUFFICES ASSUME NEW d \in S
               PROVE  /\ f[d] \in Int /\ c[d] \in Int /\ Received[d] \in Int
                      /\ Received[d] = f[d] - c[d] /\ f[d] = LineTotal(d) /\ c[d] = documents[d].credit
    OBVIOUS
  <2>1. f[d] = LineTotal(d) /\ c[d] = documents[d].credit
    BY <1>2, <1>3
  <2>2. LineTotal(d) \in Nat /\ documents[d].credit \in Nat
    BY <1>5, ForceIs
  <2>3. Received[d] \in Nat /\ LineTotal(d) = Received[d] + documents[d].credit
    BY <1>4, SaleTold
  <2> QED
    BY ONLY <2>1, <2>2, <2>3
<1>7. SumFunctionOnSet(Received, S) = SumFunctionOnSet(f, S) - SumFunctionOnSet(c, S)
  BY ONLY <1>4, <1>6, SumDifference
<1>8. SumFunctionOnSet(c, S) = SumFunctionOnSet(c, E) + SumFunctionOnSet(c, P)
  <2>1. SumFunctionOnSet(c, E \cup P) = SumFunctionOnSet(c, E) + SumFunctionOnSet(c, P)
    BY <1>4, <1>6, SumUnion
  <2> QED
    BY <1>4, <2>1
<1>9. SumFunctionOnSet(c, P) = 0
  <2>1. \A d \in P : c[d] = 0
    <3> SUFFICES ASSUME NEW d \in P PROVE documents[d].credit = 0
      BY <1>1, <1>6
    <3>1. d \in S /\ documents[d].original = Nil
      BY <1>1
    <3>2. PICK r \in Requests : d = <<r, "sale">> /\ documents[d] # Nil
      BY <1>5, <3>1
    <3>3. PaidWith(r, documents[d], documents[<<r, "return">>])
      BY <3>2 DEF Twins
    <3> QED
      BY ONLY <3>1, <3>2, <3>3 DEF PaidWith
  <2> QED
    BY <1>4, <2>1, SumZero
<1>10. \A d \in E : b[d] \in T /\ g[b[d]] = c[d]
  <2> SUFFICES ASSUME NEW d \in E PROVE b[d] \in T /\ g[b[d]] = c[d]
    OBVIOUS
  <2>1. d \in S /\ documents[d].original # Nil
    BY <1>1
  <2>2. PICK r \in Requests : d = <<r, "sale">> /\ Approved(d) /\ DayOf[r] \in K
    BY <1>5, <2>1
  <2>3. Approved(<<r, "return">>) /\ documents[d].credit = LineTotal(<<r, "return">>)
    BY <2>1, <2>2, BroughtIs
  <2>4. b[d] = <<r, "return">> /\ <<r, "return">> \in DocumentIds
    BY <1>2, <2>1, <2>2 DEF DocumentIds
  <2>5. <<r, "return">> \in T
    BY <1>1, <2>2, <2>3, <2>4 DEF OnDays, InForce
  <2>6. g[<<r, "return">>] = LineTotal(<<r, "return">>)
    BY <1>2, <2>5
  <2> QED
    BY <1>6, <2>1, <2>3, <2>4, <2>5, <2>6
<1>11. \A y \in T : \E d \in E : b[d] = y
  <2> SUFFICES ASSUME NEW y \in T PROVE \E d \in E : b[d] = y
    OBVIOUS
  <2>1. y \in DocumentIds /\ y[2] = "return" /\ documents[y] # Nil /\ documents[y].status = "approved"
        /\ DayOf[y[1]] \in K
    BY <1>1 DEF OnDays, InForce, Approved, Exists
  <2>2. PICK r \in Requests : y = <<r, "return">>
    BY <2>1 DEF DocumentIds
  <2>3. PaidWith(r, documents[<<r, "sale">>], documents[y])
    BY <2>2 DEF Twins
  <2>4. /\ documents[<<r, "sale">>] # Nil /\ documents[<<r, "sale">>].original # Nil
        /\ documents[<<r, "sale">>].status = "approved"
    BY ONLY <2>1, <2>3 DEF PaidWith
  <2>5. <<r, "sale">> \in S
    BY <1>1, <2>1, <2>2, <2>4 DEF OnDays, InForce, Approved, Exists, DocumentIds
  <2>6. <<r, "sale">> \in E /\ b[<<r, "sale">>] = <<r, "return">>
    BY <1>1, <1>2, <2>4, <2>5
  <2> QED
    BY <2>2, <2>6
<1>12. \A d, e \in E : b[d] = b[e] => d = e
  <2> SUFFICES ASSUME NEW d \in E, NEW e \in E, b[d] = b[e] PROVE d = e
    OBVIOUS
  <2>1. PICK q \in Requests : d = <<q, "sale">>
    BY <1>1, <1>5
  <2>2. PICK r \in Requests : e = <<r, "sale">>
    BY <1>1, <1>5
  <2>3. b[d] = <<q, "return">> /\ b[e] = <<r, "return">>
    BY <1>1, <1>2, <2>1, <2>2
  <2> QED
    BY <2>1, <2>2, <2>3
<1>13. Renames(b, E, T)
  BY ONLY <1>10, <1>11, <1>12 DEF Renames
<1>14. SumFunctionOnSet(g, T) = SumFunctionOnSet(c, E)
  BY ONLY <1>1, <1>4, <1>6, <1>10, <1>13, SumRenamed
<1>15. SumFunctionOnSet(c, E) \in Int /\ SumFunctionOnSet(f, S) \in Int
  BY <1>1, <1>4, <1>6, SumType
<1>16. SumFunction(f) = SumFunctionOnSet(f, S) /\ SumFunction(g) = SumFunctionOnSet(g, T)
  BY <1>2 DEF SumFunction
<1>17. SumFunctionOnSet(Received, S) = SumFunction(f) - SumFunction(g)
  BY ONLY <1>7, <1>8, <1>9, <1>14, <1>15, <1>16
<1> QED
  BY ONLY <1>1, <1>2, <1>17
-----------------------------------------------------------------------------
(* The reports agree.                                                      *)

\* What the links net, the credits leave and the lines differ by.
LEMMA PeriodsAgreeIs == ASSUME StockInv, Twins, IsFiniteSet(Requests) PROVE PeriodsAgree
<1> SUFFICES ASSUME NEW range \in Ranges
             PROVE  /\ SalesTotal(range) = SumOf(ClosingTotal, {y \in Days : y \in range[1]..range[2]})
                    /\ SalesTotal(range) = AmountOf("egreso", range) - AmountOf("ingreso", range)
  BY DEF PeriodsAgree
<1>1. PICK a \in Days, b \in Days : range = <<a, b>>
  BY DEF Ranges
<1>2. PICK K : K = {y \in Days : y \in a..b}
  OBVIOUS
<1>3. Sales(range) = OnDays("sale", K) /\ Returns(range) = OnDays("return", K)
  BY <1>1, <1>2, PeriodIs
<1>4. OnDays("sale", K) \subseteq InForce("sale") /\ K \in SUBSET Days
  BY <1>2 DEF OnDays
<1>5. SalesTotal(range) = SumFunctionOnSet(Received, OnDays("sale", K))
  <2>1. SalesTotal(range) = NetOf(OnDays("sale", K))
    BY <1>3 DEF SalesTotal, SumOf, NetOf
  <2> QED
    BY <1>4, <2>1, NetIsPaid
<1>6. SumOf(ClosingTotal, K) = SumFunction([y \in K |-> ClosingTotal(y)])
  BY DEF SumOf
<1>7. AmountOf("egreso", range) = SumFunction([d \in OnDays("sale", K) |-> LineTotal(d)])
  BY <1>3 DEF AmountOf, SumOf
<1>8. AmountOf("ingreso", range) = SumFunction([d \in OnDays("return", K) |-> LineTotal(d)])
  BY <1>3 DEF AmountOf, SumOf
<1>9. {y \in Days : y \in range[1]..range[2]} = K
  BY <1>1, <1>2
<1>10. SalesTotal(range) = SumOf(ClosingTotal, K)
  BY <1>4, <1>5, <1>6, ClosingsAre
<1>11. SalesTotal(range) = AmountOf("egreso", range) - AmountOf("ingreso", range)
  BY <1>5, <1>7, <1>8, SoldLessReturned
<1> QED
  BY <1>9, <1>10, <1>11

\* The closings of all days are what the drawer holds: returns are not paid.
LEMMA DrawerAgreesIs == ASSUME StockInv, Twins, IsFiniteSet(Requests) PROVE DrawerAgrees
<1>1. PICK S, T : S = OnDays("sale", Days) /\ T = DocumentIds \ S
  OBVIOUS
<1>2. S \subseteq InForce("sale") /\ IsFiniteSet(S) /\ IsFiniteSet(T) /\ S \cup T = DocumentIds /\ S \cap T = {}
  BY <1>1, FiniteForce, FiniteDocuments, FS_Subset DEF OnDays, InForce
<1>3. EInv /\ Sides /\ Books
  BY DEF StockInv
<1>4. Takings = Received
  BY DEF Takings, Received
<1>5. \A d \in DocumentIds : Takings[d] \in Int
  BY <1>3, SharesAre
<1>6. \A d \in T : Takings[d] = 0
  <2> SUFFICES ASSUME NEW d \in T, Approved(d) PROVE documents[d].received = 0
    BY <1>2 DEF Takings
  <2>1. d \in DocumentIds /\ documents[d] # Nil /\ DayOf[d[1]] \in Days
    BY <1>2, DatedIs DEF Approved, Exists
  <2>2. d[2] # "sale"
    BY <1>1, <2>1 DEF OnDays, InForce
  <2>3. d[2] = "return"
    BY <2>1, <2>2 DEF DocumentIds
  <2> QED
    BY <1>3, <2>1, <2>3 DEF Sides
<1>7. SumFunctionOnSet(Takings, T) = 0 /\ SumFunctionOnSet(Takings, S) \in Int
  BY <1>2, <1>5, <1>6, SumZero, SumType
<1>8. SumFunctionOnSet(Takings, S \cup T) = SumFunctionOnSet(Takings, S) + SumFunctionOnSet(Takings, T)
  BY <1>2, <1>5, SumUnion
<1>9. drawer = SumFunctionOnSet(Received, S)
  <2>1. drawer = SumFunctionOnSet(Takings, S \cup T)
    BY <1>2, <1>3 DEF Books
  <2> QED
    BY ONLY <1>4, <1>7, <1>8, <2>1
<1>10. SumOf(ClosingTotal, Days) = SumFunction([y \in Days |-> ClosingTotal(y)])
  BY DEF SumOf
<1> QED
  BY <1>1, <1>9, <1>10, ClosingsAre DEF DrawerAgrees

\* One group of sales.
Group(S, key, k) == {d \in S : key[d] = k}

\* Groups that leave no sale out.
LEMMA GroupsAre ==
  ASSUME StockInv, Twins, IsFiniteSet(Requests), NEW S, S \subseteq InForce("sale"),
         NEW K, IsFiniteSet(K), NEW key, \A d \in S : key[d] \in K
  PROVE  NetOf(S) = SumFunction([k \in K |-> NetOf(Group(S, key, k))])
<1>1. PICK part, h : part = [k \in K |-> Group(S, key, k)] /\ h = [k \in K |-> NetOf(Group(S, key, k))]
  OBVIOUS
<1>2. IsFiniteSet(S) /\ (\A d \in S : Received[d] \in Int) /\ NetOf(S) = SumFunctionOnSet(Received, S)
  BY NetIsPaid
<1>3. ASSUME NEW k \in K PROVE h[k] = SumFunctionOnSet(Received, part[k])
  <2>1. Group(S, key, k) \subseteq InForce("sale")
    BY DEF Group
  <2> QED
    BY <1>1, <2>1, NetIsPaid
<1>4. InParts(S, K, key, part)
  BY <1>1 DEF InParts, Group
<1>5. SumFunctionOnSet(Received, S) = SumFunctionOnSet(h, K)
  BY <1>2, <1>3, <1>4, SumParts
<1>6. SumFunction(h) = SumFunctionOnSet(h, K)
  BY <1>1 DEF SumFunction
<1> QED
  BY <1>1, <1>2, <1>5, <1>6

\* What a function makes of finitely many arguments is finite.
LEMMA FiniteImage ==
  ASSUME NEW S, IsFiniteSet(S), NEW f PROVE IsFiniteSet({f[x] : x \in S})
<1>1. PICK g, T : g = [x \in S |-> f[x]] /\ T = {f[x] : x \in S}
  OBVIOUS
<1>2. g \in Surjection(S, T)
  BY <1>1 DEF Surjection
<1>3. IsFiniteSet(T)
  BY <1>2, FS_Surjection
<1> QED
  BY <1>1, <1>3

\* The seller of a sale is a seller.
LEMMA SellerIs ==
  ASSUME StockInv, NEW d \in DocumentIds, documents[d] # Nil PROVE Seller(d) \in Sellers
<1>1. documents[d].original \in Link
  BY DEF StockInv, EInv, Shape, Document
<1>2. d[1] \in Requests /\ \A e \in DocumentIds : e[1] \in Requests
  BY DatedIs
<1> QED
  BY <1>1, <1>2 DEF Seller, Sellers, Link

\* The documents of a period, of a kind and with a status, are counted twice over.
LEMMA CountsAre ==
  ASSUME StockInv, IsFiniteSet(Requests), NEW range
  PROVE  MovementCount("ingreso", range) + MovementCount("egreso", range) =
           StatusCount("approved", range) + StatusCount("voided", range)
<1>1. PICK A, B, C, D :
        /\ A = {d \in DocumentIds : CreatedIn(d, range) /\ documents[d].kind = "ingreso"}
        /\ B = {d \in DocumentIds : CreatedIn(d, range) /\ documents[d].kind = "egreso"}
        /\ C = {d \in DocumentIds : CreatedIn(d, range) /\ documents[d].status = "approved"}
        /\ D = {d \in DocumentIds : CreatedIn(d, range) /\ documents[d].status = "voided"}
  OBVIOUS
<1>2. \A d \in DocumentIds : CreatedIn(d, range) =>
        /\ documents[d].kind \in {"ingreso", "egreso"}
        /\ documents[d].status \in {"approved", "voided"}
  BY DEF CreatedIn, StockInv, EInv, Shape, Document
<1>3. A \cap B = {} /\ C \cap D = {} /\ A \cup B = C \cup D
  BY <1>1, <1>2
<1>4. IsFiniteSet(A) /\ IsFiniteSet(B) /\ IsFiniteSet(C) /\ IsFiniteSet(D)
  BY <1>1, FiniteDocuments, FS_Subset
<1>5. /\ Cardinality(A) \in Nat /\ Cardinality(B) \in Nat
      /\ Cardinality(C) \in Nat /\ Cardinality(D) \in Nat /\ Cardinality({}) = 0
  BY <1>4, FS_CardinalityType, FS_EmptySet
<1>6. Cardinality(A \cup B) = Cardinality(A) + Cardinality(B)
  <2>1. Cardinality(A \cup B) = Cardinality(A) + Cardinality(B) - Cardinality(A \cap B)
    BY <1>4, FS_Union
  <2>2. Cardinality(A \cap B) = 0
    BY <1>3, <1>5
  <2> QED
    BY ONLY <1>5, <2>1, <2>2
<1>7. Cardinality(C \cup D) = Cardinality(C) + Cardinality(D)
  <2>1. Cardinality(C \cup D) = Cardinality(C) + Cardinality(D) - Cardinality(C \cap D)
    BY <1>4, FS_Union
  <2>2. Cardinality(C \cap D) = 0
    BY <1>3, <1>5
  <2> QED
    BY ONLY <1>5, <2>1, <2>2
<1> QED
  BY <1>1, <1>3, <1>5, <1>6, <1>7 DEF MovementCount, StatusCount

\* Days, months, sellers, kinds and users divide the documents of a period.
LEMMA GroupsAddUpIs == ASSUME StockInv, Twins, IsFiniteSet(Requests) PROVE GroupsAddUp
<1> SUFFICES ASSUME NEW range \in Ranges
             PROVE  /\ SalesTotal(range) = SumOf(LAMBDA y : DailyTotal(range, y), Days)
                    /\ SalesTotal(range) =
                         SumOf(LAMBDA m : MonthlyTotal(range, m), {MonthOf[y] : y \in Days})
                    /\ SalesTotal(range) = SumOf(LAMBDA s : SellerTotal(range, s), Sellers)
                    /\ MovementCount("ingreso", range) + MovementCount("egreso", range) =
                         StatusCount("approved", range) + StatusCount("voided", range)
                    /\ UNION {MovementsOfUser(r, range) : r \in Requests} = Sales(range) \cup Returns(range)
  BY DEF GroupsAddUp
<1>1. PICK a \in Days, b \in Days : range = <<a, b>>
  BY DEF Ranges
<1>2. PICK S, M : S = Sales(range) /\ M = {MonthOf[y] : y \in Days}
  OBVIOUS
<1>3. S \subseteq InForce("sale") /\ S \subseteq DocumentIds /\ \A d \in S : documents[d] # Nil
  BY <1>1, <1>2, PeriodIs DEF OnDays, InForce, Approved, Exists
<1>4. SalesTotal(range) = NetOf(S)
  BY <1>2 DEF SalesTotal, SumOf, NetOf
<1>5. SalesTotal(range) = SumOf(LAMBDA y : DailyTotal(range, y), Days)
  <2>1. PICK key : key = [d \in DocumentIds |-> DayOf[d[1]]]
    OBVIOUS
  <2>2. \A d \in S : key[d] = DayOf[d[1]] /\ key[d] \in Days
    BY <1>3, <2>1, DatedIs
  <2>3. NetOf(S) = SumFunction([k \in Days |-> NetOf(Group(S, key, k))])
    <3>1. IsFiniteSet(Days)
      BY SalesReportsAssumption
    <3> QED
      BY <1>3, <2>2, <3>1, GroupsAre
  <2>4. \A k : Group(S, key, k) = {d \in S : DayOf[d[1]] = k}
    BY <2>2 DEF Group
  <2>5. \A k : DailyTotal(range, k) = NetOf(Group(S, key, k))
    BY <1>2, <2>4 DEF DailyTotal, SumOf, NetOf
  <2>6. SumOf(LAMBDA y : DailyTotal(range, y), Days) = SumFunction([k \in Days |-> DailyTotal(range, k)])
    BY DEF SumOf
  <2>7. [k \in Days |-> DailyTotal(range, k)] = [k \in Days |-> NetOf(Group(S, key, k))]
    BY <2>5
  <2> QED
    BY <1>4, <2>3, <2>6, <2>7
<1>6. SalesTotal(range) = SumOf(LAMBDA m : MonthlyTotal(range, m), M)
  <2>1. PICK key : key = [d \in DocumentIds |-> MonthOf[DayOf[d[1]]]]
    OBVIOUS
  <2>2. \A d \in S : key[d] = MonthOf[DayOf[d[1]]] /\ key[d] \in M
    BY <1>2, <1>3, <2>1, DatedIs
  <2>3. IsFiniteSet(M)
    <3>1. IsFiniteSet(Days)
      BY SalesReportsAssumption
    <3>2. IsFiniteSet({MonthOf[y] : y \in Days})
      BY ONLY <3>1, FiniteImage
    <3> QED
      BY ONLY <1>2, <3>2
  <2>4. NetOf(S) = SumFunction([k \in M |-> NetOf(Group(S, key, k))])
    BY <1>3, <2>2, <2>3, GroupsAre
  <2>5. \A k : Group(S, key, k) = {d \in S : MonthOf[DayOf[d[1]]] = k}
    BY <2>2 DEF Group
  <2>6. \A k : MonthlyTotal(range, k) = NetOf(Group(S, key, k))
    BY <1>2, <2>5 DEF MonthlyTotal, SumOf, NetOf
  <2>7. SumOf(LAMBDA m : MonthlyTotal(range, m), M) = SumFunction([k \in M |-> MonthlyTotal(range, k)])
    BY DEF SumOf
  <2>8. [k \in M |-> MonthlyTotal(range, k)] = [k \in M |-> NetOf(Group(S, key, k))]
    BY <2>6
  <2> QED
    BY <1>4, <2>4, <2>7, <2>8
<1>7. SalesTotal(range) = SumOf(LAMBDA s : SellerTotal(range, s), Sellers)
  <2>1. PICK key : key = [d \in DocumentIds |-> Seller(d)]
    OBVIOUS
  <2>2. \A d \in S : key[d] = Seller(d) /\ key[d] \in Sellers
    BY <1>3, <2>1, SellerIs
  <2>3. IsFiniteSet(Sellers)
    BY FiniteImage DEF Sellers
  <2>4. NetOf(S) = SumFunction([k \in Sellers |-> NetOf(Group(S, key, k))])
    BY <1>3, <2>2, <2>3, GroupsAre
  <2>5. \A k : Group(S, key, k) = {d \in S : Seller(d) = k}
    BY <2>2 DEF Group
  <2>6. \A k : SellerTotal(range, k) = NetOf(Group(S, key, k))
    BY <1>2, <2>5 DEF SellerTotal, SumOf, NetOf
  <2>7. SumOf(LAMBDA s : SellerTotal(range, s), Sellers) = SumFunction([k \in Sellers |-> SellerTotal(range, k)])
    BY DEF SumOf
  <2>8. [k \in Sellers |-> SellerTotal(range, k)] = [k \in Sellers |-> NetOf(Group(S, key, k))]
    BY <2>6
  <2> QED
    BY <1>4, <2>4, <2>7, <2>8
<1>8. UNION {MovementsOfUser(r, range) : r \in Requests} = Sales(range) \cup Returns(range)
  <2>1. \A d \in DocumentIds : Kept(d, range) => documents[d].kind \in {"ingreso", "egreso"}
    BY DEF Kept, CreatedIn, StockInv, EInv, Shape, Document
  <2>2. \A d : d \in DocumentIds <=> \E r \in Requests : d \in {r} \X {"sale", "return"}
    BY DEF DocumentIds
  <2>3. Sales(range) \cup Returns(range) = {d \in DocumentIds : Kept(d, range)}
    BY <2>1 DEF Sales, Returns
  <2> QED
    BY <2>2, <2>3 DEF MovementsOfUser
<1> QED
  BY <1>2, <1>5, <1>6, <1>7, <1>8, CountsAre
\* The first and the last day.
LEMMA FirstAndLast ==
  /\ Min(Days) \in Days /\ Max(Days) \in Days
  /\ \A y \in Days : Min(Days) <= y /\ y <= Max(Days)
<1>1. Days \subseteq Nat /\ Days # {} /\ IsFiniteSet(Days)
  BY SalesReportsAssumption
<1>2. \E m \in Days : \A y \in Days : m =< y
  <2>1. PICK m \in Days : \A y \in Days : ~(y < m)
    BY <1>1, LeastNumber
  <2> QED
    BY <1>1, <2>1
<1>3. \E m \in Days : \A y \in Days : m >= y
  <2>1. PICK m \in Days : \A y \in Days : y <= m
    BY <1>1, GreatestNumber
  <2> QED
    BY <1>1, <2>1
<1>4. Min(Days) \in Days /\ \A y \in Days : Min(Days) =< y
  BY <1>2 DEF Min
<1>5. Max(Days) \in Days /\ \A y \in Days : Max(Days) >= y
  BY <1>3 DEF Max
<1> QED
  BY <1>1, <1>4, <1>5

\* All days are a period.
LEMMA AllTime ==
  ASSUME StockInv
  PROVE  /\ Sales(<<Min(Days), Max(Days)>>) = InForce("sale")
         /\ Returns(<<Min(Days), Max(Days)>>) = InForce("return")
<1>1. PICK a \in Days, b \in Days : a = Min(Days) /\ b = Max(Days)
  BY FirstAndLast
<1>2. {y \in Days : y \in a..b} = Days
  <2>1. \A y \in Days : a <= y /\ y <= b /\ y \in Nat /\ a \in Nat /\ b \in Nat
    BY <1>1, FirstAndLast, SalesReportsAssumption
  <2> QED
    BY ONLY <2>1
<1>3. Sales(<<a, b>>) = OnDays("sale", Days) /\ Returns(<<a, b>>) = OnDays("return", Days)
  BY <1>2, PeriodIs
<1>4. OnDays("sale", Days) = InForce("sale") /\ OnDays("return", Days) = InForce("return")
  BY DatedIs DEF OnDays, InForce
<1> QED
  BY <1>1, <1>3, <1>4

\* The units of all sales, less those of all returns, have left the stock.
LEMMA UnitsAgreeIs == ASSUME StockInv, Twins, IsFiniteSet(Requests) PROVE UnitsAgree
<1>1. PICK all : all = <<Min(Days), Max(Days)>>
  OBVIOUS
<1> SUFFICES ASSUME NEW p \in Products
             PROVE  UnitsSold(all, p) - UnitsReturned(all, p) =
                      InitialStock[p] + QuantityOf(OpeningLines, p) - stock[p]
  BY <1>1, Zenon DEF UnitsAgree
<1>2. EInv /\ Books
  BY DEF StockInv
<1>3. PICK S, T, Rest : S = InForce("sale") /\ T = InForce("return") /\ Rest = DocumentIds \ (S \cup T)
  OBVIOUS
<1>4. PICK f, g, h : /\ f = [d \in S |-> QuantityOf(documents[d].lines, p)]
                     /\ g = [d \in T |-> QuantityOf(documents[d].lines, p)] /\ h = Share(p)
  OBVIOUS
<1>5. /\ IsFiniteSet(S) /\ IsFiniteSet(T) /\ IsFiniteSet(Rest) /\ IsFiniteSet(S \cup T)
      /\ S \cap T = {} /\ (S \cup T) \cap Rest = {} /\ (S \cup T) \cup Rest = DocumentIds
  BY <1>3, FiniteDocuments, FS_Subset DEF InForce
<1>6. UnitsSold(all, p) = SumFunction(f) /\ UnitsReturned(all, p) = SumFunction(g)
  BY <1>1, <1>3, <1>4, AllTime DEF UnitsSold, UnitsReturned, SumOf
<1>7. \A d \in DocumentIds : h[d] \in Int /\ h[d] = ShareOf(d, p)
  BY <1>2, <1>4, SharesAre
<1>8. \A d \in S : f[d] \in Int /\ h[d] = (-1) * f[d]
  <2> SUFFICES ASSUME NEW d \in S PROVE f[d] \in Int /\ h[d] = (-1) * f[d]
    OBVIOUS
  <2>1. d \in DocumentIds /\ documents[d] # Nil /\ Approved(d) /\ d[2] = "sale"
    BY <1>3 DEF InForce, Approved, Exists
  <2>2. documents[d].kind = "egreso" /\ documents[d].lines \in LineChoices
    BY <2>1, ForceIs
  <2>3. QuantityOf(documents[d].lines, p) \in Nat
    BY <2>2, QuantityIs
  <2>4. f[d] = QuantityOf(documents[d].lines, p) /\ h[d] = -QuantityOf(documents[d].lines, p)
    BY <1>4, <1>7, <2>1, <2>2 DEF ShareOf
  <2> QED
    BY ONLY <2>3, <2>4
<1>9. \A d \in T : g[d] \in Int /\ h[d] = g[d]
  <2> SUFFICES ASSUME NEW d \in T PROVE g[d] \in Int /\ h[d] = g[d]
    OBVIOUS
  <2>1. d \in DocumentIds /\ documents[d] # Nil /\ Approved(d) /\ d[2] = "return"
    BY <1>3 DEF InForce, Approved, Exists
  <2>2. documents[d].kind = "ingreso" /\ documents[d].lines \in LineChoices
    BY <2>1, ForceIs
  <2>3. QuantityOf(documents[d].lines, p) \in Nat
    BY <2>2, QuantityIs
  <2>4. g[d] = QuantityOf(documents[d].lines, p) /\ h[d] = QuantityOf(documents[d].lines, p)
    BY <1>4, <1>7, <2>1, <2>2 DEF ShareOf
  <2> QED
    BY ONLY <2>3, <2>4
<1>10. \A d \in Rest : h[d] = 0
  BY <1>3, <1>5, <1>7 DEF ShareOf, InForce, DocumentIds
<1>11. SumFunctionOnSet(h, S) = (-1) * SumFunctionOnSet(f, S)
  BY <1>5, <1>8, SumTimes
<1>12. SumFunctionOnSet(h, T) = SumFunctionOnSet(g, T)
  BY <1>5, <1>9, SumEqual
<1>13. SumFunctionOnSet(h, S \cup T) = SumFunctionOnSet(h, S) + SumFunctionOnSet(h, T)
  BY <1>5, <1>7, SumUnion
<1>14. SumFunctionOnSet(h, (S \cup T) \cup Rest) = SumFunctionOnSet(h, S \cup T) + SumFunctionOnSet(h, Rest)
  <2>1. \A d \in (S \cup T) \cup Rest : h[d] \in Int
    BY <1>5, <1>7
  <2> QED
    BY ONLY <1>5, <2>1, SumUnion
<1>15. SumFunctionOnSet(h, Rest) = 0
  BY <1>5, <1>10, SumZero
<1>16. SumFunctionOnSet(f, S) \in Int /\ SumFunctionOnSet(g, T) \in Int
  BY <1>5, <1>8, <1>9, SumType
<1>17. SumFunctionOnSet(h, DocumentIds) = SumFunctionOnSet(h, (S \cup T) \cup Rest)
  BY ONLY <1>5
<1>18. SumFunctionOnSet(h, DocumentIds) = SumFunctionOnSet(g, T) - SumFunctionOnSet(f, S)
  BY ONLY <1>11, <1>12, <1>13, <1>14, <1>15, <1>16, <1>17
<1>19. stock[p] = InitialStock[p] + QuantityOf(OpeningLines, p) + SumFunctionOnSet(h, DocumentIds)
  BY <1>2, <1>4 DEF Books
<1>20. InitialStock[p] \in Int /\ QuantityOf(OpeningLines, p) \in Int
  BY QuantityIs
<1>21. SumFunction(f) = SumFunctionOnSet(f, S) /\ SumFunction(g) = SumFunctionOnSet(g, T)
  BY <1>4 DEF SumFunction
<1> QED
  BY ONLY <1>6, <1>16, <1>18, <1>19, <1>20, <1>21

\* The twins are kept with the books.
THEOREM TwinsStayTogether ==
  ASSUME ~SameSale, IsFiniteSet(Requests) PROVE Spec => [](StockInv /\ Twins)
<1>1. Init => StockInv /\ Twins
  BY InitStockInv, InitTwins
<1>2. (StockInv /\ Twins) /\ [Next]_vars => (StockInv /\ Twins)'
  BY StepStockInv, StepTwins DEF StockInv
<1> QED
  BY <1>1, <1>2, PTL DEF Spec

\* The sales report, the closings of the days and the consolidated report tell
\* the same sales of every period and their groupings add up, whatever was
\* exchanged, reverted and voided by whichever interleaving.
THEOREM SalesReportsAgree ==
  ASSUME ~SameSale, IsFiniteSet(Requests) PROVE Spec => []ReportsAgree
<1>1. StockInv /\ Twins => ReportsAgree
  BY PeriodsAgreeIs, GroupsAddUpIs, UnitsAgreeIs DEF ReportsAgree
<1> QED
  BY <1>1, TwinsStayTogether, PTL

\* The closings of all days are the money in the drawer.
THEOREM DrawerHoldsTheClosings ==
  ASSUME ~SameSale, IsFiniteSet(Requests) PROVE Spec => []DrawerAgrees
<1>1. StockInv /\ Twins => DrawerAgrees
  BY DrawerAgreesIs
<1> QED
  BY <1>1, TwinsStayTogether, PTL
=============================================================================
