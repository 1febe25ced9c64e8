----------------------------- MODULE KardexProofs -----------------------------
(***************************************************************************)
(* The valuation of stock, for any products, lines, costs and methods, as  *)
(* long as a document names each product once, there are no increments     *)
(* (recorded as exits) and nobody goes back to PEPS.                       *)
(*                                                                         *)
(* Good says how the Kardex, the lots and the stock hang together: a lot   *)
(* holds what the entries that name it, of documents in force, moved.      *)
(* Every entry the service adds keeps it, with a stock that has moved by   *)
(* that entry alone; so it holds after each turn of the loops over lots    *)
(* and lines, and a document ends with the stock its handler asked for.    *)
(* Quantities agree exactly.  The balance counts a receipt before its cost *)
(* is rounded and the lot after it, so values only stay Near: a unit apart *)
(* at most for each piece received.                                        *)
(*                                                                         *)
(* The reports are read off the same books.  A page leaves nothing out     *)
(* above its last document, so the pages give each document once; entries  *)
(* fall into parts by document and lots by product, and what a part adds   *)
(* up to is the document's share of the stock (Recorded), the product's    *)
(* share of the valuation (Valued); a chain of balances adds up from any   *)
(* entry on.                                                               *)
(***************************************************************************)
EXTENDS KardexReports, Sums, SequenceTheorems, TLAPS

USE KardexAssumption DEF KardexAssumption

-----------------------------------------------------------------------------
(* The books.                                                              *)

EntryRow == [document : Nat, lot : Nat, in : Nat, costIn : Int, out : Nat, costOut : Int,
             qty : Int, value : Int, avg : Int]

LotRow == [product : Products, document : Nat, initial : Nat, available : Nat, cost : Nat]

In(entries, places) == SumFunctionOnSet([x \in DOMAIN entries |-> entries[x].in], places)

Out(entries, places) == SumFunctionOnSet([x \in DOMAIN entries |-> entries[x].out], places)

Places(entries, d) == {x \in DOMAIN entries : entries[x].document = d}

\* The balance before the entry at place x.
Before(s, x) ==
  IF x = 1 THEN NoBalance
  ELSE [qty |-> s[x - 1].qty, value |-> s[x - 1].value, avg |-> s[x - 1].avg]

\* What rounding has put between the value of an entry and what it moved at its cost.
Drift(e, old) == e.value - (old.value + e.in * e.costIn - e.out * e.costOut)

Continues(e, old) ==
  /\ e.qty = old.qty + e.in - e.out
  /\ 2 * Abs(Drift(e, old)) <= e.in + e.out + 1

Chain(s) == \A x \in DOMAIN s : Continues(s[x], Before(s, x))

\* An entry that names a lot moves it at its cost, in the direction of its kind.
AtCost(e, lot) ==
  /\ e.in # 0 => e.out = 0 /\ e.costIn = lot.cost /\ e.document = lot.document
  /\ e.out # 0 => e.in = 0 /\ e.costOut = lot.cost

\* What an entry says of the document and the lot it names.
Refers(docs, l, p, e) ==
  /\ e.document \in DOMAIN docs
  /\ docs[e.document].status # "pending"
  /\ \E i \in DOMAIN docs[e.document].lines : docs[e.document].lines[i].product = p
  /\ e.lot # 0 => e.lot \in DOMAIN l /\ l[e.lot].product = p /\ AtCost(e, l[e.lot])

\* A lot arrives once.
ArrivesOnce(s) ==
  \A x, y \in DOMAIN s :
    (s[x].lot # 0 /\ s[x].lot = s[y].lot /\ s[x].in > 0 /\ s[y].in > 0) => x = y

\* The entries about lot i of documents in force.
Standing(docs, s, i) ==
  {x \in DOMAIN s : s[x].lot = i /\ docs[s[x].document].status = "approved"}

\* A lot holds what they moved.
Holds(docs, s, l, i) ==
  /\ l[i].initial = In(s, Standing(docs, s, i))
  /\ l[i].available = Net(s, Standing(docs, s, i))

LotsIn(l, p) == {i \in DOMAIN l : l[i].product = p}

Units(l, p) == SumFunctionOnSet([i \in DOMAIN l |-> l[i].available], LotsIn(l, p))

Worth(l, p) == SumFunctionOnSet([i \in DOMAIN l |-> l[i].available * l[i].cost], LotsIn(l, p))

\* The entries that name a lot.
OfLots(s) == {x \in DOMAIN s : s[x].lot # 0}

\* What lots are worth and the balance, to a unit per piece that came into one.
Near(worth, s) ==
  /\ worth - Balance(s).value <= In(s, OfLots(s))
  /\ Balance(s).value - worth <= In(s, OfLots(s))

\* The lots of a product hold its stock, near its value, and every entry in force
\* names one.
Valued(docs, s, l, p) ==
  /\ Units(l, p) = Balance(s).qty
  /\ Near(Worth(l, p), s)
  /\ \A x \in DOMAIN s : s[x].lot = 0 => docs[s[x].document].status = "voided"

\* The Kardex s and the lots of one product.
GoodFor(peps, docs, s, l, p) ==
  /\ Chain(s)
  /\ \A x \in DOMAIN s : Refers(docs, l, p, s[x])
  /\ ArrivesOnce(s)
  /\ \A i \in LotsIn(l, p) : Holds(docs, s, l, i)
  /\ peps => Valued(docs, s, l, p)

\* The same for every product.
Good(peps, docs, k, l) ==
  /\ k \in [Products -> Seq(EntryRow)]
  /\ l \in Seq(LotRow)
  /\ \A i \in DOMAIN l : l[i].document \in DOMAIN docs
  /\ \A p \in Products : GoodFor(peps, docs, k[p], l, p)

Document == [kind : Kinds \cap Operations, lines : Seq(Line),
             status : {"pending", "approved", "voided"}]

\* Each line is about a product of its own.
Apart(lines) == \A i, j \in DOMAIN lines : lines[i].product = lines[j].product => i = j

\* What the entries of a document have moved.
Recorded(doc, s, d, p) ==
  Net(s, Places(s, d)) =
    IF doc.status = "approved" THEN Sign(doc.kind) * QuantityIn(doc.lines, p) ELSE 0

\* Documents, stock, Kardex and lots together.
Books(peps, docs, st, k, l) ==
  /\ docs \in Seq(Document)
  /\ \A d \in DOMAIN docs : Apart(docs[d].lines)
  /\ st \in [Products -> Nat]
  /\ Good(peps, docs, k, l)
  /\ \A p \in Products : Balance(k[p]).qty = st[p]
  /\ \A d \in DOMAIN docs, p \in Products : Recorded(docs[d], k[p], d, p)

Inv ==
  /\ Books(UsesPeps, documents, stock, kardex, lots)
  /\ Len(documents) <= MaxDocuments
  /\ method \in Methods \cup {OpeningMethod}
  /\ year \in 0..MaxYears /\ movedInYear \in BOOLEAN

\* Documents name a product once; there are no increments (recorded as exits) and
\* nobody goes back to PEPS: each of the three breaks the books.
Regular ==
  /\ \A lines \in EntryLines \cup ExitLines : Apart(lines)
  /\ "increment" \notin Operations
  /\ "PEPS" \notin Methods

-----------------------------------------------------------------------------
(* Lists of entries and of lots.                                           *)

\* The columns of an entry.
LEMMA EntryIs ==
  ASSUME NEW e \in EntryRow
  PROVE  /\ e.document \in Nat /\ e.lot \in Nat /\ e.in \in Nat /\ e.out \in Nat
         /\ e.costIn \in Int /\ e.costOut \in Int
         /\ e.qty \in Int /\ e.value \in Int /\ e.avg \in Int
BY DEF EntryRow

\* The columns of a lot.
LEMMA LotIs ==
  ASSUME NEW a \in LotRow
  PROVE  /\ a.product \in Products /\ a.document \in Nat
         /\ a.initial \in Nat /\ a.available \in Nat /\ a.cost \in Nat
BY DEF LotRow

\* A list and its places.
LEMMA ListIs ==
  ASSUME NEW S, NEW s \in Seq(S)
  PROVE  /\ Len(s) \in Nat /\ DOMAIN s = 1..Len(s) /\ IsFiniteSet(DOMAIN s)
         /\ \A x \in DOMAIN s : s[x] \in S /\ x \in Nat \ {0} /\ x <= Len(s)
<1>1. Len(s) \in Nat /\ DOMAIN s = 1..Len(s) /\ \A x \in DOMAIN s : s[x] \in S
  OBVIOUS
<1>2. IsFiniteSet(1..Len(s))
  BY <1>1, FS_Interval
<1> QED
  BY <1>1, <1>2

\* A list with one element more.
LEMMA Grown ==
  ASSUME NEW S, NEW s \in Seq(S), NEW e \in S, NEW t, t = Append(s, e), NEW n, n = Len(s) + 1
  PROVE  /\ t \in Seq(S) /\ Len(t) = n /\ DOMAIN t = DOMAIN s \cup {n} /\ n \notin DOMAIN s
         /\ t[n] = e /\ \A x \in DOMAIN s : t[x] = s[x]
<1>1. Len(s) \in Nat /\ DOMAIN s = 1..Len(s)
  OBVIOUS
<1>2. t \in Seq(S) /\ Len(t) = n /\ DOMAIN t = 1..n /\ t[n] = e /\ \A x \in 1..Len(s) : t[x] = s[x]
  BY <1>1
<1>3. 1..n = (1..Len(s)) \cup {n} /\ n \notin 1..Len(s)
  BY <1>1
<1> QED
  BY <1>1, <1>2, <1>3

\* A list with one element replaced.
LEMMA Replaced ==
  ASSUME NEW S, NEW s \in Seq(S), NEW i \in DOMAIN s, NEW e \in S, NEW t, t = [s EXCEPT ![i] = e]
  PROVE  /\ t \in Seq(S) /\ DOMAIN t = DOMAIN s /\ t[i] = e
         /\ \A j \in DOMAIN s \ {i} : t[j] = s[j]
<1>1. i \in 1..Len(s)
  BY ListIs
<1>2. t \in Seq(S)
  BY <1>1, ExceptSeq
<1> QED
  BY <1>2

\* Sums over some of the entries.
LEMMA SumsAre ==
  ASSUME NEW s \in Seq(EntryRow), NEW D \in SUBSET (DOMAIN s)
  PROVE  /\ In(s, D) \in Nat /\ Out(s, D) \in Nat
         /\ Net(s, D) = In(s, D) - Out(s, D) /\ NetValue(s, D) \in Int
<1>1. PICK f, g, h, v :
        /\ f = [x \in DOMAIN s |-> s[x].in] /\ g = [x \in DOMAIN s |-> s[x].out]
        /\ h = [x \in DOMAIN s |-> s[x].in - s[x].out]
        /\ v = [x \in DOMAIN s |-> s[x].in * s[x].costIn - s[x].out * s[x].costOut]
  OBVIOUS
<1>2. IsFiniteSet(D)
  BY ListIs, FS_Subset
<1>3. \A x \in D : /\ s[x].in \in Nat /\ s[x].out \in Nat
                   /\ s[x].costIn \in Int /\ s[x].costOut \in Int
  BY ListIs, EntryIs
<1>4. \A x \in D : f[x] \in Nat /\ g[x] \in Nat /\ h[x] = f[x] - g[x]
  BY <1>1, <1>3
<1>5. \A x \in D : v[x] \in Int
  <2> SUFFICES ASSUME NEW x \in D PROVE v[x] \in Int
    OBVIOUS
  <2>1. v[x] = s[x].in * s[x].costIn - s[x].out * s[x].costOut
    BY <1>1
  <2>2. s[x].in * s[x].costIn \in Int /\ s[x].out * s[x].costOut \in Int
    BY <1>3
  <2> QED
    BY <2>1, <2>2
<1>6. SumFunctionOnSet(f, D) \in Nat /\ SumFunctionOnSet(g, D) \in Nat
  BY ONLY <1>2, <1>4, SumNatural
<1>7. SumFunctionOnSet(h, D) = SumFunctionOnSet(f, D) - SumFunctionOnSet(g, D)
  BY ONLY <1>2, <1>4, SumDifference, Nat \subseteq Int
<1>8. SumFunctionOnSet(v, D) \in Int
  BY ONLY <1>2, <1>5, SumType
<1> QED
  BY ONLY <1>1, <1>6, <1>7, <1>8 DEF In, Out, Net, NetValue

\* An entry more leaves the sums over the old places alone.
LEMMA GrownSums ==
  ASSUME NEW s \in Seq(EntryRow), NEW e \in EntryRow, NEW D \in SUBSET (DOMAIN s)
  PROVE  LET t == Append(s, e)
             n == Len(s) + 1
         IN  /\ In(t, D) = In(s, D) /\ In(t, D \cup {n}) = In(s, D) + e.in
             /\ Net(t, D) = Net(s, D) /\ Net(t, D \cup {n}) = Net(s, D) + (e.in - e.out)
<1>1. PICK t, n : t = Append(s, e) /\ n = Len(s) + 1
  OBVIOUS
<1>2. PICK f, h, ff, hh :
        /\ f = [x \in DOMAIN s |-> s[x].in] /\ ff = [x \in DOMAIN t |-> t[x].in]
        /\ h = [x \in DOMAIN s |-> s[x].in - s[x].out]
        /\ hh = [x \in DOMAIN t |-> t[x].in - t[x].out]
  OBVIOUS
<1>3. /\ DOMAIN t = DOMAIN s \cup {n} /\ n \notin DOMAIN s
      /\ t[n] = e /\ \A x \in DOMAIN s : t[x] = s[x]
  BY <1>1, Grown
<1>4. ff[n] = e.in /\ hh[n] = e.in - e.out
  BY ONLY <1>2, <1>3
<1>5. e.in \in Int /\ e.in - e.out \in Int
  BY EntryIs
<1>6. \A x \in DOMAIN s : s[x].in \in Nat /\ s[x].out \in Nat
  BY ListIs, EntryIs
<1>7. /\ \A x \in D : f[x] \in Int /\ ff[x] = f[x]
      /\ \A x \in D : h[x] \in Int /\ hh[x] = h[x]
      /\ ff[n] \in Int /\ hh[n] \in Int
  BY ONLY <1>2, <1>3, <1>4, <1>5, <1>6, D \in SUBSET (DOMAIN s)
<1>8. IsFiniteSet(D) /\ n \notin D
  BY <1>3, ListIs, FS_Subset
<1>9. /\ SumFunctionOnSet(ff, D) = SumFunctionOnSet(f, D)
      /\ SumFunctionOnSet(hh, D) = SumFunctionOnSet(h, D)
  BY ONLY <1>7, <1>8, SumEqual
<1>10. /\ SumFunctionOnSet(ff, D \cup {n}) = SumFunctionOnSet(f, D) + ff[n]
       /\ SumFunctionOnSet(hh, D \cup {n}) = SumFunctionOnSet(h, D) + hh[n]
  <2>1. \A x \in D \cup {n} : ff[x] \in Int /\ hh[x] \in Int
    BY ONLY <1>7
  <2> QED
    BY ONLY <1>8, <1>9, <2>1, SumAdd
<1>11. /\ In(t, D) = In(s, D) /\ In(t, D \cup {n}) = In(s, D) + e.in
       /\ Net(t, D) = Net(s, D) /\ Net(t, D \cup {n}) = Net(s, D) + (e.in - e.out)
  BY ONLY <1>2, <1>4, <1>9, <1>10 DEF In, Net
<1> QED
  BY ONLY <1>1, <1>11

-----------------------------------------------------------------------------
(* An entry more in the Kardex of one product.                             *)

\* The balance that an entry leaves.
BalanceOf(e) == [qty |-> e.qty, value |-> e.value, avg |-> e.avg]

\* The balance of a Kardex is of integers.
LEMMA BalanceType ==
  ASSUME NEW s \in Seq(EntryRow)
  PROVE  Balance(s).qty \in Int /\ Balance(s).value \in Int /\ Balance(s).avg \in Int
<1>1. CASE s = <<>>
  BY <1>1 DEF Balance, NoBalance
<1>2. CASE s # <<>>
  <2>1. Len(s) \in DOMAIN s /\ Last(s) = s[Len(s)]
    BY <1>2 DEF Last
  <2>2. Last(s) \in EntryRow
    BY <2>1, ListIs
  <2>3. /\ Balance(s).qty = Last(s).qty /\ Balance(s).value = Last(s).value
        /\ Balance(s).avg = Last(s).avg
    BY <1>2 DEF Balance
  <2> QED
    BY ONLY <2>2, <2>3, EntryIs
<1> QED
  BY <1>1, <1>2

\* The balance before the place after the last is the balance of the Kardex.
LEMMA BeforeNext ==
  ASSUME NEW s \in Seq(EntryRow), NEW e \in EntryRow, NEW t, t = Append(s, e)
  PROVE  /\ Before(t, Len(s) + 1) = Balance(s) /\ Balance(t) = BalanceOf(e)
         /\ \A x \in DOMAIN s : Before(t, x) = Before(s, x)
<1>1. /\ t \in Seq(EntryRow) /\ Len(t) = Len(s) + 1 /\ t[Len(s) + 1] = e
      /\ \A x \in DOMAIN s : t[x] = s[x]
  BY Grown
<1>2. Len(s) \in Nat /\ DOMAIN s = 1..Len(s)
  BY ListIs
<1>3. Balance(t) = BalanceOf(e)
  <2>1. t # <<>> /\ Last(t) = e
    BY <1>1, <1>2 DEF Last
  <2> QED
    BY <2>1 DEF Balance, BalanceOf
<1>4. Before(t, Len(s) + 1) = Balance(s)
  <2>1. CASE Len(s) = 0
    <3>1. s = <<>>
      BY <2>1
    <3> QED
      BY <2>1, <3>1 DEF Before, Balance
  <2>2. CASE Len(s) # 0
    <3>1. /\ s # <<>> /\ Last(s) = s[Len(s)] /\ Len(s) + 1 # 1 /\ (Len(s) + 1) - 1 = Len(s)
          /\ t[Len(s)] = s[Len(s)]
      <4>1. Len(s) \in DOMAIN s /\ s # <<>> /\ Len(s) + 1 # 1 /\ (Len(s) + 1) - 1 = Len(s)
        BY <1>2, <2>2
      <4>2. t[Len(s)] = s[Len(s)] /\ Last(s) = s[Len(s)]
        BY <1>1, <4>1 DEF Last
      <4> QED
        BY <4>1, <4>2
    <3> QED
      BY ONLY <3>1 DEF Before, Balance
  <2> QED
    BY <2>1, <2>2
<1>5. ASSUME NEW x \in DOMAIN s PROVE Before(t, x) = Before(s, x)
  <2>1. x = 1 \/ x - 1 \in DOMAIN s
    BY <1>2
  <2>2. x = 1 \/ t[x - 1] = s[x - 1]
    BY <1>1, <2>1
  <2> QED
    BY ONLY <2>2 DEF Before
<1> QED
  BY ONLY <1>3, <1>4, <1>5

\* An entry that continues the balance keeps the chain.
LEMMA ChainGrows ==
  ASSUME NEW s \in Seq(EntryRow), NEW e \in EntryRow, NEW t, t = Append(s, e),
         Chain(s), Continues(e, Balance(s))
  PROVE  Chain(t)
<1>1. PICK n : n = Len(s) + 1
  OBVIOUS
<1>2. DOMAIN t = DOMAIN s \cup {n} /\ t[n] = e /\ \A x \in DOMAIN s : t[x] = s[x]
  BY <1>1, Grown
<1>3. Before(t, n) = Balance(s) /\ \A x \in DOMAIN s : Before(t, x) = Before(s, x)
  BY <1>1, BeforeNext
<1>4. \A x \in DOMAIN t : Continues(t[x], Before(t, x))
  BY ONLY <1>2, <1>3, Chain(s), Continues(e, Balance(s)) DEF Chain
<1> QED
  BY ONLY <1>4 DEF Chain

\* The entries of a document after one more.
LEMMA PlacesGrow ==
  ASSUME NEW s \in Seq(EntryRow), NEW e \in EntryRow, NEW d
  PROVE  Net(Append(s, e), Places(Append(s, e), d)) =
           Net(s, Places(s, d)) + (IF d = e.document THEN e.in - e.out ELSE 0)
<1>0. PICK t : t = Append(s, e)
  OBVIOUS
<1>1. PICK n : n = Len(s) + 1
  OBVIOUS
<1>2. DOMAIN t = DOMAIN s \cup {n} /\ t[n] = e /\ \A x \in DOMAIN s : t[x] = s[x]
  BY <1>0, <1>1, Grown
<1>3. Places(t, d) = IF d = e.document THEN Places(s, d) \cup {n} ELSE Places(s, d)
  BY ONLY <1>2 DEF Places
<1>4. PICK D \in SUBSET (DOMAIN s) : D = Places(s, d)
  BY DEF Places
<1>5. Net(t, D) = Net(s, D) /\ Net(t, D \cup {n}) = Net(s, D) + (e.in - e.out)
  BY ONLY <1>1, GrownSums, s \in Seq(EntryRow), e \in EntryRow, <1>0
<1>6. Net(s, D) \in Int
  BY SumsAre
<1> QED
  BY ONLY <1>0, <1>3, <1>4, <1>5, <1>6

\* An entry about no lot, or about another, leaves what a lot holds alone.
LEMMA StandingStays ==
  ASSUME NEW s \in Seq(EntryRow), NEW e \in EntryRow, NEW t, t = Append(s, e),
         NEW docs, NEW l, NEW m, NEW i, e.lot # i, m[i] = l[i], Holds(docs, s, l, i)
  PROVE  Holds(docs, t, m, i)
<1>1. PICK n : n = Len(s) + 1
  OBVIOUS
<1>2. DOMAIN t = DOMAIN s \cup {n} /\ t[n] = e /\ \A x \in DOMAIN s : t[x] = s[x]
  BY <1>1, Grown
<1>3. Standing(docs, t, i) = Standing(docs, s, i)
  BY ONLY <1>2, e.lot # i DEF Standing
<1>4. PICK D \in SUBSET (DOMAIN s) : D = Standing(docs, s, i)
  BY DEF Standing
<1>5. In(t, D) = In(s, D) /\ Net(t, D) = Net(s, D)
  BY ONLY <1>1, GrownSums, s \in Seq(EntryRow), e \in EntryRow, t = Append(s, e)
<1> QED
  BY ONLY <1>3, <1>4, <1>5, m[i] = l[i], Holds(docs, s, l, i) DEF Holds

\* What a lot holds after an entry of a document in force about it.
LEMMA StandingGrows ==
  ASSUME NEW s \in Seq(EntryRow), NEW e \in EntryRow, NEW docs,
         docs[e.document].status = "approved"
  PROVE  LET t == Append(s, e)
         IN  /\ In(t, Standing(docs, t, e.lot)) = In(s, Standing(docs, s, e.lot)) + e.in
             /\ Net(t, Standing(docs, t, e.lot)) = Net(s, Standing(docs, s, e.lot)) + (e.in - e.out)
<1> PICK t, i : t = Append(s, e) /\ i = e.lot
  OBVIOUS
<1>1. PICK n : n = Len(s) + 1
  OBVIOUS
<1>2. DOMAIN t = DOMAIN s \cup {n} /\ t[n] = e /\ \A x \in DOMAIN s : t[x] = s[x]
  BY <1>1, Grown
<1>3. Standing(docs, t, i) = Standing(docs, s, i) \cup {n}
  BY ONLY <1>2, e.lot = i, docs[e.document].status = "approved" DEF Standing
<1>4. PICK D \in SUBSET (DOMAIN s) : D = Standing(docs, s, i)
  BY DEF Standing
<1>5. In(t, D \cup {n}) = In(s, D) + e.in /\ Net(t, D \cup {n}) = Net(s, D) + (e.in - e.out)
  BY ONLY <1>1, GrownSums, s \in Seq(EntryRow), e \in EntryRow, t = Append(s, e)
<1> QED
  BY ONLY <1>3, <1>4, <1>5, t = Append(s, e), i = e.lot

-----------------------------------------------------------------------------
(* One entry of a document in force keeps the books of its product.        *)

\* An entry, of a document in force with a line about the product, continues a
\* Kardex: a receipt to a unit per piece, an exit exactly.
Follows(docs, s, p, e) ==
  /\ Continues(e, Balance(s))
  /\ Abs(Drift(e, Balance(s))) <= e.in
  /\ e.document \in DOMAIN docs
  /\ docs[e.document].status = "approved"
  /\ \E i \in DOMAIN docs[e.document].lines : docs[e.document].lines[i].product = p

\* The lots stay, apart from their quantities.
Keeps(l, m) ==
  /\ DOMAIN l \subseteq DOMAIN m
  /\ \A i \in DOMAIN l : /\ m[i].product = l[i].product
                         /\ m[i].cost = l[i].cost /\ m[i].document = l[i].document

\* What an entry moves, at its cost.
Carries(e, worth, after) == after = worth + (e.in * e.costIn - e.out * e.costOut)

\* Lots that moved by what an entry moved stay near: rounding adds a unit per piece.
LEMMA StaysClose ==
  ASSUME NEW docs, NEW p, NEW s \in Seq(EntryRow), NEW e \in EntryRow, NEW t, t = Append(s, e),
         Follows(docs, s, p, e), e.lot # 0, NEW worth \in Int, NEW after,
         Carries(e, worth, after), Near(worth, s)
  PROVE  Near(after, t)
<1>1. PICK n : n = Len(s) + 1
  OBVIOUS
<1>2. DOMAIN t = DOMAIN s \cup {n} /\ t[n] = e /\ \A x \in DOMAIN s : t[x] = s[x]
  BY <1>1, Grown
<1>3. OfLots(t) = OfLots(s) \cup {n}
  BY ONLY <1>2, e.lot # 0 DEF OfLots
<1>4. PICK D \in SUBSET (DOMAIN s) : D = OfLots(s)
  BY DEF OfLots
<1>5. In(t, D \cup {n}) = In(s, D) + e.in
  BY ONLY <1>1, GrownSums, s \in Seq(EntryRow), e \in EntryRow, t = Append(s, e)
<1>6. PICK a, b : a = In(s, OfLots(s)) /\ b = In(t, OfLots(t))
  OBVIOUS
<1>7. b = a + e.in
  BY ONLY <1>3, <1>4, <1>5, <1>6
<1>8. PICK v, w : v = Balance(s).value /\ w = e.value
  OBVIOUS
<1>9. v \in Int /\ w \in Int /\ e.in \in Nat /\ a \in Int
  <2>1. v \in Int
    BY ONLY <1>8, BalanceType, s \in Seq(EntryRow)
  <2>2. w \in Int /\ e.in \in Nat
    BY ONLY <1>8, EntryIs, e \in EntryRow
  <2>3. a \in Int
    BY ONLY <1>4, <1>6, SumsAre, s \in Seq(EntryRow)
  <2> QED
    BY ONLY <2>1, <2>2, <2>3
<1>10. Balance(t).value = w
  <2>1. Balance(t) = BalanceOf(e)
    BY ONLY BeforeNext, s \in Seq(EntryRow), e \in EntryRow, t = Append(s, e)
  <2> QED
    BY ONLY <1>8, <2>1 DEF BalanceOf
<1>11. PICK x, y : x = e.in * e.costIn /\ y = e.out * e.costOut
  OBVIOUS
<1>12. x \in Int /\ y \in Int
  BY ONLY <1>11, EntryIs, e \in EntryRow
<1>13. Abs(w - (v + x - y)) <= e.in
  BY ONLY <1>8, <1>11, Follows(docs, s, p, e) DEF Follows, Drift
<1>14. after = worth + (x - y)
  BY ONLY <1>11, Carries(e, worth, after) DEF Carries
<1>15. worth - v <= a /\ v - worth <= a
  BY ONLY <1>6, <1>8, Near(worth, s) DEF Near
<1>16. after - w <= b /\ w - after <= b
  BY ONLY <1>7, <1>9, <1>12, <1>13, <1>14, <1>15, worth \in Int DEF Abs
<1> QED
  BY ONLY <1>6, <1>10, <1>16 DEF Near

\* An entry at its cost exactly.
LEMMA FollowsExactly ==
  ASSUME NEW docs, NEW p, NEW s \in Seq(EntryRow), NEW e \in EntryRow,
         e.document \in DOMAIN docs, docs[e.document].status = "approved",
         \E i \in DOMAIN docs[e.document].lines : docs[e.document].lines[i].product = p,
         e.qty = Balance(s).qty + e.in - e.out,
         e.value = Balance(s).value + e.in * e.costIn - e.out * e.costOut
  PROVE  Follows(docs, s, p, e)
<1>1. PICK x, y, v : x = e.in * e.costIn /\ y = e.out * e.costOut /\ v = Balance(s).value
  OBVIOUS
<1>2. e.in \in Nat /\ e.out \in Nat /\ e.costIn \in Int /\ e.costOut \in Int
  BY EntryIs
<1>3. x \in Int /\ y \in Int /\ v \in Int
  <2>1. v \in Int
    BY ONLY <1>1, BalanceType, s \in Seq(EntryRow)
  <2>2. x \in Int /\ y \in Int
    BY ONLY <1>1, <1>2
  <2> QED
    BY ONLY <2>1, <2>2
<1>4. e.value = v + x - y
  BY <1>1
<1>5. Drift(e, Balance(s)) = e.value - (v + x - y)
  BY ONLY <1>1 DEF Drift
<1>6. Drift(e, Balance(s)) = 0
  BY ONLY <1>3, <1>4, <1>5
<1>7. 2 * Abs(Drift(e, Balance(s))) <= e.in + e.out + 1 /\ Abs(Drift(e, Balance(s))) <= e.in
  BY ONLY <1>2, <1>6 DEF Abs
<1> QED
  BY <1>7 DEF Follows, Continues

\* What an entry says of its lot stays true.
LEMMA RefersKept ==
  ASSUME NEW docs, NEW l, NEW m, NEW p, NEW e, Keeps(l, m), Refers(docs, l, p, e)
  PROVE  Refers(docs, m, p, e)
<1>1. e.lot # 0 => /\ e.lot \in DOMAIN l /\ e.lot \in DOMAIN m
                   /\ m[e.lot].product = p /\ l[e.lot].product = p
                   /\ m[e.lot].cost = l[e.lot].cost /\ m[e.lot].document = l[e.lot].document
                   /\ AtCost(e, l[e.lot])
  BY DEF Refers, Keeps
<1>2. e.lot # 0 => AtCost(e, m[e.lot])
  BY ONLY <1>1 DEF AtCost
<1> QED
  BY ONLY <1>1, <1>2, Refers(docs, l, p, e) DEF Refers

\* What lots hold is worth a whole number of the smallest units.
LEMMA WorthType ==
  ASSUME NEW l \in Seq(LotRow), NEW p
  PROVE  Worth(l, p) \in Int
<1>1. PICK f, K : f = [i \in DOMAIN l |-> l[i].available * l[i].cost] /\ K = LotsIn(l, p)
  OBVIOUS
<1>2. IsFiniteSet(K) /\ K \subseteq DOMAIN l
  BY <1>1, ListIs, FS_Subset DEF LotsIn
<1>3. ASSUME NEW i \in K PROVE f[i] \in Int
  <2>1. l[i] \in LotRow
    BY <1>2, ListIs
  <2>2. PICK a, c : a = l[i].available /\ c = l[i].cost
    OBVIOUS
  <2>3. a \in Nat /\ c \in Nat
    BY ONLY <2>1, <2>2, LotIs
  <2>4. f[i] = a * c
    BY ONLY <1>1, <1>2, <2>2, i \in K
  <2> QED
    BY ONLY <2>3, <2>4
<1>4. SumFunctionOnSet(f, K) \in Int
  BY ONLY <1>2, <1>3, SumType
<1> QED
  BY ONLY <1>1, <1>4 DEF Worth

\* The books of a product depend on its own lots.
LEMMA Elsewhere ==
  ASSUME NEW peps, NEW docs, NEW s \in Seq(EntryRow), NEW p,
         NEW l \in Seq(LotRow), NEW m \in Seq(LotRow), Keeps(l, m),
         LotsIn(m, p) = LotsIn(l, p), \A i \in LotsIn(l, p) : m[i] = l[i],
         GoodFor(peps, docs, s, l, p)
  PROVE  GoodFor(peps, docs, s, m, p)
<1>1. \A x \in DOMAIN s : Refers(docs, m, p, s[x])
  BY RefersKept DEF GoodFor
<1>2. \A i \in LotsIn(m, p) : Holds(docs, s, m, i)
  BY DEF GoodFor, Holds
<1>3. LotsIn(l, p) \subseteq DOMAIN l /\ LotsIn(m, p) \subseteq DOMAIN m
  BY DEF LotsIn
<1>4. IsFiniteSet(LotsIn(l, p))
  BY <1>3, ListIs, FS_Subset
<1>5. Units(m, p) = Units(l, p)
  <2>1. PICK f, g : f = [i \in DOMAIN l |-> l[i].available] /\ g = [i \in DOMAIN m |-> m[i].available]
    OBVIOUS
  <2>2. \A i \in LotsIn(l, p) : g[i] = f[i]
    BY ONLY <2>1, <1>3, LotsIn(m, p) = LotsIn(l, p), \A i \in LotsIn(l, p) : m[i] = l[i]
  <2>3. SumFunctionOnSet(g, LotsIn(l, p)) = SumFunctionOnSet(f, LotsIn(l, p))
    BY ONLY <1>4, <2>2, SumEqual
  <2> QED
    BY ONLY <2>1, <2>3, LotsIn(m, p) = LotsIn(l, p) DEF Units
<1>6. Worth(m, p) = Worth(l, p)
  <2>1. PICK f, g : /\ f = [i \in DOMAIN l |-> l[i].available * l[i].cost]
                    /\ g = [i \in DOMAIN m |-> m[i].available * m[i].cost]
    OBVIOUS
  <2>2. \A i \in LotsIn(l, p) : g[i] = f[i]
    BY ONLY <2>1, <1>3, LotsIn(m, p) = LotsIn(l, p), \A i \in LotsIn(l, p) : m[i] = l[i]
  <2>3. SumFunctionOnSet(g, LotsIn(l, p)) = SumFunctionOnSet(f, LotsIn(l, p))
    BY ONLY <1>4, <2>2, SumEqual
  <2> QED
    BY ONLY <2>1, <2>3, LotsIn(m, p) = LotsIn(l, p) DEF Worth
<1> QED
  BY ONLY <1>1, <1>2, <1>5, <1>6, GoodFor(peps, docs, s, l, p) DEF GoodFor, Valued

\* The books of a product depend on the documents its Kardex names.
LEMMA SameDocuments ==
  ASSUME NEW peps, NEW docs, NEW more, NEW s, NEW l, NEW p,
         \A x \in DOMAIN s : /\ s[x].document \in DOMAIN more
                             /\ more[s[x].document] = docs[s[x].document],
         GoodFor(peps, docs, s, l, p)
  PROVE  GoodFor(peps, more, s, l, p)
<1>1. \A x \in DOMAIN s : Refers(more, l, p, s[x])
  BY DEF GoodFor, Refers
<1>2. \A i : Standing(more, s, i) = Standing(docs, s, i)
  BY DEF Standing
<1>3. \A i \in LotsIn(l, p) : Holds(more, s, l, i)
  BY <1>2 DEF GoodFor, Holds
<1>4. Valued(docs, s, l, p) => Valued(more, s, l, p)
  BY DEF Valued
<1> QED
  BY ONLY <1>1, <1>3, <1>4, GoodFor(peps, docs, s, l, p) DEF GoodFor

\* What does not depend on the quantities of the lots.
LEMMA EntryKeeps ==
  ASSUME NEW peps, NEW docs, NEW p, NEW s \in Seq(EntryRow), NEW e \in EntryRow, NEW l, NEW m,
         NEW t, t = Append(s, e),
         GoodFor(peps, docs, s, l, p), Keeps(l, m), Follows(docs, s, p, e), Refers(docs, m, p, e),
         e.lot = 0 \/ e.in = 0 \/ \A x \in DOMAIN s : s[x].lot # e.lot
  PROVE  Chain(t) /\ ArrivesOnce(t) /\ \A x \in DOMAIN t : Refers(docs, m, p, t[x])
<1>1. PICK n : n = Len(s) + 1
  OBVIOUS
<1>2. DOMAIN t = DOMAIN s \cup {n} /\ t[n] = e /\ \A x \in DOMAIN s : t[x] = s[x]
  BY <1>1, Grown
<1>3. Chain(t)
  BY ChainGrows DEF GoodFor, Follows
<1>4. \A x \in DOMAIN t : Refers(docs, m, p, t[x])
  <2>1. \A x \in DOMAIN s : Refers(docs, m, p, s[x])
    BY RefersKept DEF GoodFor
  <2> QED
    BY ONLY <1>2, <2>1, Refers(docs, m, p, e)
<1>5. ArrivesOnce(t)
  <2>1. ArrivesOnce(s) /\ e.in \in Nat
    BY EntryIs DEF GoodFor
  <2>2. ASSUME NEW x \in DOMAIN t, NEW y \in DOMAIN t,
               t[x].lot # 0, t[x].lot = t[y].lot, t[x].in > 0, t[y].in > 0
        PROVE  x = y
    <3>1. CASE x = n /\ y = n
      BY <3>1
    <3>2. CASE x # n /\ y # n
      BY ONLY <1>2, <2>1, <2>2, <3>2 DEF ArrivesOnce
    <3>3. CASE x = n /\ y # n
      BY ONLY <1>2, <2>1, <2>2, <3>3,
              e.lot = 0 \/ e.in = 0 \/ \A z \in DOMAIN s : s[z].lot # e.lot
    <3>4. CASE x # n /\ y = n
      BY ONLY <1>2, <2>1, <2>2, <3>4,
              e.lot = 0 \/ e.in = 0 \/ \A z \in DOMAIN s : s[z].lot # e.lot
    <3> QED
      BY <3>1, <3>2, <3>3, <3>4
  <2> QED
    BY ONLY <2>2 DEF ArrivesOnce
<1> QED
  BY <1>3, <1>4, <1>5

\* _record_weighted_average: an entry about no lot.
LEMMA PlainEntry ==
  ASSUME NEW docs, NEW p, NEW s \in Seq(EntryRow), NEW e \in EntryRow,
         NEW l \in Seq(LotRow), GoodFor(FALSE, docs, s, l, p), Follows(docs, s, p, e), e.lot = 0
  PROVE  GoodFor(FALSE, docs, Append(s, e), l, p)
<1>1. PICK t : t = Append(s, e)
  OBVIOUS
<1>2. Keeps(l, l)
  BY DEF Keeps
<1>3. Refers(docs, l, p, e)
  BY DEF Refers, Follows
<1>4. Chain(t) /\ ArrivesOnce(t) /\ \A x \in DOMAIN t : Refers(docs, l, p, t[x])
  BY <1>1, <1>2, <1>3, EntryKeeps
<1>5. ASSUME NEW i \in LotsIn(l, p) PROVE Holds(docs, t, l, i)
  <2>1. Holds(docs, s, l, i)
    BY DEF GoodFor
  <2>2. e.lot # i
    BY ListIs DEF LotsIn
  <2> QED
    BY <1>1, <2>1, <2>2, StandingStays
<1> QED
  BY ONLY <1>1, <1>4, <1>5 DEF GoodFor

\* _consume_lots_peps: an exit of some units of one lot.
LEMMA TakenEntry ==
  ASSUME NEW docs, NEW p, NEW s \in Seq(EntryRow), NEW e \in EntryRow,
         NEW l \in Seq(LotRow), NEW i \in LotsIn(l, p),
         NEW m, m = [l EXCEPT ![i].available = @ - e.out],
         GoodFor(TRUE, docs, s, l, p), Follows(docs, s, p, e), e.lot = i,
         e.in = 0, e.out <= l[i].available, e.costOut = l[i].cost
  PROVE  /\ m \in Seq(LotRow) /\ Keeps(l, m)
         /\ GoodFor(TRUE, docs, Append(s, e), m, p)
<1>1. PICK t : t = Append(s, e)
  OBVIOUS
<1>2. PICK lot, less : /\ lot = l[i] /\ less = [lot EXCEPT !.available = @ - e.out]
  OBVIOUS
<1>3. i \in DOMAIN l /\ l[i].product = p
  BY DEF LotsIn
<1>4. lot \in LotRow
  BY <1>2, <1>3, ListIs
<1>5. /\ less.product = lot.product /\ less.document = lot.document /\ less.cost = lot.cost
      /\ less.initial = lot.initial /\ less.available = lot.available - e.out
  BY ONLY <1>2, <1>4 DEF LotRow
<1>6. less \in LotRow
  <2>1. lot.available - e.out \in Nat
    BY <1>2, <1>4, LotIs, EntryIs
  <2> QED
    BY ONLY <1>2, <1>4, <2>1 DEF LotRow
<1>7. m = [l EXCEPT ![i] = less]
  BY <1>2
<1>8. m \in Seq(LotRow) /\ DOMAIN m = DOMAIN l /\ m[i] = less /\ \A j \in DOMAIN l \ {i} : m[j] = l[j]
  BY ONLY <1>3, <1>6, <1>7, Replaced, l \in Seq(LotRow)
<1>9. Keeps(l, m)
  BY ONLY <1>2, <1>5, <1>8 DEF Keeps
<1>10. LotsIn(m, p) = LotsIn(l, p)
  BY ONLY <1>2, <1>5, <1>8 DEF LotsIn
<1>11. i # 0 /\ e.in \in Nat /\ e.out \in Nat /\ e.costOut \in Int /\ lot.available \in Nat /\ lot.cost \in Nat
  BY <1>3, <1>4, ListIs, EntryIs, LotIs
<1>12. Refers(docs, m, p, e)
  <2>1. AtCost(e, m[i])
    BY ONLY <1>2, <1>5, <1>8, e.in = 0, e.costOut = l[i].cost DEF AtCost
  <2>2. i \in DOMAIN m /\ m[i].product = p
    BY ONLY <1>2, <1>3, <1>5, <1>8
  <2> QED
    BY <2>1, <2>2 DEF Refers, Follows
<1>13. Chain(t) /\ ArrivesOnce(t) /\ \A x \in DOMAIN t : Refers(docs, m, p, t[x])
  BY ONLY <1>1, <1>9, <1>12, EntryKeeps, s \in Seq(EntryRow), e \in EntryRow,
          GoodFor(TRUE, docs, s, l, p), Follows(docs, s, p, e), e.in = 0
<1>14. ASSUME NEW j \in LotsIn(m, p) PROVE Holds(docs, t, m, j)
  <2>1. Holds(docs, s, l, j)
    BY <1>10 DEF GoodFor
  <2>2. CASE j # i
    <3>1. m[j] = l[j] /\ e.lot # j
      BY <1>8, <1>10, <2>2 DEF LotsIn
    <3> QED
      BY ONLY <1>1, <2>1, <3>1, StandingStays, s \in Seq(EntryRow), e \in EntryRow
  <2>3. CASE j = i
    <3>1. docs[e.document].status = "approved"
      BY DEF Follows
    <3>2. /\ In(t, Standing(docs, t, i)) = In(s, Standing(docs, s, i)) + e.in
          /\ Net(t, Standing(docs, t, i)) = Net(s, Standing(docs, s, i)) + (e.in - e.out)
      BY ONLY <1>1, <3>1, StandingGrows, s \in Seq(EntryRow), e \in EntryRow, e.lot = i
    <3>3. lot.initial = In(s, Standing(docs, s, i)) /\ lot.available = Net(s, Standing(docs, s, i))
      BY <1>2, <2>1, <2>3 DEF Holds
    <3>4. lot.initial \in Nat
      BY <1>4, LotIs
    <3>5. /\ m[i].initial = In(t, Standing(docs, t, i))
          /\ m[i].available = Net(t, Standing(docs, t, i))
      BY ONLY <1>5, <1>8, <1>11, <3>2, <3>3, <3>4, e.in = 0
    <3> QED
      BY ONLY <2>3, <3>5 DEF Holds
  <2> QED
    BY <2>2, <2>3
<1>15. Valued(docs, s, l, p)
  BY DEF GoodFor
<1>16. Balance(t) = BalanceOf(e) /\ Balance(s).qty \in Int /\ Balance(s).value \in Int
  BY <1>1, BeforeNext, BalanceType
<1>17. IsFiniteSet(LotsIn(l, p)) /\ LotsIn(l, p) \subseteq DOMAIN l
  BY ListIs, FS_Subset DEF LotsIn
<1>18. \A j \in LotsIn(l, p) : /\ l[j].available \in Nat /\ l[j].cost \in Nat
                               /\ m[j].available \in Nat /\ m[j].cost \in Nat
  <2>1. \A j \in LotsIn(l, p) : j \in DOMAIN m /\ l[j] \in LotRow
    BY <1>8, <1>17, ListIs
  <2>2. \A j \in LotsIn(l, p) : m[j] \in LotRow
    BY ONLY <2>1, <1>8, ListIs
  <2> QED
    BY <2>1, <2>2, LotIs
<1>19. Units(m, p) = Balance(t).qty
  <2>1. PICK f, g : f = [j \in DOMAIN l |-> l[j].available] /\ g = [j \in DOMAIN m |-> m[j].available]
    OBVIOUS
  <2>2. \A j \in LotsIn(l, p) : f[j] \in Int
    BY ONLY <1>17, <1>18, <2>1
  <2>3. g[i] \in Int /\ g[i] = f[i] - e.out
    <3>1. f[i] = lot.available
      BY ONLY <1>2, <1>3, <2>1
    <3>2. g[i] = lot.available - e.out
      BY ONLY <1>3, <1>5, <1>8, <2>1
    <3> QED
      BY ONLY <1>11, <3>1, <3>2
  <2>4. \A j \in LotsIn(l, p) \ {i} : g[j] = f[j]
    BY ONLY <1>8, <1>17, <2>1
  <2>5. SumFunctionOnSet(g, LotsIn(l, p)) = SumFunctionOnSet(f, LotsIn(l, p)) + g[i] - f[i]
    BY ONLY <1>17, <2>2, <2>3, <2>4, SumChange, i \in LotsIn(l, p)
  <2>6. Units(l, p) = Balance(s).qty
    BY <1>15 DEF Valued
  <2>7. e.qty = Balance(s).qty + e.in - e.out
    BY DEF Follows, Continues
  <2>8. Balance(t).qty = e.qty
    BY <1>16 DEF BalanceOf
  <2>9. SumFunctionOnSet(f, LotsIn(l, p)) = Balance(s).qty
    BY ONLY <2>1, <2>6 DEF Units
  <2>10. f[i] \in Int
    BY <2>2
  <2>11. SumFunctionOnSet(g, LotsIn(l, p)) = e.qty
    BY ONLY <1>11, <1>16, <2>3, <2>5, <2>7, <2>9, <2>10, e.in = 0
  <2> QED
    BY ONLY <1>10, <2>1, <2>8, <2>11 DEF Units
<1>20. PICK y : y = e.out * e.costOut
  OBVIOUS
<1>21. y \in Int /\ Worth(l, p) \in Int /\ Worth(m, p) = Worth(l, p) - y
  <2>1. PICK f, g : /\ f = [j \in DOMAIN l |-> l[j].available * l[j].cost]
                    /\ g = [j \in DOMAIN m |-> m[j].available * m[j].cost]
    OBVIOUS
  <2>2. \A j \in LotsIn(l, p) : f[j] \in Int
    BY ONLY <1>17, <1>18, <2>1
  <2>4. y \in Int
    BY ONLY <1>11, <1>20
  <2>5. g[i] = (lot.available - e.out) * lot.cost /\ f[i] = lot.available * lot.cost
    BY ONLY <1>2, <1>3, <1>5, <1>8, <2>1
  <2>6. (lot.available - e.out) * lot.cost = lot.available * lot.cost - e.out * lot.cost
    BY ONLY <1>11
  <2>7. f[i] \in Int /\ g[i] = f[i] - y
    BY ONLY <1>2, <1>11, <1>20, <2>5, <2>6, e.costOut = l[i].cost
  <2>8. \A j \in LotsIn(l, p) \ {i} : g[j] = f[j]
    BY ONLY <1>8, <1>17, <2>1
  <2>9. g[i] \in Int
    BY ONLY <2>4, <2>7
  <2>10. SumFunctionOnSet(g, LotsIn(l, p)) = SumFunctionOnSet(f, LotsIn(l, p)) + g[i] - f[i]
    BY ONLY <1>17, <2>2, <2>8, <2>9, SumChange, i \in LotsIn(l, p)
  <2>11. SumFunctionOnSet(f, LotsIn(l, p)) \in Int
    BY ONLY <1>17, <2>2, SumType
  <2>12. SumFunctionOnSet(g, LotsIn(l, p)) = SumFunctionOnSet(f, LotsIn(l, p)) - y
    BY ONLY <2>4, <2>7, <2>10, <2>11
  <2> QED
    BY ONLY <1>10, <2>1, <2>4, <2>11, <2>12 DEF Worth
<1>22. Near(Worth(m, p), t)
  <2>1. PICK a, z : a = Worth(l, p) /\ z = Worth(m, p)
    OBVIOUS
  <2>2. Near(a, s)
    BY ONLY <1>15, <2>1 DEF Valued
  <2>3. Carries(e, a, z)
    <3>1. e.in * e.costIn = 0
      BY EntryIs
    <3>2. a - y = a + (0 - y)
      BY ONLY <1>21, <2>1
    <3> QED
      BY ONLY <1>20, <1>21, <2>1, <3>1, <3>2 DEF Carries
  <2>4. a \in Int
    BY ONLY <1>21, <2>1
  <2>5. e.lot # 0
    BY ONLY <1>11, e.lot = i
  <2>6. Near(z, t)
    BY ONLY <1>1, <2>2, <2>3, <2>4, <2>5, StaysClose, s \in Seq(EntryRow), e \in EntryRow,
            Follows(docs, s, p, e)
  <2> QED
    BY ONLY <2>1, <2>6
<1>23. Valued(docs, t, m, p)
  <2>1. PICK n : n = Len(s) + 1
    OBVIOUS
  <2>2. DOMAIN t = DOMAIN s \cup {n} /\ t[n] = e /\ \A x \in DOMAIN s : t[x] = s[x]
    BY <1>1, <2>1, Grown
  <2>3. \A x \in DOMAIN t : t[x].lot = 0 => docs[t[x].document].status = "voided"
    BY ONLY <1>11, <1>15, <2>2, e.lot = i DEF Valued
  <2> QED
    BY ONLY <1>19, <1>22, <2>3 DEF Valued
<1> QED
  BY ONLY <1>1, <1>8, <1>9, <1>13, <1>14, <1>23 DEF GoodFor

\* _record_peps, IN: a lot of its own for the units that come in.
LEMMA ArrivingEntry ==
  ASSUME NEW docs, NEW p, NEW s \in Seq(EntryRow), NEW e \in EntryRow,
         NEW l \in Seq(LotRow), NEW lot \in LotRow,
         NEW m, m = Append(l, lot), NEW i, i = Len(l) + 1,
         GoodFor(TRUE, docs, s, l, p), Follows(docs, s, p, e),
         e.lot = i, e.out = 0, e.costIn = lot.cost, e.document = lot.document,
         lot.product = p, lot.initial = e.in, lot.available = e.in
  PROVE  /\ m \in Seq(LotRow) /\ Keeps(l, m)
         /\ GoodFor(TRUE, docs, Append(s, e), m, p)
<1>1. PICK t : t = Append(s, e)
  OBVIOUS
<1>2. /\ m \in Seq(LotRow) /\ DOMAIN m = DOMAIN l \cup {i} /\ i \notin DOMAIN l
      /\ m[i] = lot /\ \A j \in DOMAIN l : m[j] = l[j]
  BY Grown
<1>3. Keeps(l, m)
  BY ONLY <1>2 DEF Keeps
<1>4. LotsIn(m, p) = LotsIn(l, p) \cup {i} /\ i \notin LotsIn(l, p)
  BY ONLY <1>2, lot.product = p DEF LotsIn
<1>5. i # 0 /\ e.in \in Nat /\ e.out \in Nat /\ e.costIn \in Int
  BY ListIs, EntryIs
<1>6. Refers(docs, m, p, e)
  <2>1. AtCost(e, m[i])
    BY ONLY <1>2, e.out = 0, e.costIn = lot.cost, e.document = lot.document DEF AtCost
  <2>2. i \in DOMAIN m /\ m[i].product = p
    BY ONLY <1>2, lot.product = p
  <2> QED
    BY <2>1, <2>2 DEF Refers, Follows
<1>7. \A x \in DOMAIN s : s[x].lot # i
  <2> SUFFICES ASSUME NEW x \in DOMAIN s, s[x].lot = i PROVE FALSE
    OBVIOUS
  <2>1. Refers(docs, l, p, s[x])
    BY DEF GoodFor
  <2> QED
    BY ONLY <1>2, <1>5, <2>1, s[x].lot = i DEF Refers
<1>8. Chain(t) /\ ArrivesOnce(t) /\ \A x \in DOMAIN t : Refers(docs, m, p, t[x])
  BY ONLY <1>1, <1>3, <1>6, <1>7, EntryKeeps, s \in Seq(EntryRow), e \in EntryRow,
          GoodFor(TRUE, docs, s, l, p), Follows(docs, s, p, e), e.lot = i
<1>9. ASSUME NEW j \in LotsIn(m, p) PROVE Holds(docs, t, m, j)
  <2>1. CASE j # i
    <3>1. m[j] = l[j] /\ e.lot # j /\ Holds(docs, s, l, j)
      BY <1>2, <1>4, <2>1 DEF LotsIn, GoodFor
    <3> QED
      BY ONLY <1>1, <3>1, StandingStays, s \in Seq(EntryRow), e \in EntryRow
  <2>2. CASE j = i
    <3>1. docs[e.document].status = "approved"
      BY DEF Follows
    <3>2. /\ In(t, Standing(docs, t, e.lot)) = In(s, Standing(docs, s, e.lot)) + e.in
          /\ Net(t, Standing(docs, t, e.lot)) = Net(s, Standing(docs, s, e.lot)) + (e.in - e.out)
      BY ONLY <1>1, <3>1, StandingGrows, s \in Seq(EntryRow), e \in EntryRow
    <3>3. Standing(docs, s, i) = {}
      BY ONLY <1>7 DEF Standing
    <3>4. In(s, {}) = 0 /\ Net(s, {}) = 0
      BY SumEmpty DEF In, Net
    <3>5. /\ In(t, Standing(docs, t, i)) = e.in
          /\ Net(t, Standing(docs, t, i)) = e.in
      <4>1. /\ In(t, Standing(docs, t, i)) = In(s, {}) + e.in
            /\ Net(t, Standing(docs, t, i)) = Net(s, {}) + (e.in - e.out)
        BY ONLY <3>2, <3>3, e.lot = i
      <4>2. 0 + e.in = e.in /\ 0 + (e.in - e.out) = e.in
        BY ONLY <1>5, e.out = 0
      <4> QED
        BY ONLY <3>4, <4>1, <4>2
    <3> QED
      BY ONLY <1>2, <2>2, <3>5, lot.initial = e.in, lot.available = e.in DEF Holds
  <2> QED
    BY <2>1, <2>2
<1>10. Valued(docs, s, l, p)
  BY DEF GoodFor
<1>11. Balance(t) = BalanceOf(e) /\ Balance(s).qty \in Int /\ Balance(s).value \in Int
  BY <1>1, BeforeNext, BalanceType
<1>12. IsFiniteSet(LotsIn(l, p)) /\ LotsIn(l, p) \subseteq DOMAIN l /\ LotsIn(m, p) \subseteq DOMAIN m
  BY ListIs, FS_Subset DEF LotsIn
<1>13. \A j \in DOMAIN m : m[j].available \in Nat /\ m[j].cost \in Nat
  BY ONLY <1>2, ListIs, LotIs
<1>14. Units(m, p) = Balance(t).qty
  <2>1. PICK f, g : f = [j \in DOMAIN l |-> l[j].available] /\ g = [j \in DOMAIN m |-> m[j].available]
    OBVIOUS
  <2>2. \A j \in LotsIn(l, p) \cup {i} : g[j] \in Int
    BY ONLY <1>4, <1>12, <1>13, <2>1
  <2>3. \A j \in LotsIn(l, p) : g[j] = f[j]
    BY ONLY <1>2, <1>12, <2>1
  <2>4. g[i] = e.in
    BY ONLY <1>2, <2>1, lot.available = e.in
  <2>5. SumFunctionOnSet(g, LotsIn(l, p)) = SumFunctionOnSet(f, LotsIn(l, p))
    BY ONLY <1>12, <2>3, SumEqual
  <2>6. SumFunctionOnSet(g, LotsIn(l, p) \cup {i}) = SumFunctionOnSet(g, LotsIn(l, p)) + g[i]
    BY ONLY <1>4, <1>12, <2>2, SumAdd
  <2>7. SumFunctionOnSet(f, LotsIn(l, p)) = Balance(s).qty
    BY ONLY <1>10, <2>1 DEF Valued, Units
  <2>8. e.qty = Balance(s).qty + e.in - e.out
    BY DEF Follows, Continues
  <2>9. Balance(t).qty = e.qty
    BY <1>11 DEF BalanceOf
  <2>10. SumFunctionOnSet(g, LotsIn(m, p)) = e.qty
    BY ONLY <1>4, <1>5, <1>11, <2>4, <2>5, <2>6, <2>7, <2>8, e.out = 0
  <2> QED
    BY ONLY <2>1, <2>9, <2>10 DEF Units
<1>15. PICK y : y = e.in * e.costIn
  OBVIOUS
<1>16. y \in Int /\ Worth(l, p) \in Int /\ Worth(m, p) = Worth(l, p) + y
  <2>1. PICK f, g : /\ f = [j \in DOMAIN l |-> l[j].available * l[j].cost]
                    /\ g = [j \in DOMAIN m |-> m[j].available * m[j].cost]
    OBVIOUS
  <2>2. \A j \in LotsIn(l, p) \cup {i} : g[j] \in Int
    BY ONLY <1>4, <1>12, <1>13, <2>1
  <2>3. \A j \in LotsIn(l, p) : g[j] = f[j]
    BY ONLY <1>2, <1>12, <2>1
  <2>4. y \in Int
    BY ONLY <1>5, <1>15
  <2>5. g[i] = y
    BY ONLY <1>2, <1>15, <2>1, lot.available = e.in, e.costIn = lot.cost
  <2>6. SumFunctionOnSet(g, LotsIn(l, p)) = SumFunctionOnSet(f, LotsIn(l, p))
    BY ONLY <1>12, <2>3, SumEqual
  <2>7. SumFunctionOnSet(g, LotsIn(l, p) \cup {i}) = SumFunctionOnSet(g, LotsIn(l, p)) + g[i]
    BY ONLY <1>4, <1>12, <2>2, SumAdd
  <2>8. SumFunctionOnSet(g, LotsIn(l, p)) \in Int
    BY ONLY <1>12, <2>2, SumType
  <2> QED
    BY ONLY <1>4, <2>1, <2>4, <2>5, <2>6, <2>7, <2>8 DEF Worth
<1>17. Near(Worth(m, p), t)
  <2>1. PICK a, z : a = Worth(l, p) /\ z = Worth(m, p)
    OBVIOUS
  <2>2. Near(a, s)
    BY ONLY <1>10, <2>1 DEF Valued
  <2>3. Carries(e, a, z)
    <3>1. e.out * e.costOut = 0
      BY EntryIs
    <3>2. a + y = a + (y - 0)
      BY ONLY <1>16, <2>1
    <3> QED
      BY ONLY <1>15, <1>16, <2>1, <3>1, <3>2 DEF Carries
  <2>4. a \in Int
    BY ONLY <1>16, <2>1
  <2>5. e.lot # 0
    BY ONLY <1>5, e.lot = i
  <2>6. Near(z, t)
    BY ONLY <1>1, <2>2, <2>3, <2>4, <2>5, StaysClose, s \in Seq(EntryRow), e \in EntryRow,
            Follows(docs, s, p, e)
  <2> QED
    BY ONLY <2>1, <2>6
<1>18. Valued(docs, t, m, p)
  <2>1. PICK n : n = Len(s) + 1
    OBVIOUS
  <2>2. DOMAIN t = DOMAIN s \cup {n} /\ t[n] = e /\ \A x \in DOMAIN s : t[x] = s[x]
    BY <1>1, <2>1, Grown
  <2>3. \A x \in DOMAIN t : t[x].lot = 0 => docs[t[x].document].status = "voided"
    BY ONLY <1>5, <1>10, <2>2, e.lot = i DEF Valued
  <2> QED
    BY ONLY <1>14, <1>17, <2>3 DEF Valued
<1> QED
  BY ONLY <1>1, <1>2, <1>3, <1>8, <1>9, <1>18 DEF GoodFor

-----------------------------------------------------------------------------
(* Rounding.                                                               *)

\* ROUND_HALF_UP is off by half a unit at most.
LEMMA HalfUp ==
  ASSUME NEW v \in Nat, NEW q \in Nat \ {0}, NEW u, u = RoundHalfUp(v, q)
  PROVE  u \in Nat /\ 2 * (v - q * u) <= q /\ 2 * (q * u - v) <= q
<1>1. PICK a, b : a = 2 * v + q /\ b = 2 * q
  OBVIOUS
<1>2. a \in Nat /\ b \in Nat \ {0}
  BY <1>1
<1>3. u = a \div b
  BY <1>1 DEF RoundHalfUp
<1>4. u \in Nat /\ b * u <= a /\ a < b * u + b
  BY ONLY <1>2, <1>3
<1>5. PICK y : y = q * u
  OBVIOUS
<1>6. y \in Nat /\ b * u = 2 * y
  BY ONLY <1>1, <1>4, <1>5, q \in Nat \ {0}
<1>7. 2 * (v - y) <= q /\ 2 * (y - v) <= q
  BY ONLY <1>1, <1>4, <1>6, v \in Nat, q \in Nat \ {0}
<1> QED
  BY <1>4, <1>5, <1>7

\* A unit cost times its quantity is the value, to half a unit for each piece.
LEMMA UnitCostIs ==
  ASSUME NEW v \in Int, NEW q \in Nat \ {0}, NEW u, u = UnitCost(v, q)
  PROVE  u \in Int /\ 2 * (v - q * u) <= q /\ 2 * (q * u - v) <= q
<1>1. CASE v >= 0
  <2>1. v \in Nat /\ u = RoundHalfUp(v, q)
    BY <1>1 DEF UnitCost
  <2> QED
    BY <2>1, HalfUp
<1>2. CASE v < 0
  <2>1. PICK w : w = RoundHalfUp(-v, q)
    OBVIOUS
  <2>2. -v \in Nat /\ u = -w
    BY <1>2, <2>1 DEF UnitCost
  <2>3. w \in Nat /\ 2 * ((-v) - q * w) <= q /\ 2 * (q * w - (-v)) <= q
    BY <2>1, <2>2, HalfUp
  <2>4. PICK y : y = q * w
    OBVIOUS
  <2>5. y \in Nat /\ q * u = -y
    BY ONLY <2>2, <2>3, <2>4, q \in Nat \ {0}
  <2>6. 2 * ((-v) - y) <= q /\ 2 * (y - (-v)) <= q
    BY ONLY <2>3, <2>4
  <2>7. 2 * (v - (-y)) <= q /\ 2 * ((-y) - v) <= q
    BY ONLY <2>5, <2>6, v \in Int, q \in Nat \ {0}
  <2> QED
    BY ONLY <2>2, <2>3, <2>5, <2>7
<1> QED
  BY <1>1, <1>2

\* What a column keeps.
LEMMA ColumnIs ==
  ASSUME NEW v \in Int, NEW u, u = Column(v)
  PROVE  /\ u \in Int /\ 2 * (v - Grain * u) <= Grain /\ 2 * (Grain * u - v) <= Grain
         /\ v >= 0 => u \in Nat
<1>1. u = UnitCost(v, Grain) /\ Grain \in Nat \ {0}
  BY DEF Column
<1>2. v >= 0 => u \in Nat
  BY <1>1, HalfUp DEF UnitCost
<1> QED
  BY <1>1, <1>2, UnitCostIs

\* A receipt keeps the value of its pieces and the cost of one, each rounded on its
\* own: half a unit for the one and for each piece.
LEMMA ReceiptRounds ==
  ASSUME NEW old \in Int, NEW q \in Nat, NEW cost \in Int,
         NEW v, v = Column(Grain * old + q * cost), NEW c, c = Column(cost)
  PROVE  2 * (v - (old + q * c)) <= q + 1 /\ 2 * ((old + q * c) - v) <= q + 1
<1>1. PICK a, b, r : a = Grain * old /\ b = q * cost /\ r = cost - Grain * c
  OBVIOUS
<1>2. Grain \in Nat \ {0} /\ a \in Int /\ b \in Int
  BY <1>1
<1>3. v \in Int /\ 2 * ((a + b) - Grain * v) <= Grain /\ 2 * (Grain * v - (a + b)) <= Grain
  <2>1. a + b \in Int /\ v = Column(a + b)
    BY <1>1, <1>2
  <2> QED
    BY ONLY <2>1, ColumnIs
<1>4. c \in Int /\ 2 * (cost - Grain * c) <= Grain /\ 2 * (Grain * c - cost) <= Grain
  BY ColumnIs
<1>5. PICK x, w, z : x = Grain * v /\ w = Grain * c /\ z = q * c
  OBVIOUS
<1>6. x \in Int /\ w \in Int /\ z \in Int /\ r \in Int
  BY ONLY <1>1, <1>2, <1>3, <1>4, <1>5, q \in Nat, cost \in Int
<1>7. 2 * r <= Grain /\ 2 * (-r) <= Grain
  BY ONLY <1>1, <1>2, <1>4, <1>5, <1>6, cost \in Int
<1>8. PICK y, s : y = q * r /\ s = q * Grain
  OBVIOUS
<1>9. y \in Int /\ s \in Nat /\ 2 * y <= s /\ 2 * (-y) <= s
  <2>1. PICK k : k = Grain - 2 * r
    OBVIOUS
  <2>2. PICK m : m = Grain + 2 * r
    OBVIOUS
  <2>3. k \in Nat /\ m \in Nat
    BY ONLY <1>2, <1>6, <1>7, <2>1, <2>2
  <2>4. q * k \in Nat /\ q * m \in Nat /\ y \in Int /\ s \in Nat
    BY ONLY <1>2, <1>6, <1>8, <2>3, q \in Nat
  <2>5. q * k = s - 2 * y /\ q * m = s + 2 * y
    BY ONLY <1>2, <1>6, <1>8, <2>1, <2>2, <2>3, q \in Nat
  <2> QED
    BY ONLY <2>4, <2>5
<1>10. y = b - Grain * z
  <2>1. q * r = q * cost - q * (Grain * c)
    BY ONLY <1>1, <1>2, <1>4, q \in Nat, cost \in Int
  <2>2. q * (Grain * c) = Grain * (q * c)
    BY ONLY <1>2, <1>4, q \in Nat
  <2> QED
    BY ONLY <1>1, <1>5, <1>8, <2>1, <2>2
<1>11. PICK g, h : g = v - (old + z) /\ h = Grain * g
  OBVIOUS
<1>12. g \in Int /\ h \in Int
  BY ONLY <1>2, <1>3, <1>6, <1>11, old \in Int
<1>13. h = x - a - Grain * z
  BY ONLY <1>1, <1>2, <1>3, <1>5, <1>6, <1>11, old \in Int
<1>14. h = (x - (a + b)) + y
  <2>1. PICK f : f = Grain * z
    OBVIOUS
  <2>2. f \in Int /\ y = b - f /\ h = x - a - f
    BY ONLY <1>2, <1>6, <1>10, <1>13, <2>1
  <2> QED
    BY ONLY <1>2, <1>6, <1>9, <2>2
<1>15. 2 * h <= Grain + s /\ 2 * (-h) <= Grain + s
  BY ONLY <1>2, <1>3, <1>5, <1>6, <1>9, <1>12, <1>14
<1>16. Grain * ((q + 1) - 2 * g) >= 0 /\ Grain * ((q + 1) + 2 * g) >= 0
  <2>1. Grain * ((q + 1) - 2 * g) = s + Grain - 2 * h
    BY ONLY <1>2, <1>8, <1>11, <1>12, q \in Nat
  <2>2. Grain * ((q + 1) + 2 * g) = s + Grain + 2 * h
    BY ONLY <1>2, <1>8, <1>11, <1>12, q \in Nat
  <2> QED
    BY ONLY <1>2, <1>9, <1>12, <1>15, <2>1, <2>2
<1>17. \A n \in Int : Grain * n >= 0 => n >= 0
  BY ONLY <1>2
<1>18. (q + 1) - 2 * g >= 0 /\ (q + 1) + 2 * g >= 0
  <2>1. (q + 1) - 2 * g \in Int /\ (q + 1) + 2 * g \in Int
    BY ONLY <1>12, q \in Nat
  <2> QED
    BY ONLY <1>16, <1>17, <2>1
<1>19. 2 * (v - (old + z)) <= q + 1 /\ 2 * ((old + z) - v) <= q + 1
  BY ONLY <1>3, <1>6, <1>11, <1>12, <1>18, q \in Nat, old \in Int
<1> QED
  BY ONLY <1>5, <1>19

\* An average is a whole number of the smallest units.
LEMMA AverageType ==
  ASSUME NEW v \in Int, NEW q \in Int
  PROVE  Average(v, q) \in Int
BY UnitCostIs DEF Average

-----------------------------------------------------------------------------
(* A voided document.                                                      *)

\* The entry e takes back what d moved: the quantity exactly, and the value too,
\* with a unit cost rounded to the smallest unit.
Reverses(e, s, d, net) ==
  /\ e \in EntryRow /\ e.document = d /\ e.lot = 0 /\ e.in - e.out = -net
  /\ e.qty = Balance(s).qty - net
  /\ e.value = Balance(s).value - NetValue(s, Places(s, d))
  /\ Continues(e, Balance(s))

\* _record_reversal of a document that moved something.
LEMMA ReversalIs ==
  ASSUME NEW p \in Products, NEW d \in Nat, kardex[p] \in Seq(EntryRow),
         Net(kardex[p], Places(kardex[p], d)) # 0
  PROVE  Reverses(ReversalEntry(d, p), kardex[p], d, Net(kardex[p], Places(kardex[p], d)))
<1> PICK s, e : s = kardex[p] /\ e = ReversalEntry(d, p)
  BY Zenon
<1> PICK net : net = Net(s, Places(s, d))
  BY Zenon
<1> s \in Seq(EntryRow) /\ net # 0
  OBVIOUS
<1> SUFFICES Reverses(e, s, d, net)
  OBVIOUS
<1>1. EntriesOf(d, p) = Places(s, d) /\ Places(s, d) \in SUBSET (DOMAIN s)
  BY DEF EntriesOf, Places
<1>2. PICK old, v : old = Balance(s) /\ v = NetValue(s, Places(s, d))
  OBVIOUS
<1>3. net \in Int /\ v \in Int
  BY ONLY <1>1, <1>2, SumsAre, s = kardex[p], kardex[p] \in Seq(EntryRow), net = Net(s, Places(s, d))
<1>4. old.qty \in Int /\ old.value \in Int
  BY <1>2, BalanceType
<1>5. PICK unit : unit = IF net > 0 THEN UnitCost(v, net) ELSE UnitCost(-v, -net)
  OBVIOUS
<1>6. e = [document |-> d, lot |-> 0,
           in |-> IF net < 0 THEN -net ELSE 0, costIn |-> IF net < 0 THEN unit ELSE 0,
           out |-> IF net > 0 THEN net ELSE 0, costOut |-> IF net > 0 THEN unit ELSE 0,
           qty |-> old.qty - net, value |-> old.value - v,
           avg |-> Average(old.value - v, old.qty - net)]
  BY ONLY <1>1, <1>2, <1>5, e = ReversalEntry(d, p), s = kardex[p], net = Net(s, Places(s, d)), net # 0
     DEF ReversalEntry, NetQuantity
<1>7. /\ e.document = d /\ e.lot = 0
      /\ e.in = (IF net < 0 THEN -net ELSE 0) /\ e.costIn = (IF net < 0 THEN unit ELSE 0)
      /\ e.out = (IF net > 0 THEN net ELSE 0) /\ e.costOut = (IF net > 0 THEN unit ELSE 0)
      /\ e.qty = old.qty - net /\ e.value = old.value - v
      /\ e.avg = Average(old.value - v, old.qty - net)
  BY ONLY <1>6
<1>8. CASE net > 0
  <2>1. unit = UnitCost(v, net) /\ net \in Nat \ {0}
    BY <1>3, <1>5, <1>8
  <2>2. unit \in Int /\ 2 * (v - net * unit) <= net /\ 2 * (net * unit - v) <= net
    BY ONLY <1>3, <2>1, UnitCostIs
  <2>3. e.in = 0 /\ e.costIn = 0 /\ e.out = net /\ e.costOut = unit
    BY ONLY <1>7, <2>1
  <2>4. PICK y : y = net * unit
    OBVIOUS
  <2>5. y \in Int /\ e.in * e.costIn = 0 /\ e.out * e.costOut = y
    BY ONLY <2>1, <2>2, <2>3, <2>4
  <2>6. e.qty = old.qty + e.in - e.out
    BY ONLY <1>3, <1>4, <1>7, <2>3
  <2>7. 2 * Abs((old.value - v) - (old.value + 0 - y)) <= 0 + net
    <3>1. (old.value - v) - (old.value + 0 - y) = y - v
      BY ONLY <1>3, <1>4, <2>5
    <3>2. 2 * Abs(y - v) <= net
      BY ONLY <1>3, <2>1, <2>2, <2>4, <2>5 DEF Abs
    <3> QED
      BY ONLY <2>1, <3>1, <3>2
  <2>8. Continues(e, old)
    <3>1. Drift(e, old) = (old.value - v) - (old.value + 0 - y)
      BY ONLY <1>7, <2>5 DEF Drift
    <3>2. 0 + net <= e.in + e.out + 1
      BY ONLY <2>1, <2>3
    <3>3. 2 * Abs(Drift(e, old)) \in Int /\ 0 + net \in Int /\ e.in + e.out + 1 \in Int
      BY ONLY <1>3, <1>4, <2>1, <2>3, <2>5, <3>1 DEF Abs
    <3> QED
      BY ONLY <2>6, <2>7, <3>1, <3>2, <3>3 DEF Continues
  <2>9. Average(old.value - v, old.qty - net) \in Int
    <3>1. old.value - v \in Int /\ old.qty - net \in Int
      BY ONLY <1>3, <1>4
    <3> QED
      BY ONLY <3>1, AverageType
  <2>10. e \in EntryRow
    BY ONLY <1>3, <1>4, <1>6, <2>1, <2>2, <2>9, d \in Nat DEF EntryRow
  <2>11. e.in - e.out = -net
    BY ONLY <1>3, <2>3
  <2> QED
    BY ONLY <1>2, <1>7, <2>8, <2>10, <2>11 DEF Reverses
<1>9. CASE net < 0
  <2>1. unit = UnitCost(-v, -net) /\ -net \in Nat \ {0} /\ -v \in Int
    BY <1>3, <1>5, <1>9
  <2>2. PICK q : q = -net
    OBVIOUS
  <2>3. unit \in Int /\ 2 * ((-v) - q * unit) <= q /\ 2 * (q * unit - (-v)) <= q
    BY ONLY <2>1, <2>2, UnitCostIs
  <2>4. e.in = q /\ e.costIn = unit /\ e.out = 0 /\ e.costOut = 0
    BY ONLY <1>3, <1>7, <1>9, <2>2
  <2>5. PICK y : y = q * unit
    OBVIOUS
  <2>6. q \in Nat /\ y \in Int /\ e.in * e.costIn = y /\ e.out * e.costOut = 0
    BY ONLY <2>1, <2>2, <2>3, <2>4, <2>5
  <2>7. e.qty = old.qty + e.in - e.out
    BY ONLY <1>3, <1>4, <1>7, <2>2, <2>4
  <2>8. 2 * Abs((old.value - v) - (old.value + y - 0)) <= q + 0
    <3>1. (old.value - v) - (old.value + y - 0) = (-v) - y
      BY ONLY <1>3, <1>4, <2>6
    <3>2. 2 * Abs((-v) - y) <= q
      BY ONLY <1>3, <2>3, <2>5, <2>6 DEF Abs
    <3> QED
      BY ONLY <2>6, <3>1, <3>2
  <2>9. Continues(e, old)
    <3>1. Drift(e, old) = (old.value - v) - (old.value + y - 0)
      BY ONLY <1>7, <2>6 DEF Drift
    <3>2. q + 0 <= e.in + e.out + 1
      BY ONLY <2>4, <2>6
    <3>3. 2 * Abs(Drift(e, old)) \in Int /\ q + 0 \in Int /\ e.in + e.out + 1 \in Int
      BY ONLY <1>3, <1>4, <2>4, <2>6, <3>1 DEF Abs
    <3> QED
      BY ONLY <2>7, <2>8, <3>1, <3>2, <3>3 DEF Continues
  <2>10. Average(old.value - v, old.qty - net) \in Int
    <3>1. old.value - v \in Int /\ old.qty - net \in Int
      BY ONLY <1>3, <1>4
    <3> QED
      BY ONLY <3>1, AverageType
  <2>11. e \in EntryRow
    BY ONLY <1>3, <1>4, <1>6, <1>9, <2>1, <2>3, <2>10, d \in Nat DEF EntryRow
  <2>12. e.in - e.out = -net
    BY ONLY <1>3, <2>2, <2>4
  <2> QED
    BY ONLY <1>2, <1>7, <2>9, <2>11, <2>12 DEF Reverses
<1> QED
  BY ONLY <1>3, <1>8, <1>9, net # 0

\* The documents after d is voided.
Voided(docs, d) == [docs EXCEPT ![d].status = "voided"]

LEMMA VoidedDocument ==
  ASSUME NEW docs \in Seq(Document), NEW d \in DOMAIN docs, NEW more,
         more = Voided(docs, d)
  PROVE  /\ more \in Seq(Document) /\ DOMAIN more = DOMAIN docs /\ Len(more) = Len(docs)
         /\ more[d].status = "voided"
         /\ more[d].lines = docs[d].lines /\ more[d].kind = docs[d].kind
         /\ \A c \in DOMAIN docs \ {d} : more[c] = docs[c]
<1>1. PICK doc : doc = [docs[d] EXCEPT !.status = "voided"]
  OBVIOUS
<1>2. docs[d] \in Document
  BY ListIs
<1>3. /\ doc.status = "voided" /\ doc.lines = docs[d].lines /\ doc.kind = docs[d].kind
      /\ doc \in Document
  BY <1>1, <1>2 DEF Document
<1>4. more = [docs EXCEPT ![d] = doc]
  BY <1>1 DEF Voided
<1> QED
  BY <1>3, <1>4

\* The entries of d about lot i.
About(s, d, i) == {x \in Places(s, d) : s[x].lot = i}

\* Sums over two parts of some of the entries.
LEMMA SumsOfParts ==
  ASSUME NEW s \in Seq(EntryRow), NEW A \in SUBSET (DOMAIN s), NEW B \in SUBSET A
  PROVE  In(s, A) = In(s, B) + In(s, A \ B) /\ Net(s, A) = Net(s, B) + Net(s, A \ B)
<1>1. PICK f, h : /\ f = [x \in DOMAIN s |-> s[x].in]
                  /\ h = [x \in DOMAIN s |-> s[x].in - s[x].out]
  OBVIOUS
<1>2. \A x \in DOMAIN s : s[x].in \in Nat /\ s[x].out \in Nat
  BY ListIs, EntryIs
<1>3. \A x \in A : f[x] \in Int /\ h[x] \in Int
  BY ONLY <1>1, <1>2, A \in SUBSET (DOMAIN s)
<1>4. PICK C : C = A \ B
  OBVIOUS
<1>5. IsFiniteSet(B) /\ IsFiniteSet(C) /\ B \cap C = {} /\ B \cup C = A
  BY <1>4, ListIs, FS_Subset
<1>6. \A x \in B \cup C : f[x] \in Int /\ h[x] \in Int
  BY ONLY <1>3, <1>5
<1>7. /\ SumFunctionOnSet(f, B \cup C) = SumFunctionOnSet(f, B) + SumFunctionOnSet(f, C)
      /\ SumFunctionOnSet(h, B \cup C) = SumFunctionOnSet(h, B) + SumFunctionOnSet(h, C)
  BY ONLY <1>5, <1>6, SumUnion
<1> QED
  BY ONLY <1>1, <1>4, <1>5, <1>7 DEF In, Net

\* What void_document has checked before it changes anything.
Untouched(s, l, d) ==
  \A x \in Places(s, d) : (s[x].lot # 0 /\ s[x].in > 0) => l[s[x].lot].available >= s[x].in

\* A document in force that can be voided, and the books of a product.
Voidable(peps, docs, d, s, l, p) ==
  docs[d].status = "approved" /\ GoodFor(peps, docs, s, l, p) /\ Untouched(s, l, d)

\* Of the entries of a document, one at most brought a lot in, and void_document
\* has seen that all it brought is still there.
LEMMA BroughtIsThere ==
  ASSUME NEW peps, NEW docs, NEW d, NEW s \in Seq(EntryRow), NEW p,
         NEW l \in Seq(LotRow), NEW i \in LotsIn(l, p),
         Voidable(peps, docs, d, s, l, p)
  PROVE  In(s, About(s, d, i)) <= l[i].available
<1>1. PICK f, D : f = [x \in DOMAIN s |-> s[x].in] /\ D = About(s, d, i)
  OBVIOUS
<1>2. D \subseteq DOMAIN s /\ IsFiniteSet(D) /\ \A x \in D : s[x].lot = i /\ x \in Places(s, d)
  BY <1>1, ListIs, FS_Subset DEF About, Places
<1>3. \A x \in D : f[x] = s[x].in /\ s[x].in \in Nat
  BY <1>1, <1>2, ListIs, EntryIs
<1>4. i # 0 /\ i \in DOMAIN l /\ l[i].available \in Nat
  BY ListIs, LotIs DEF LotsIn
<1>5. CASE \A x \in D : s[x].in = 0
  <2>1. SumFunctionOnSet(f, D) = 0
    BY ONLY <1>2, <1>3, <1>5, SumZero
  <2> QED
    BY ONLY <1>1, <1>4, <2>1 DEF In
<1>6. CASE \E x \in D : s[x].in # 0
  <2>1. PICK x \in D : s[x].in # 0
    BY <1>6
  <2>2. s[x].in > 0
    BY <1>3, <2>1
  <2>3. ArrivesOnce(s)
    BY DEF Voidable, GoodFor
  <2>4. \A y \in D \ {x} : f[y] = 0
    <3> SUFFICES ASSUME NEW y \in D \ {x}, f[y] # 0 PROVE FALSE
      OBVIOUS
    <3>1. s[y].in > 0 /\ s[y].lot = s[x].lot /\ s[x].lot # 0 /\ x \in DOMAIN s /\ y \in DOMAIN s
      BY <1>2, <1>3, <1>4
    <3> QED
      BY ONLY <2>2, <2>3, <3>1, y \in D \ {x} DEF ArrivesOnce
  <2>5. IsFiniteSet(D \ {x}) /\ SumFunctionOnSet(f, D \ {x}) = 0
    BY ONLY <1>2, <2>4, SumZero, FS_Subset
  <2>6. SumFunctionOnSet(f, D) = f[x] + SumFunctionOnSet(f, D \ {x})
    BY ONLY <1>2, <1>3, SumTake, x \in D, Nat \subseteq Int
  <2>7. l[i].available >= s[x].in
    BY <1>2, <1>4, <2>2 DEF Voidable, Untouched
  <2>8. SumFunctionOnSet(f, D) = s[x].in
    BY ONLY <1>3, <2>5, <2>6
  <2> QED
    BY ONLY <1>1, <1>3, <1>4, <2>7, <2>8 DEF In
<1> QED
  BY <1>5, <1>6

\* Lot i is what it was without what d moved in it: what the entries moved that
\* are still in force.
Returned(lot, old, s, more, d, i) ==
  /\ lot \in LotRow /\ lot.product = old.product
  /\ lot.cost = old.cost /\ lot.document = old.document
  /\ lot.available = old.available - Net(s, About(s, d, i))
  /\ lot.initial = In(s, Standing(more, s, i))
  /\ lot.available = Net(s, Standing(more, s, i))

\* Every lot goes back by what the document moved in it.
LEMMA LotRestored ==
  ASSUME NEW peps, NEW docs \in Seq(Document), NEW d \in DOMAIN docs,
         NEW s \in Seq(EntryRow), NEW p, NEW l \in Seq(LotRow), NEW i \in LotsIn(l, p),
         Voidable(peps, docs, d, s, l, p)
  PROVE  Returned(RestoreLot(l[i], In(s, About(s, d, i)), Out(s, About(s, d, i))), l[i],
                  s, Voided(docs, d), d, i)
<1> PICK more, lot : /\ more = Voided(docs, d)
                     /\ lot = RestoreLot(l[i], In(s, About(s, d, i)), Out(s, About(s, d, i)))
  OBVIOUS
<1>0. docs[d].status = "approved" /\ GoodFor(peps, docs, s, l, p)
  BY DEF Voidable
<1>1. PICK A, B, C : /\ A = Standing(docs, s, i) /\ B = About(s, d, i)
                     /\ C = Standing(more, s, i)
  OBVIOUS
<1>2. A \in SUBSET (DOMAIN s) /\ B \in SUBSET A
  BY ONLY <1>0, <1>1 DEF Standing, About, Places
<1>3. C = A \ B
  <2>1. /\ DOMAIN more = DOMAIN docs /\ more[d].status = "voided"
        /\ \A c \in DOMAIN docs \ {d} : more[c] = docs[c]
    BY ONLY VoidedDocument, docs \in Seq(Document), d \in DOMAIN docs, more = Voided(docs, d)
  <2>2. \A x \in DOMAIN s : s[x].document \in DOMAIN docs
    BY <1>0 DEF GoodFor, Refers
  <2> QED
    BY ONLY <1>1, <2>1, <2>2, <1>0 DEF Standing, About, Places
<1>4. In(s, A) = In(s, B) + In(s, C) /\ Net(s, A) = Net(s, B) + Net(s, C)
  BY ONLY <1>2, <1>3, SumsOfParts, s \in Seq(EntryRow)
<1>5. /\ In(s, B) \in Nat /\ Out(s, B) \in Nat /\ Net(s, B) = In(s, B) - Out(s, B)
      /\ In(s, C) \in Nat /\ Out(s, C) \in Nat /\ Net(s, C) = In(s, C) - Out(s, C)
  BY ONLY <1>2, <1>3, SumsAre, s \in Seq(EntryRow)
<1>6. l[i].initial = In(s, A) /\ l[i].available = Net(s, A)
  BY <1>0, <1>1 DEF GoodFor, Holds
<1>7. l[i] \in LotRow
  BY ListIs DEF LotsIn
<1>8. In(s, B) <= l[i].available
  BY <1>1, BroughtIsThere
<1>9. lot = [l[i] EXCEPT !.available = @ - In(s, B) + Out(s, B), !.initial = @ - In(s, B)]
  BY <1>1 DEF RestoreLot
<1>10. /\ lot.product = l[i].product /\ lot.cost = l[i].cost /\ lot.document = l[i].document
       /\ lot.available = l[i].available - In(s, B) + Out(s, B)
       /\ lot.initial = l[i].initial - In(s, B)
  BY ONLY <1>7, <1>9 DEF LotRow
<1>11. l[i].initial \in Nat /\ l[i].available \in Nat
  BY ONLY <1>7, LotIs
<1>12. /\ l[i].available - In(s, B) + Out(s, B) \in Nat /\ l[i].initial - In(s, B) \in Nat
  <2>1. PICK a, b, c, o, n : /\ a = l[i].available /\ b = In(s, B) /\ c = In(s, C)
                             /\ o = Out(s, B) /\ n = l[i].initial
    OBVIOUS
  <2>2. a \in Nat /\ b \in Nat /\ c \in Nat /\ o \in Nat /\ b <= a /\ n = b + c
    BY ONLY <1>4, <1>5, <1>6, <1>8, <1>11, <2>1
  <2>3. a - b + o \in Nat /\ n - b \in Nat
    BY ONLY <2>2
  <2> QED
    BY ONLY <2>1, <2>3
<1>13. lot \in LotRow
  BY ONLY <1>7, <1>9, <1>12 DEF LotRow
<1>14. /\ lot.available = l[i].available - Net(s, B) /\ lot.available = Net(s, C)
       /\ lot.initial = In(s, C)
  <2>1. PICK a, b, c, x, y :
          /\ a = In(s, B) /\ b = Out(s, B) /\ c = Net(s, B) /\ x = l[i].available /\ y = l[i].initial
    OBVIOUS
  <2>2. a \in Nat /\ b \in Nat /\ x \in Nat /\ y \in Nat /\ c = a - b
    BY ONLY <1>5, <1>11, <2>1
  <2>3. lot.available = x - a + b /\ lot.initial = y - a
    BY ONLY <1>10, <2>1
  <2>4. y = a + In(s, C) /\ x = c + Net(s, C) /\ In(s, C) \in Int /\ Net(s, C) \in Int
    BY ONLY <1>4, <1>5, <1>6, <2>1
  <2>5. x - a + b = x - c
    BY ONLY <2>2
  <2>6. x - a + b = Net(s, C) /\ y - a = In(s, C)
    BY ONLY <2>2, <2>4
  <2> QED
    BY ONLY <2>1, <2>3, <2>5, <2>6
<1> QED
  BY ONLY <1>1, <1>10, <1>13, <1>14, more = Voided(docs, d),
          lot = RestoreLot(l[i], In(s, About(s, d, i)), Out(s, About(s, d, i))) DEF Returned

\* The units h and the value v that d moved in each lot of p.
ByLot(docs, d, s, l, p, K, h, v) ==
  /\ GoodFor(TRUE, docs, s, l, p)
  /\ docs[d].status = "approved"
  /\ K = LotsIn(l, p)
  /\ \A i \in K : h[i] = Net(s, About(s, d, i)) /\ v[i] = l[i].cost * h[i]

\* What a document moved is the sum of what it moved in each lot, and so is the
\* value, at the cost of each.
LEMMA MovedByLot ==
  ASSUME NEW docs, NEW d, NEW s \in Seq(EntryRow), NEW p, NEW l \in Seq(LotRow),
         NEW K, NEW h, NEW v, ByLot(docs, d, s, l, p, K, h, v)
  PROVE  /\ IsFiniteSet(K) /\ \A i \in K : h[i] \in Int /\ v[i] \in Int
         /\ SumFunctionOnSet(h, K) = Net(s, Places(s, d))
         /\ SumFunctionOnSet(v, K) = NetValue(s, Places(s, d))
<1>0. /\ GoodFor(TRUE, docs, s, l, p) /\ docs[d].status = "approved" /\ K = LotsIn(l, p)
      /\ \A i \in K : h[i] = Net(s, About(s, d, i)) /\ v[i] = l[i].cost * h[i]
  BY DEF ByLot
<1>1. PICK f, w, S, key, part :
        /\ f = [x \in DOMAIN s |-> s[x].in - s[x].out]
        /\ w = [x \in DOMAIN s |-> s[x].in * s[x].costIn - s[x].out * s[x].costOut]
        /\ S = Places(s, d) /\ key = [x \in DOMAIN s |-> s[x].lot]
        /\ part = [i \in K |-> About(s, d, i)]
  OBVIOUS
<1>2. S \subseteq DOMAIN s /\ IsFiniteSet(S) /\ K \subseteq DOMAIN l /\ IsFiniteSet(K)
  BY <1>0, <1>1, ListIs, FS_Subset DEF Places, LotsIn
<1>3. \A i \in K : part[i] = About(s, d, i) /\ part[i] \in SUBSET S /\ part[i] \in SUBSET (DOMAIN s)
  BY <1>1, <1>2 DEF About
<1>4. \A i \in K : \A x : x \in part[i] <=> x \in S /\ key[x] = i
  BY <1>1, <1>2 DEF About
<1>5. \A x \in S : key[x] \in K
  <2> SUFFICES ASSUME NEW x \in S PROVE key[x] \in K
    OBVIOUS
  <2>1. s[x].document = d /\ x \in DOMAIN s
    BY <1>1 DEF Places
  <2>2. Refers(docs, l, p, s[x]) /\ (s[x].lot = 0 => docs[s[x].document].status = "voided")
    BY <1>0, <2>1 DEF GoodFor, Valued
  <2>3. s[x].lot # 0
    BY <1>0, <2>1, <2>2
  <2>4. s[x].lot \in DOMAIN l /\ l[s[x].lot].product = p
    BY <2>2, <2>3 DEF Refers
  <2> QED
    BY <1>0, <1>1, <2>1, <2>4 DEF LotsIn
<1>6. \A x \in DOMAIN s : /\ s[x].in \in Nat /\ s[x].out \in Nat
                          /\ s[x].costIn \in Int /\ s[x].costOut \in Int
  BY ListIs, EntryIs
<1>7. \A x \in S : f[x] \in Int
  BY ONLY <1>1, <1>2, <1>6
<1>8. \A i \in K : l[i].cost \in Nat
  BY <1>2, ListIs, LotIs
<1>9. ASSUME NEW i \in K, NEW x \in part[i]
      PROVE  w[x] = l[i].cost * f[x]
  <2>1. x \in DOMAIN s /\ s[x].lot = i /\ x \in S
    BY <1>3, <1>9 DEF About
  <2>2. i # 0
    BY <1>2, ListIs
  <2>3. Refers(docs, l, p, s[x])
    BY <1>0, <2>1 DEF GoodFor
  <2>4. AtCost(s[x], l[i])
    BY <2>1, <2>2, <2>3 DEF Refers
  <2>5. PICK a, b, c : a = s[x].in /\ b = s[x].out /\ c = l[i].cost
    OBVIOUS
  <2>6. a \in Nat /\ b \in Nat /\ c \in Nat
    BY <1>6, <1>8, <2>1, <2>5
  <2>7. (a # 0 => b = 0 /\ s[x].costIn = c) /\ (b # 0 => a = 0 /\ s[x].costOut = c)
    BY ONLY <2>4, <2>5 DEF AtCost
  <2>8. w[x] = a * s[x].costIn - b * s[x].costOut /\ f[x] = a - b
    BY ONLY <1>1, <2>1, <2>5
  <2>9. s[x].costIn \in Int /\ s[x].costOut \in Int
    BY <1>6, <2>1
  <2>10. a * s[x].costIn = a * c /\ b * s[x].costOut = b * c
    BY ONLY <2>6, <2>7, <2>9
  <2>11. a * c - b * c = c * (a - b)
    BY ONLY <2>6
  <2> QED
    BY ONLY <2>5, <2>8, <2>10, <2>11
<1>10. \A x \in S : w[x] \in Int
  <2> SUFFICES ASSUME NEW x \in S PROVE w[x] \in Int
    OBVIOUS
  <2>1. key[x] \in K /\ x \in part[key[x]]
    BY ONLY <1>4, <1>5, x \in S
  <2>2. w[x] = l[key[x]].cost * f[x] /\ l[key[x]].cost \in Nat /\ f[x] \in Int
    BY ONLY <1>7, <1>8, <1>9, <2>1, x \in S
  <2> QED
    BY ONLY <2>2
<1>11. \A i \in K : h[i] = SumFunctionOnSet(f, part[i])
  BY ONLY <1>0, <1>1, <1>3 DEF Net
<1>12. ASSUME NEW i \in K PROVE h[i] \in Int /\ v[i] = SumFunctionOnSet(w, part[i])
  <2>1. PICK D : D = part[i]
    OBVIOUS
  <2>2. IsFiniteSet(D) /\ \A x \in D : f[x] \in Int /\ w[x] = l[i].cost * f[x]
    BY <1>2, <1>3, <1>7, <1>9, <2>1, FS_Subset
  <2>3. SumFunctionOnSet(f, D) \in Int
    BY ONLY <2>2, SumType
  <2>4. l[i].cost \in Int
    BY <1>8
  <2>5. SumFunctionOnSet(w, D) = l[i].cost * SumFunctionOnSet(f, D)
    BY ONLY <2>2, <2>4, SumTimes
  <2> QED
    BY ONLY <1>0, <1>11, <2>1, <2>3, <2>5, i \in K
<1>13. InParts(S, K, key, part)
  BY ONLY <1>4, <1>5 DEF InParts
<1>14. SumFunctionOnSet(f, S) = SumFunctionOnSet(h, K)
  BY ONLY <1>2, <1>7, <1>11, <1>13, SumParts
<1>15. SumFunctionOnSet(w, S) = SumFunctionOnSet(v, K)
  BY ONLY <1>2, <1>10, <1>12, <1>13, SumParts
<1>16. \A i \in K : h[i] \in Int /\ v[i] \in Int
  <2>1. \A i \in K : h[i] \in Int /\ l[i].cost \in Int /\ v[i] = l[i].cost * h[i]
    BY ONLY <1>0, <1>8, <1>12
  <2> QED
    BY ONLY <2>1
<1> QED
  BY ONLY <1>1, <1>2, <1>14, <1>15, <1>16 DEF Net, NetValue

\* The lots m are the lots l of p after d has been undone in the Kardex s.
Undone(more, d, s, l, m, p) ==
  /\ DOMAIN m = DOMAIN l
  /\ Keeps(l, m)
  /\ \A i \in LotsIn(l, p) :
       /\ m[i].available = l[i].available - Net(s, About(s, d, i))
       /\ Holds(more, s, m, i)

\* Before and after d is voided under PEPS.
Voiding(docs, more, d, s, l, m, p) ==
  /\ GoodFor(TRUE, docs, s, l, p)
  /\ docs[d].status = "approved"
  /\ Undone(more, d, s, l, m, p)

\* The lots have lost the units and the value that the document moved.
LEMMA UndoneTotals ==
  ASSUME NEW docs, NEW more, NEW d, NEW s \in Seq(EntryRow), NEW p,
         NEW l \in Seq(LotRow), NEW m \in Seq(LotRow), Voiding(docs, more, d, s, l, m, p)
  PROVE  /\ Units(m, p) = Units(l, p) - Net(s, Places(s, d))
         /\ Worth(m, p) = Worth(l, p) - NetValue(s, Places(s, d))
<1>0. GoodFor(TRUE, docs, s, l, p) /\ docs[d].status = "approved" /\ Undone(more, d, s, l, m, p)
  BY DEF Voiding
<1>1. PICK K : K = LotsIn(l, p)
  OBVIOUS
<1>2. /\ K \subseteq DOMAIN l /\ IsFiniteSet(K) /\ DOMAIN m = DOMAIN l /\ LotsIn(m, p) = K
      /\ \A i \in K : m[i].cost = l[i].cost
  BY <1>0, <1>1, ListIs, FS_Subset DEF LotsIn, Undone, Keeps
<1>3. PICK h : h = [i \in K |-> Net(s, About(s, d, i))]
  OBVIOUS
<1>4. PICK v : v = [i \in K |-> l[i].cost * h[i]]
  OBVIOUS
<1>5. /\ \A i \in K : h[i] = Net(s, About(s, d, i)) /\ v[i] = l[i].cost * h[i]
      /\ \A i \in K : m[i].available = l[i].available - h[i]
  BY ONLY <1>0, <1>1, <1>3, <1>4 DEF Undone
<1>6. /\ \A i \in K : h[i] \in Int /\ v[i] \in Int
      /\ SumFunctionOnSet(h, K) = Net(s, Places(s, d))
      /\ SumFunctionOnSet(v, K) = NetValue(s, Places(s, d))
  <2>1. ByLot(docs, d, s, l, p, K, h, v)
    BY ONLY <1>0, <1>1, <1>5 DEF ByLot
  <2> QED
    BY ONLY <2>1, MovedByLot, s \in Seq(EntryRow), l \in Seq(LotRow)
<1>7. \A i \in K : l[i].available \in Nat /\ l[i].cost \in Nat
  BY ONLY <1>2, ListIs, LotIs, l \in Seq(LotRow)
<1>8. Units(m, p) = Units(l, p) - Net(s, Places(s, d))
  <2>1. PICK f, g : f = [i \in DOMAIN l |-> l[i].available] /\ g = [i \in DOMAIN m |-> m[i].available]
    OBVIOUS
  <2>2. \A i \in K : f[i] = l[i].available /\ g[i] = l[i].available - h[i]
    BY ONLY <1>2, <1>5, <2>1
  <2>3. \A i \in K : f[i] \in Int /\ h[i] \in Int /\ g[i] = f[i] - h[i]
    BY ONLY <1>6, <1>7, <2>2
  <2>4. SumFunctionOnSet(g, K) = SumFunctionOnSet(f, K) - SumFunctionOnSet(h, K)
    BY ONLY <1>2, <2>3, SumDifference
  <2> QED
    BY ONLY <1>1, <1>2, <1>6, <2>1, <2>4 DEF Units
<1>9. Worth(m, p) = Worth(l, p) - NetValue(s, Places(s, d))
  <2>1. PICK f, g : /\ f = [i \in DOMAIN l |-> l[i].available * l[i].cost]
                    /\ g = [i \in DOMAIN m |-> m[i].available * m[i].cost]
    OBVIOUS
  <2>2. \A i \in K : f[i] = l[i].available * l[i].cost /\ g[i] = (l[i].available - h[i]) * l[i].cost
    BY ONLY <1>2, <1>5, <2>1
  <2>3. \A i \in K : f[i] \in Int /\ v[i] \in Int /\ g[i] = f[i] - v[i]
    <3> SUFFICES ASSUME NEW i \in K PROVE f[i] \in Int /\ v[i] \in Int /\ g[i] = f[i] - v[i]
      OBVIOUS
    <3>1. PICK a, b, c : a = l[i].available /\ b = h[i] /\ c = l[i].cost
      OBVIOUS
    <3>2. a \in Nat /\ b \in Int /\ c \in Nat
      BY ONLY <1>6, <1>7, <3>1, i \in K
    <3>3. f[i] = a * c /\ g[i] = (a - b) * c /\ v[i] = c * b
      BY ONLY <1>5, <2>2, <3>1, i \in K
    <3>4. a * c \in Int /\ c * b \in Int /\ (a - b) * c = a * c - c * b
      BY ONLY <3>2
    <3> QED
      BY ONLY <3>3, <3>4
  <2>4. SumFunctionOnSet(g, K) = SumFunctionOnSet(f, K) - SumFunctionOnSet(v, K)
    BY ONLY <1>2, <2>3, SumDifference
  <2> QED
    BY ONLY <1>1, <1>2, <1>6, <2>1, <2>4 DEF Worth
<1> QED
  BY <1>8, <1>9

\* void_document keeps the books of a product it says something about.
LEMMA VoidKeeps ==
  ASSUME NEW peps \in BOOLEAN, NEW docs \in Seq(Document), NEW d \in DOMAIN docs,
         docs[d].status = "approved",
         NEW more, more = Voided(docs, d),
         NEW p, NEW s \in Seq(EntryRow), NEW e \in EntryRow,
         NEW l \in Seq(LotRow), NEW m \in Seq(LotRow),
         GoodFor(peps, docs, s, l, p), Undone(more, d, s, l, m, p),
         \E i \in DOMAIN docs[d].lines : docs[d].lines[i].product = p,
         e.document = d, e.lot = 0, e.qty = Balance(s).qty - Net(s, Places(s, d)),
         e.value = Balance(s).value - NetValue(s, Places(s, d)), Continues(e, Balance(s))
  PROVE  GoodFor(peps, more, Append(s, e), m, p)
<1>1. PICK t, n : t = Append(s, e) /\ n = Len(s) + 1
  OBVIOUS
<1>2. DOMAIN t = DOMAIN s \cup {n} /\ t[n] = e /\ \A x \in DOMAIN s : t[x] = s[x]
  BY <1>1, Grown
<1>3. /\ DOMAIN more = DOMAIN docs /\ more[d].status = "voided"
      /\ more[d].lines = docs[d].lines /\ \A c \in DOMAIN docs \ {d} : more[c] = docs[c]
  BY ONLY VoidedDocument, docs \in Seq(Document), d \in DOMAIN docs, more = Voided(docs, d)
<1>4. /\ Chain(s) /\ ArrivesOnce(s) /\ \A x \in DOMAIN s : Refers(docs, l, p, s[x])
      /\ peps => Valued(docs, s, l, p)
  BY DEF GoodFor
<1>5. /\ DOMAIN m = DOMAIN l /\ Keeps(l, m) /\ LotsIn(m, p) = LotsIn(l, p)
      /\ \A i \in LotsIn(m, p) : Holds(more, s, m, i) /\ i \in DOMAIN l
  BY DEF Undone, Keeps, LotsIn
<1>6. Chain(t)
  BY <1>1, <1>4, ChainGrows
<1>7. ArrivesOnce(t)
  BY ONLY <1>2, <1>4, e.lot = 0 DEF ArrivesOnce
<1>8. \A x \in DOMAIN s : Refers(more, m, p, s[x])
  <2> SUFFICES ASSUME NEW x \in DOMAIN s PROVE Refers(more, m, p, s[x])
    OBVIOUS
  <2>1. Refers(docs, m, p, s[x])
    BY <1>4, <1>5, RefersKept
  <2>2. CASE s[x].document = d
    BY ONLY <1>3, <2>1, <2>2 DEF Refers
  <2>3. CASE s[x].document # d
    BY ONLY <1>3, <2>1, <2>3 DEF Refers
  <2> QED
    BY <2>2, <2>3
<1>9. Refers(more, m, p, e)
  BY ONLY <1>3, e.document = d, d \in DOMAIN docs, e.lot = 0,
          \E i \in DOMAIN docs[d].lines : docs[d].lines[i].product = p DEF Refers
<1>10. \A x \in DOMAIN t : Refers(more, m, p, t[x])
  BY ONLY <1>2, <1>8, <1>9
<1>11. ASSUME NEW i \in LotsIn(m, p) PROVE Holds(more, t, m, i)
  <2>1. e.lot # i /\ m[i] = m[i]
    BY <1>5, ListIs
  <2> QED
    BY ONLY <1>1, <1>5, <2>1, StandingStays, s \in Seq(EntryRow), e \in EntryRow, i \in LotsIn(m, p)
<1>12. ASSUME peps PROVE Valued(more, t, m, p)
  <2>1. peps = TRUE /\ GoodFor(TRUE, docs, s, l, p)
    BY <1>12
  <2>2. /\ Units(m, p) = Units(l, p) - Net(s, Places(s, d))
        /\ Worth(m, p) = Worth(l, p) - NetValue(s, Places(s, d))
    <3>1. Voiding(docs, more, d, s, l, m, p)
      BY ONLY <2>1, docs[d].status = "approved", Undone(more, d, s, l, m, p) DEF Voiding
    <3> QED
      BY ONLY <3>1, UndoneTotals, s \in Seq(EntryRow), l \in Seq(LotRow), m \in Seq(LotRow)
  <2>3. Balance(t).qty = e.qty /\ Balance(t).value = e.value
    <3>1. Balance(t) = BalanceOf(e)
      BY <1>1, BeforeNext
    <3> QED
      BY ONLY <3>1 DEF BalanceOf
  <2>4. Units(l, p) = Balance(s).qty /\ Near(Worth(l, p), s)
    BY <1>4, <1>12 DEF Valued
  <2>5. /\ Units(m, p) = Balance(t).qty
        /\ Near(Worth(m, p), t)
    <3>1. OfLots(t) = OfLots(s)
      BY ONLY <1>2, e.lot = 0 DEF OfLots
    <3>2. PICK D \in SUBSET (DOMAIN s) : D = OfLots(s)
      BY DEF OfLots
    <3>3. In(t, D) = In(s, D)
      BY ONLY <1>1, GrownSums, s \in Seq(EntryRow), e \in EntryRow
    <3>4. PICK a, v, w : a = Worth(l, p) /\ v = Balance(s).value /\ w = NetValue(s, Places(s, d))
      OBVIOUS
    <3>5. a \in Int /\ v \in Int
      BY <3>4, WorthType, BalanceType
    <3>6. w \in Int
      <4>1. Places(s, d) \in SUBSET (DOMAIN s)
        BY ONLY DEF Places
      <4> QED
        BY ONLY <3>4, <4>1, SumsAre, s \in Seq(EntryRow)
    <3>7. /\ Worth(m, p) = a - w /\ Balance(t).value = v - w
          /\ Units(m, p) = Balance(t).qty
      BY ONLY <2>2, <2>3, <2>4, <3>4, e.qty = Balance(s).qty - Net(s, Places(s, d)),
              e.value = Balance(s).value - NetValue(s, Places(s, d))
    <3>8. (a - w) - (v - w) = a - v /\ (v - w) - (a - w) = v - a
      BY ONLY <3>5, <3>6
    <3> QED
      BY ONLY <2>4, <3>1, <3>2, <3>3, <3>4, <3>7, <3>8 DEF Near
  <2>6. \A x \in DOMAIN s : s[x].lot = 0 => more[s[x].document].status = "voided"
    <3> SUFFICES ASSUME NEW x \in DOMAIN s, s[x].lot = 0 PROVE more[s[x].document].status = "voided"
      OBVIOUS
    <3>1. s[x].document \in DOMAIN docs /\ docs[s[x].document].status = "voided"
      BY <1>4, <1>12 DEF Valued, Refers
    <3> QED
      BY ONLY <1>3, <3>1
  <2>7. \A x \in DOMAIN t : t[x].lot = 0 => more[t[x].document].status = "voided"
    BY ONLY <1>2, <1>3, <2>6, e.document = d
  <2> QED
    BY ONLY <2>5, <2>7 DEF Valued
<1> QED
  BY ONLY <1>1, <1>6, <1>7, <1>10, <1>11, <1>12 DEF GoodFor

-----------------------------------------------------------------------------
(* The database session.                                                   *)

Sessions == [kardex : [Products -> Seq(EntryRow)], added : [Products -> Seq(EntryRow)],
             lots : Seq(LotRow)]

\* The Kardex of p as it will be once the session is flushed.
All(s, p) == s.kardex[p] \o s.added[p]

\* The columns of a session.
LEMMA SessionIs ==
  ASSUME NEW s \in Sessions
  PROVE  /\ s.kardex \in [Products -> Seq(EntryRow)] /\ s.added \in [Products -> Seq(EntryRow)]
         /\ s.lots \in Seq(LotRow)
         /\ \A p \in Products : /\ s.kardex[p] \in Seq(EntryRow) /\ s.added[p] \in Seq(EntryRow)
                                /\ All(s, p) \in Seq(EntryRow)
                                /\ s.added[p] = <<>> => All(s, p) = s.kardex[p]
<1>1. /\ s.kardex \in [Products -> Seq(EntryRow)] /\ s.added \in [Products -> Seq(EntryRow)]
      /\ s.lots \in Seq(LotRow)
  BY DEF Sessions
<1>2. ASSUME NEW p \in Products
      PROVE  /\ s.kardex[p] \in Seq(EntryRow) /\ s.added[p] \in Seq(EntryRow)
             /\ All(s, p) \in Seq(EntryRow)
             /\ s.added[p] = <<>> => All(s, p) = s.kardex[p]
  <2>1. PICK a, b : a = s.kardex[p] /\ b = s.added[p]
    OBVIOUS
  <2>2. a \in Seq(EntryRow) /\ b \in Seq(EntryRow)
    BY <1>1, <2>1
  <2>3. a \o b \in Seq(EntryRow) /\ (b = <<>> => a \o b = a)
    BY ONLY <2>2
  <2> QED
    BY ONLY <2>1, <2>2, <2>3 DEF All
<1> QED
  BY <1>1, <1>2

\* Adding an entry.
LEMMA AddIs ==
  ASSUME NEW s \in Sessions, NEW p \in Products, NEW e \in EntryRow, NEW t, t = Add(s, p, e)
  PROVE  /\ t \in Sessions /\ t.kardex = s.kardex /\ t.lots = s.lots
         /\ All(t, p) = Append(All(s, p), e)
         /\ \A q \in Products \ {p} : t.added[q] = s.added[q] /\ All(t, q) = All(s, q)
<1>1. PICK k, a, b : k = s.kardex /\ a = s.added /\ b = [a EXCEPT ![p] = Append(@, e)]
  OBVIOUS
<1>2. k \in [Products -> Seq(EntryRow)] /\ a \in [Products -> Seq(EntryRow)]
  BY <1>1, SessionIs
<1>3. /\ b \in [Products -> Seq(EntryRow)] /\ b[p] = Append(a[p], e)
      /\ \A q \in Products \ {p} : b[q] = a[q]
  <2>1. Append(a[p], e) \in Seq(EntryRow)
    BY <1>2
  <2> QED
    BY <1>1, <1>2, <2>1
<1>4. t = [s EXCEPT !.added = b]
  BY <1>1 DEF Add
<1>5. /\ t \in Sessions /\ t.kardex = s.kardex /\ t.lots = s.lots /\ t.added = b
  BY ONLY <1>3, <1>4, s \in Sessions DEF Sessions
<1>6. k[p] \o Append(a[p], e) = Append(k[p] \o a[p], e)
  <2>1. k[p] \in Seq(EntryRow) /\ a[p] \in Seq(EntryRow)
    BY <1>2
  <2>2. PICK x, y : x = k[p] /\ y = a[p]
    OBVIOUS
  <2>3. x \o Append(y, e) = Append(x \o y, e)
    <3>1. x \in Seq(EntryRow) /\ y \in Seq(EntryRow)
      BY ONLY <2>1, <2>2
    <3>2. PICK o : o = <<e>>
      OBVIOUS
    <3>3. o \in Seq(EntryRow)
      BY <3>2
    <3>4. (x \o y) \o o = x \o (y \o o) /\ x \o y \in Seq(EntryRow)
      BY ONLY <3>1, <3>3, ConcatAssociative, ConcatProperties
    <3>5. Append(y, e) = y \o o /\ Append(x \o y, e) = (x \o y) \o o
      BY ONLY <3>1, <3>2, <3>4, e \in EntryRow, AppendIsConcat
    <3> QED
      BY <3>4, <3>5
  <2> QED
    BY <2>2, <2>3
<1> QED
  BY ONLY <1>1, <1>3, <1>5, <1>6 DEF All

\* Flushing.
LEMMA FlushIs ==
  ASSUME NEW s \in Sessions, NEW t, t = Flush(s)
  PROVE  /\ t \in Sessions /\ t.lots = s.lots
         /\ t.kardex = [p \in Products |-> All(s, p)]
         /\ \A p \in Products : /\ t.kardex[p] = All(s, p) /\ t.added[p] = <<>>
                                /\ All(t, p) = All(s, p)
<1>1. PICK k, b : /\ k = [p \in Products |-> s.kardex[p] \o s.added[p]]
                  /\ b = [p \in Products |-> <<>>]
  OBVIOUS
<1>2. \A p \in Products : k[p] = All(s, p) /\ b[p] = <<>> /\ All(s, p) \in Seq(EntryRow)
  BY <1>1, SessionIs DEF All
<1>3. k \in [Products -> Seq(EntryRow)] /\ b \in [Products -> Seq(EntryRow)]
  <2>1. <<>> \in Seq(EntryRow)
    OBVIOUS
  <2> QED
    BY ONLY <1>1, <1>2, <2>1
<1>4. t = [s EXCEPT !.kardex = k, !.added = b]
  BY <1>1 DEF Flush
<1>5. t \in Sessions /\ t.lots = s.lots /\ t.kardex = k /\ t.added = b
  BY ONLY <1>3, <1>4, s \in Sessions DEF Sessions
<1>6. \A p \in Products : t.added[p] = <<>> => All(t, p) = t.kardex[p]
  BY <1>5, SessionIs
<1> QED
  BY ONLY <1>1, <1>2, <1>5, <1>6 DEF All

\* Other quantities in the lots.
LEMMA LotsSet ==
  ASSUME NEW s \in Sessions, NEW m \in Seq(LotRow), NEW t, t = [s EXCEPT !.lots = m]
  PROVE  /\ t \in Sessions /\ t.kardex = s.kardex /\ t.added = s.added /\ t.lots = m
         /\ \A p : All(t, p) = All(s, p)
<1>1. t \in Sessions /\ t.kardex = s.kardex /\ t.added = s.added /\ t.lots = m
  BY DEF Sessions
<1> QED
  BY ONLY <1>1 DEF All

-----------------------------------------------------------------------------
(* The loop of _consume_lots_peps.                                         *)

\* The loop before its first turn, and one turn after another.
Begin(s, line) ==
  [s |-> s, remaining |-> line.quantity, balance |-> Balance(s.kardex[line.product])]

Turns(f, s, d, line, m) ==
  /\ f[0] = Begin(s, line)
  /\ \A i \in 1..m : f[i] = TakeFrom(f[i - 1], d, line.product, i)

\* The recursive function that ConsumeLots defines is the loop.
LEMMA ConsumeIs ==
  ASSUME lots \in Seq(LotRow), NEW s, NEW d, NEW line
  PROVE  \E f : Turns(f, s, d, line, Len(lots)) /\ ConsumeLots(s, d, line) = f[Len(lots)].s
<1> DEFINE p == line.product
           Rec(f, m) == f = [i \in 0..m |-> IF i = 0 THEN Begin(s, line)
                                            ELSE TakeFrom(f[i - 1], d, p, OldestFirst(i))]
           Reached == {m \in Nat : \E f : Rec(f, m)}
           n == Len(lots)
<1>1. n \in Nat
  BY ListIs
<1>2. 0 \in Reached
  <2>1. Rec([i \in 0..0 |-> Begin(s, line)], 0)
    OBVIOUS
  <2> QED
    BY <2>1
<1>3. ASSUME NEW m \in Nat, m \in Reached PROVE m + 1 \in Reached
  <2>1. PICK f : Rec(f, m)
    BY <1>3
  <2>2. PICK g : g = [i \in 0..(m + 1) |-> IF i <= m THEN f[i]
                                          ELSE TakeFrom(f[m], d, p, OldestFirst(m + 1))]
    OBVIOUS
  <2>3. \A i \in 0..m : g[i] = f[i]
    BY ONLY <2>2, m \in Nat
  <2>4. g[m + 1] = TakeFrom(f[m], d, p, OldestFirst(m + 1))
    BY ONLY <2>2, m \in Nat
  <2>5. ASSUME NEW i \in 0..(m + 1)
        PROVE  g[i] = IF i = 0 THEN Begin(s, line) ELSE TakeFrom(g[i - 1], d, p, OldestFirst(i))
    <3>1. i \in Nat /\ (i = 0 \/ i - 1 \in 0..m)
      BY ONLY <2>5, m \in Nat
    <3>2. CASE i = m + 1
      <4>1. i # 0 /\ i - 1 = m /\ m \in 0..m
        BY ONLY <3>2, m \in Nat
      <4> QED
        BY ONLY <2>3, <2>4, <3>2, <4>1
    <3>3. CASE i # m + 1
      <4>1. i \in 0..m
        BY ONLY <2>5, <3>3, m \in Nat
      <4>2. f[i] = IF i = 0 THEN Begin(s, line) ELSE TakeFrom(f[i - 1], d, p, OldestFirst(i))
        BY ONLY <2>1, <4>1
      <4> QED
        BY ONLY <2>3, <3>1, <4>1, <4>2
    <3> QED
      BY <3>2, <3>3
  <2>6. Rec(g, m + 1)
    <3>1. g = [i \in 0..(m + 1) |-> g[i]]
      BY ONLY <2>2
    <3> QED
      BY ONLY <2>5, <3>1
  <2> QED
    BY <2>6
<1>4. n \in Reached
  <2> HIDE DEF Reached
  <2> QED
    BY ONLY <1>1, <1>2, <1>3, NumberInduction
<1>5. PICK f : f = CHOOSE g : Rec(g, n)
  OBVIOUS
<1>6. Rec(f, n)
  <2>1. \E g : Rec(g, n)
    BY <1>4
  <2> QED
    BY ONLY <1>5, <2>1
<1>7. ConsumeLots(s, d, line) = f[n].s
  BY ONLY <1>5 DEF ConsumeLots, Begin
<1>8. Turns(f, s, d, line, n)
  <2>1. f[0] = Begin(s, line)
    BY ONLY <1>1, <1>6
  <2>2. \A i \in 1..n : i \in 0..n /\ i # 0 /\ OldestFirst(i) = i
    BY <1>1 DEF OldestFirst
  <2>3. \A i \in 1..n : f[i] = TakeFrom(f[i - 1], d, p, i)
    BY ONLY <1>6, <2>2
  <2> QED
    BY ONLY <2>1, <2>3 DEF Turns
<1> QED
  BY <1>7, <1>8

-----------------------------------------------------------------------------
(* One line of a document.                                                 *)

InForce(docs, d, p) ==
  /\ d \in DOMAIN docs /\ d \in Nat
  /\ docs[d].status = "approved"
  /\ \E i \in DOMAIN docs[d].lines : docs[d].lines[i].product = p

\* The handler has not come to p.
Fresh(s, p) ==
  /\ s.kardex[p] = kardex[p] /\ s.added[p] = <<>>
  /\ LotsIn(s.lots, p) = LotsIn(lots, p)
  /\ \A i \in LotsIn(lots, p) : s.lots[i] = lots[i]

\* Nothing happens to the other products.
OthersStay(s, t, p) ==
  \A q \in Products \ {p} :
    /\ All(t, q) = All(s, q)
    /\ LotsIn(t.lots, q) = LotsIn(s.lots, q)
    /\ \A i \in LotsIn(s.lots, q) : t.lots[i] = s.lots[i]
    /\ s.added[q] = <<>> => t.kardex[q] = s.kardex[q] /\ t.added[q] = <<>>

\* The older lots are empty before a lot loses units.
InOrder(l, m, p) ==
  \A i, j \in LotsIn(l, p) : (i < j /\ m[j].available < l[j].available) => m[i].available = 0

\* What the handler of d has done for p: x units more, in good books.
Moved(s, docs, d, p, x) ==
  /\ GoodFor(UsesPeps, docs, All(s, p), s.lots, p)
  /\ Balance(All(s, p)).qty = Balance(kardex[p]).qty + x
  /\ \A c : Net(All(s, p), Places(All(s, p), c)) =
              Net(kardex[p], Places(kardex[p], c)) + (IF c = d THEN x ELSE 0)
  /\ InOrder(lots, s.lots, p)

\* The loop over the lots of p after the turn of lot i.
Turn(a, s, docs, d, line, i) ==
  /\ a.s \in Sessions /\ DOMAIN a.s.lots = DOMAIN s.lots
  /\ Keeps(s.lots, a.s.lots) /\ OthersStay(s, a.s, line.product)
  /\ a.remaining \in 0..line.quantity
  /\ a.balance \in [qty : Int, value : Int, avg : Int]
  /\ a.balance.qty = Balance(All(a.s, line.product)).qty
  /\ a.balance.value = Balance(All(a.s, line.product)).value
  /\ Moved(a.s, docs, d, line.product, a.remaining - line.quantity)
  /\ \A j \in LotsIn(lots, line.product) :
       IF j <= i THEN a.remaining > 0 => a.s.lots[j].available = 0 ELSE a.s.lots[j] = lots[j]

\* Under PEPS.
LEMMA GoodUnderPeps ==
  ASSUME UsesPeps, NEW docs, NEW s, NEW l, NEW p
  PROVE  GoodFor(UsesPeps, docs, s, l, p) <=> GoodFor(TRUE, docs, s, l, p)
BY DEF GoodFor

\* The books before the handler, seen as what it has done so far: nothing.
LEMMA NothingMoved ==
  ASSUME NEW s \in Sessions, NEW docs, NEW d, NEW p \in Products, Fresh(s, p),
         lots \in Seq(LotRow), Keeps(lots, s.lots), kardex[p] \in Seq(EntryRow),
         GoodFor(UsesPeps, docs, kardex[p], lots, p)
  PROVE  All(s, p) = kardex[p] /\ Moved(s, docs, d, p, 0)
<1>1. All(s, p) = kardex[p]
  BY SessionIs DEF Fresh
<1>2. s.lots \in Seq(LotRow)
  BY SessionIs
<1>3. GoodFor(UsesPeps, docs, kardex[p], s.lots, p)
  BY ONLY <1>2, Elsewhere, lots \in Seq(LotRow), Keeps(lots, s.lots), kardex[p] \in Seq(EntryRow),
          GoodFor(UsesPeps, docs, kardex[p], lots, p), Fresh(s, p) DEF Fresh
<1>4. Balance(kardex[p]).qty \in Int
  BY BalanceType
<1>5. \A c : Net(kardex[p], Places(kardex[p], c)) \in Int
  <2>1. \A c : Places(kardex[p], c) \in SUBSET (DOMAIN kardex[p])
    BY DEF Places
  <2> QED
    BY <2>1, SumsAre
<1>6. InOrder(lots, s.lots, p)
  <2>1. \A i \in LotsIn(lots, p) : s.lots[i].available = lots[i].available /\ lots[i].available \in Nat
    BY ListIs, LotIs DEF LotsIn, Fresh
  <2> QED
    BY ONLY <2>1 DEF InOrder
<1> QED
  BY ONLY <1>1, <1>3, <1>4, <1>5, <1>6 DEF Moved

\* A line of an exit, at a time when the handler has not come to its product.
Exits(s, docs, d, line) ==
  /\ s \in Sessions /\ line \in Line /\ DOMAIN s.lots = DOMAIN lots
  /\ Keeps(lots, s.lots) /\ Fresh(s, line.product)
  /\ lots \in Seq(LotRow) /\ kardex[line.product] \in Seq(EntryRow)
  /\ GoodFor(UsesPeps, docs, kardex[line.product], lots, line.product)
  /\ InForce(docs, d, line.product)

\* The session t is s with the entry e of d for p, and p is in good books.
Enters(s, t, docs, d, p, e) ==
  /\ e.document = d /\ All(t, p) = Append(All(s, p), e)
  /\ e.qty = Balance(All(s, p)).qty + e.in - e.out
  /\ GoodFor(UsesPeps, docs, All(t, p), t.lots, p)
  /\ InOrder(lots, t.lots, p)

\* The books after one entry more for p.
LEMMA OneMore ==
  ASSUME NEW s \in Sessions, NEW t \in Sessions, NEW docs, NEW d, NEW p \in Products,
         kardex[p] \in Seq(EntryRow), NEW e \in EntryRow, Enters(s, t, docs, d, p, e),
         NEW x \in Int, Moved(s, docs, d, p, x)
  PROVE  /\ Moved(t, docs, d, p, x + (e.in - e.out))
         /\ Balance(All(t, p)).qty = e.qty /\ Balance(All(t, p)).value = e.value
<1>0. /\ e.document = d /\ All(t, p) = Append(All(s, p), e)
      /\ e.qty = Balance(All(s, p)).qty + e.in - e.out
      /\ GoodFor(UsesPeps, docs, All(t, p), t.lots, p)
      /\ InOrder(lots, t.lots, p)
  BY DEF Enters
<1> DEFINE y == x + (e.in - e.out)
<1>1. PICK k, n : k = All(s, p) /\ n = All(t, p)
  OBVIOUS
<1>2. k \in Seq(EntryRow) /\ n = Append(k, e)
  BY <1>0, <1>1, SessionIs
<1>3. Balance(n) = BalanceOf(e) /\ Balance(k).qty \in Int
  BY ONLY <1>2, BeforeNext, BalanceType, e \in EntryRow
<1>4. e.in \in Nat /\ e.out \in Nat
  BY EntryIs
<1>5. Balance(kardex[p]).qty \in Int
  BY BalanceType
<1>6. Balance(n).qty = e.qty /\ Balance(n).value = e.value
  BY ONLY <1>3 DEF BalanceOf
<1>7. Balance(k).qty = Balance(kardex[p]).qty + x
  BY <1>1 DEF Moved
<1>8. Balance(n).qty = Balance(kardex[p]).qty + y
  BY ONLY <1>1, <1>3, <1>4, <1>5, <1>6, <1>7, <1>0, x \in Int
<1>9. ASSUME NEW c
      PROVE  Net(n, Places(n, c)) = Net(kardex[p], Places(kardex[p], c)) + (IF c = d THEN y ELSE 0)
  <2>1. Net(k, Places(k, c)) = Net(kardex[p], Places(kardex[p], c)) + (IF c = d THEN x ELSE 0)
    BY <1>1 DEF Moved
  <2>2. Net(n, Places(n, c)) = Net(k, Places(k, c)) + (IF c = e.document THEN e.in - e.out ELSE 0)
    <3>1. Net(Append(k, e), Places(Append(k, e), c)) =
            Net(k, Places(k, c)) + (IF c = e.document THEN e.in - e.out ELSE 0)
      BY ONLY <1>2, PlacesGrow, e \in EntryRow
    <3> QED
      BY ONLY <1>2, <3>1
  <2>3. Net(kardex[p], Places(kardex[p], c)) \in Int
    <3>1. Places(kardex[p], c) \in SUBSET (DOMAIN kardex[p])
      BY DEF Places
    <3> QED
      BY <3>1, SumsAre
  <2> QED
    BY ONLY <1>4, <2>1, <2>2, <2>3, <1>0, x \in Int
<1> QED
  BY ONLY <1>0, <1>1, <1>6, <1>8, <1>9 DEF Moved

\* One turn of the loop.
LEMMA TurnKeeps ==
  ASSUME UsesPeps, NEW s, NEW docs, NEW d, NEW line, Exits(s, docs, d, line),
         NEW i \in 1..Len(lots), NEW a, Turn(a, s, docs, d, line, i - 1),
         NEW b, b = TakeFrom(a, d, line.product, i)
  PROVE  Turn(b, s, docs, d, line, i)
<1>1. PICK p, l : p = line.product /\ l = a.s.lots
  OBVIOUS
<1>2. /\ line \in Line /\ p \in Products /\ line.quantity \in Nat
      /\ lots \in Seq(LotRow) /\ DOMAIN s.lots = DOMAIN lots
      /\ LotsIn(s.lots, p) = LotsIn(lots, p) /\ kardex[p] \in Seq(EntryRow) /\ InForce(docs, d, p)
  BY <1>1 DEF Exits, Fresh, Line
<1>3. i \in Nat /\ i \in DOMAIN lots /\ Len(lots) \in Nat
  BY <1>2, ListIs
<1>4. /\ a.s \in Sessions /\ DOMAIN l = DOMAIN lots
      /\ Keeps(s.lots, l) /\ OthersStay(s, a.s, p)
      /\ a.remaining \in 0..line.quantity
      /\ a.balance \in [qty : Int, value : Int, avg : Int]
      /\ a.balance.qty = Balance(All(a.s, p)).qty
      /\ a.balance.value = Balance(All(a.s, p)).value
      /\ Moved(a.s, docs, d, p, a.remaining - line.quantity)
      /\ \A j \in LotsIn(lots, p) :
           IF j <= i - 1 THEN a.remaining > 0 => l[j].available = 0 ELSE l[j] = lots[j]
  BY ONLY <1>1, <1>2, Turn(a, s, docs, d, line, i - 1) DEF Turn
<1>5. l \in Seq(LotRow)
  BY <1>1, <1>4, SessionIs
<1>6. \A j \in LotsIn(lots, p) : j \in Nat /\ (j <= i <=> j <= i - 1 \/ j = i)
  BY <1>2, <1>3, ListIs DEF LotsIn
<1>7. CASE i \notin AvailableLots(p) \/ a.remaining <= 0
  <2>1. b = a
    BY <1>1, <1>7 DEF TakeFrom
  <2>2. ASSUME i \in LotsIn(lots, p), a.remaining > 0 PROVE l[i].available = 0
    <3>1. l[i] = lots[i] /\ i \notin AvailableLots(p)
      <4>1. ~(a.remaining <= 0) /\ ~(i <= i - 1)
        BY <1>3, <1>4, <2>2
      <4> QED
        BY ONLY <1>4, <1>7, <2>2, <4>1
    <3>2. lots[i].available \in Nat /\ lots[i].product = p
      BY <1>2, <2>2, ListIs, LotIs DEF LotsIn
    <3> QED
      BY ONLY <1>3, <3>1, <3>2 DEF AvailableLots
  <2>3. \A j \in LotsIn(lots, p) :
          IF j <= i THEN a.remaining > 0 => l[j].available = 0 ELSE l[j] = lots[j]
    BY ONLY <1>4, <1>6, <2>2
  <2> QED
    BY ONLY <1>1, <1>2, <1>4, <2>1, <2>3 DEF Turn
<1>8. CASE i \in AvailableLots(p) /\ ~(a.remaining <= 0)
  <2>1. i \in LotsIn(lots, p) /\ l[i] = lots[i]
    <3>1. i \in LotsIn(lots, p) /\ ~(i <= i - 1)
      BY ONLY <1>3, <1>8 DEF AvailableLots, LotsIn
    <3> QED
      BY ONLY <1>4, <3>1
  <2>2. PICK lot, c, e, m :
          /\ lot = l[i] /\ c = (IF lot.available < a.remaining THEN lot.available ELSE a.remaining)
          /\ e = Outgoing(d, i, c, lot.cost, a.balance,
                          Average(a.balance.value - c * lot.cost, a.balance.qty - c))
          /\ m = [l EXCEPT ![i].available = @ - c]
    OBVIOUS
  <2> PICK r : r = [a.s EXCEPT !.lots = m]
    BY Zenon
  <2> PICK t : t = Add(r, p, e)
    BY Zenon
  <2>3. r = [a.s EXCEPT !.lots = m] /\ t = Add(r, p, e)
    OBVIOUS
  <2>4. b = [s |-> t, remaining |-> a.remaining - c,
             balance |-> [a.balance EXCEPT !.qty = a.balance.qty - c,
                                           !.value = a.balance.value - c * lot.cost]]
    <3>1. r = [a.s EXCEPT !.lots[i].available = @ - c]
      BY ONLY <1>1, <2>2, <2>3
    <3> QED
      BY ONLY <1>1, <1>8, <2>2, <2>3, <3>1, b = TakeFrom(a, d, line.product, i), Zenon DEF TakeFrom
  <2>5. /\ lot \in LotRow /\ lot.available \in Nat /\ lot.cost \in Nat
        /\ lot.available > 0 /\ a.remaining \in Nat /\ a.remaining > 0
    <3>1. lots[i].available > 0
      BY ONLY <1>8 DEF AvailableLots
    <3>2. lot \in LotRow
      BY <1>3, <1>4, <1>5, <2>2, ListIs
    <3> QED
      BY <1>2, <1>4, <1>8, <2>1, <2>2, <3>1, <3>2, LotIs
  <2>6. c \in Nat /\ c > 0 /\ c <= lot.available /\ c <= a.remaining
    BY ONLY <2>2, <2>5
  <2>7. /\ a.balance.qty \in Int /\ a.balance.value \in Int
    BY ONLY <1>4
  <2>8. PICK v : v = c * lot.cost
    OBVIOUS
  <2>9. v \in Nat
    BY ONLY <2>5, <2>6, <2>8
  <2>10. PICK avg : avg = Average(a.balance.value - v, a.balance.qty - c)
    OBVIOUS
  <2>11. avg \in Int
    <3>1. a.balance.value - v \in Int /\ a.balance.qty - c \in Int
      BY ONLY <2>6, <2>7, <2>9
    <3> QED
      BY ONLY <2>10, <3>1, AverageType
  <2>12. e = [document |-> d, lot |-> i, in |-> 0, costIn |-> 0, out |-> c, costOut |-> lot.cost,
              qty |-> a.balance.qty - c, value |-> a.balance.value - v, avg |-> avg]
    BY ONLY <2>2, <2>8, <2>10 DEF Outgoing
  <2>13. /\ e.document = d /\ e.lot = i /\ e.in = 0 /\ e.costIn = 0 /\ e.out = c /\ e.costOut = lot.cost
         /\ e.qty = a.balance.qty - c /\ e.value = a.balance.value - v
    BY ONLY <2>12
  <2>14. e \in EntryRow
    <3>1. d \in Nat /\ a.balance.qty - c \in Int /\ a.balance.value - v \in Int
      BY ONLY <1>2, <2>6, <2>7, <2>9 DEF InForce
    <3> QED
      BY ONLY <1>3, <2>5, <2>6, <2>11, <2>12, <3>1 DEF EntryRow
  <2>15. PICK k : k = All(a.s, p)
    OBVIOUS
  <2>16. k \in Seq(EntryRow) /\ GoodFor(TRUE, docs, k, l, p)
    <3>1. GoodFor(UsesPeps, docs, k, l, p)
      BY ONLY <1>1, <1>4, <2>15 DEF Moved
    <3> QED
      BY <1>2, <1>4, <2>15, <3>1, SessionIs, GoodUnderPeps
  <2>17. i \in LotsIn(l, p)
    BY ONLY <1>2, <1>4, <2>1 DEF LotsIn, Keeps
  <2>18. Follows(docs, k, p, e)
    <3>1. a.balance.qty - c = a.balance.qty + 0 - c /\ a.balance.value - v = a.balance.value + 0 - v
      BY ONLY <2>6, <2>7, <2>9
    <3>2. e.qty = Balance(k).qty + e.in - e.out
      BY ONLY <1>4, <2>13, <2>15, <3>1
    <3>3. e.in * e.costIn = 0 /\ e.out * e.costOut = v
      BY ONLY <2>8, <2>13
    <3>4. e.value = Balance(k).value + e.in * e.costIn - e.out * e.costOut
      BY ONLY <1>4, <2>13, <2>15, <3>1, <3>3
    <3>5. /\ e.document \in DOMAIN docs /\ docs[e.document].status = "approved"
          /\ \E j \in DOMAIN docs[e.document].lines : docs[e.document].lines[j].product = p
      BY ONLY <1>2, <2>13 DEF InForce
    <3> QED
      BY ONLY <2>14, <2>16, <3>2, <3>4, <3>5, FollowsExactly
  <2>19. m \in Seq(LotRow) /\ Keeps(l, m) /\ GoodFor(TRUE, docs, Append(k, e), m, p)
    <3>1. m = [l EXCEPT ![i].available = @ - e.out] /\ e.out <= l[i].available /\ e.costOut = l[i].cost
      BY ONLY <2>2, <2>6, <2>13
    <3> QED
      BY ONLY <1>5, <2>13, <2>14, <2>16, <2>17, <2>18, <3>1, TakenEntry
  <2>20. /\ r \in Sessions /\ r.lots = m /\ r.kardex = a.s.kardex /\ r.added = a.s.added
         /\ \A q : All(r, q) = All(a.s, q)
    BY ONLY <1>4, <2>3, <2>19, LotsSet
  <2>21. /\ t \in Sessions /\ t.kardex = r.kardex /\ t.lots = m /\ All(t, p) = Append(k, e)
         /\ \A q \in Products \ {p} : t.added[q] = r.added[q] /\ All(t, q) = All(r, q)
    <3>1. /\ t \in Sessions /\ t.kardex = r.kardex /\ t.lots = r.lots
          /\ All(t, p) = Append(All(r, p), e)
          /\ \A q \in Products \ {p} : t.added[q] = r.added[q] /\ All(t, q) = All(r, q)
      <4>1. r \in Sessions /\ p \in Products /\ t = Add(r, p, e)
        BY ONLY <1>2, <2>3, <2>20
      <4> QED
        BY ONLY <2>14, <4>1, AddIs
    <3> QED
      BY ONLY <2>15, <2>20, <3>1
  <2>22. PICK less : less = [lot EXCEPT !.available = @ - c]
    OBVIOUS
  <2>23. /\ DOMAIN m = DOMAIN l /\ m[i] = less /\ \A j \in DOMAIN l \ {i} : m[j] = l[j]
         /\ less.available = lot.available - c /\ less.product = lot.product
    <3>1. m = [l EXCEPT ![i] = less]
      BY ONLY <2>2, <2>22
    <3>2. less.available = lot.available - c /\ less.product = lot.product
      BY ONLY <2>5, <2>22 DEF LotRow
    <3> QED
      BY ONLY <1>3, <1>4, <1>5, <3>1, <3>2
  <2>24. Keeps(s.lots, m)
    BY ONLY <1>4, <2>19 DEF Keeps
  <2>25. OthersStay(s, t, p)
    <3> SUFFICES ASSUME NEW q \in Products \ {p}
                 PROVE  /\ All(t, q) = All(s, q) /\ LotsIn(t.lots, q) = LotsIn(s.lots, q)
                        /\ \A j \in LotsIn(s.lots, q) : t.lots[j] = s.lots[j]
                        /\ s.added[q] = <<>> => t.kardex[q] = s.kardex[q] /\ t.added[q] = <<>>
      BY DEF OthersStay
    <3>1. /\ All(a.s, q) = All(s, q) /\ LotsIn(l, q) = LotsIn(s.lots, q)
          /\ \A j \in LotsIn(s.lots, q) : l[j] = s.lots[j]
          /\ s.added[q] = <<>> => a.s.kardex[q] = s.kardex[q] /\ a.s.added[q] = <<>>
      BY ONLY <1>1, <1>4, q \in Products \ {p} DEF OthersStay
    <3>2. i \notin LotsIn(l, q) /\ LotsIn(m, q) = LotsIn(l, q)
      BY ONLY <2>2, <2>17, <2>23, q \in Products \ {p} DEF LotsIn
    <3>3. \A j \in LotsIn(l, q) : m[j] = l[j]
      BY ONLY <2>23, <3>2 DEF LotsIn
    <3> QED
      BY ONLY <2>20, <2>21, <3>1, <3>2, <3>3, q \in Products \ {p}
  <2>26. \A j \in LotsIn(lots, p) : j \in DOMAIN l
    BY ONLY <1>4 DEF LotsIn
  <2>27. InOrder(lots, m, p)
    <3> SUFFICES ASSUME NEW h \in LotsIn(lots, p), NEW j \in LotsIn(lots, p), h < j,
                        m[j].available < lots[j].available
                 PROVE  m[h].available = 0
      BY DEF InOrder
    <3>1. InOrder(lots, l, p)
      BY ONLY <1>1, <1>4 DEF Moved
    <3>2. CASE j = i
      <4>1. h <= i - 1 /\ h # i
        BY ONLY <1>3, <1>6, <3>2, h < j, h \in LotsIn(lots, p)
      <4>2. l[h].available = 0
        BY ONLY <1>4, <2>5, <4>1, h \in LotsIn(lots, p)
      <4> QED
        BY ONLY <2>23, <2>26, <4>1, <4>2, h \in LotsIn(lots, p)
    <3>3. CASE j # i
      <4>1. m[j] = l[j]
        BY ONLY <2>23, <2>26, <3>3, j \in LotsIn(lots, p)
      <4>2. l[h].available = 0
        BY ONLY <3>1, <4>1, h < j, m[j].available < lots[j].available,
                h \in LotsIn(lots, p), j \in LotsIn(lots, p) DEF InOrder
      <4>3. h # i
        <5> SUFFICES ASSUME h = i PROVE FALSE
          OBVIOUS
        <5> QED
          BY ONLY <2>2, <2>5, <4>2, h = i
      <4> QED
        BY ONLY <2>23, <2>26, <4>2, <4>3, h \in LotsIn(lots, p)
    <3> QED
      BY ONLY <3>2, <3>3
  <2>28. \A j \in LotsIn(lots, p) :
           IF j <= i THEN a.remaining - c > 0 => m[j].available = 0 ELSE m[j] = lots[j]
    <3> SUFFICES ASSUME NEW j \in LotsIn(lots, p)
                 PROVE  IF j <= i THEN a.remaining - c > 0 => m[j].available = 0 ELSE m[j] = lots[j]
      OBVIOUS
    <3>1. CASE j = i
      <4>1. a.remaining - c > 0 => lot.available - c = 0
        BY ONLY <2>2, <2>5, <2>6
      <4> QED
        BY ONLY <1>3, <2>23, <3>1, <4>1
    <3>2. CASE j # i /\ j <= i
      <4>1. j <= i - 1 /\ m[j] = l[j]
        BY ONLY <1>6, <2>23, <2>26, <3>2, j \in LotsIn(lots, p)
      <4> QED
        BY ONLY <1>4, <2>5, <3>2, <4>1, j \in LotsIn(lots, p)
    <3>3. CASE ~(j <= i)
      <4>1. ~(j <= i - 1) /\ j # i
        BY ONLY <1>6, <3>3, j \in LotsIn(lots, p)
      <4> QED
        BY ONLY <1>4, <2>23, <2>26, <3>3, <4>1, j \in LotsIn(lots, p)
    <3> QED
      BY ONLY <1>3, <3>1, <3>2, <3>3
  <2>29. /\ Moved(t, docs, d, p, (a.remaining - c) - line.quantity)
         /\ Balance(All(t, p)).qty = e.qty /\ Balance(All(t, p)).value = e.value
    <3>1. PICK x, y : x = a.remaining - line.quantity /\ y = (a.remaining - c) - line.quantity
      OBVIOUS
    <3>2. x \in Int /\ y = x + (e.in - e.out)
      BY ONLY <1>2, <2>5, <2>6, <2>13, <3>1
    <3>3. GoodFor(UsesPeps, docs, All(t, p), t.lots, p)
      BY ONLY <2>19, <2>21, UsesPeps, GoodUnderPeps
    <3>4. e.qty = Balance(All(a.s, p)).qty + e.in - e.out
      BY ONLY <2>15, <2>18 DEF Follows, Continues
    <3>5. Moved(a.s, docs, d, p, x)
      BY ONLY <1>4, <3>1
    <3>6. All(t, p) = Append(All(a.s, p), e) /\ InOrder(lots, t.lots, p)
      BY ONLY <2>15, <2>21, <2>27
    <3>7. /\ Moved(t, docs, d, p, y)
          /\ Balance(All(t, p)).qty = e.qty /\ Balance(All(t, p)).value = e.value
      <4>1. a.s \in Sessions /\ t \in Sessions /\ p \in Products /\ kardex[p] \in Seq(EntryRow)
        BY ONLY <1>2, <1>4, <2>21
      <4>2. Enters(a.s, t, docs, d, p, e)
        BY ONLY <2>13, <3>3, <3>4, <3>6 DEF Enters
      <4>3. /\ Moved(t, docs, d, p, x + (e.in - e.out))
            /\ Balance(All(t, p)).qty = e.qty /\ Balance(All(t, p)).value = e.value
        BY ONLY <2>14, <3>2, <3>5, <4>1, <4>2, OneMore
      <4> QED
        BY ONLY <3>2, <4>3
    <3> QED
      BY ONLY <3>1, <3>7
  <2>30. /\ b.s = t /\ b.remaining = a.remaining - c /\ b.remaining \in 0..line.quantity
         /\ b.balance \in [qty : Int, value : Int, avg : Int]
         /\ b.balance.qty = e.qty /\ b.balance.value = e.value
    <3>1. b.s = t /\ b.remaining = a.remaining - c
      BY ONLY <2>4
    <3>2. b.remaining \in 0..line.quantity
      BY ONLY <1>2, <1>4, <2>5, <2>6, <3>1
    <3>3. b.balance = [a.balance EXCEPT !.qty = e.qty, !.value = e.value]
      BY ONLY <2>4, <2>8, <2>13
    <3>4. e.qty \in Int /\ e.value \in Int
      BY ONLY <2>14, EntryIs
    <3> QED
      BY ONLY <1>4, <3>1, <3>2, <3>3, <3>4
  <2> QED
    BY ONLY <1>1, <1>2, <1>4, <2>21, <2>23, <2>24, <2>25, <2>28, <2>29, <2>30 DEF Turn
<1> QED
  BY ONLY <1>7, <1>8

\* The books after a line, with x units more of its product.
LineDone(s, t, docs, d, p, x) ==
  /\ t \in Sessions /\ Keeps(s.lots, t.lots)
  /\ OthersStay(s, t, p)
  /\ Moved(t, docs, d, p, x)

\* Before the first turn.
LEMMA TurnBegins ==
  ASSUME NEW s, NEW docs, NEW d, NEW line, Exits(s, docs, d, line)
  PROVE  Turn(Begin(s, line), s, docs, d, line, 0)
<1>1. PICK p, a : p = line.product /\ a = Begin(s, line)
  OBVIOUS
<1>2. /\ line \in Line /\ p \in Products /\ line.quantity \in Nat
      /\ lots \in Seq(LotRow) /\ s \in Sessions /\ Keeps(lots, s.lots) /\ Fresh(s, p)
      /\ kardex[p] \in Seq(EntryRow) /\ GoodFor(UsesPeps, docs, kardex[p], lots, p)
  BY <1>1 DEF Exits, Line
<1>3. a.s = s /\ a.remaining = line.quantity /\ a.balance = Balance(s.kardex[p])
  BY <1>1 DEF Begin
<1>4. All(s, p) = kardex[p] /\ Moved(s, docs, d, p, 0)
  BY ONLY <1>2, NothingMoved
<1>5. s.kardex[p] = kardex[p]
  BY <1>2 DEF Fresh
<1>6. a.balance \in [qty : Int, value : Int, avg : Int]
  <2>1. PICK k : k = kardex[p]
    OBVIOUS
  <2>2. k \in Seq(EntryRow) /\ a.balance = Balance(k)
    BY <1>2, <1>3, <1>5, <2>1
  <2>3. CASE k = <<>>
    BY ONLY <2>2, <2>3 DEF Balance, NoBalance
  <2>4. CASE k # <<>>
    <3>1. Balance(k) = [qty |-> Last(k).qty, value |-> Last(k).value, avg |-> Last(k).avg]
      BY ONLY <2>4 DEF Balance
    <3>2. Balance(k).qty \in Int /\ Balance(k).value \in Int /\ Balance(k).avg \in Int
      BY ONLY <2>2, BalanceType
    <3>3. /\ Balance(k).qty = Last(k).qty /\ Balance(k).value = Last(k).value
          /\ Balance(k).avg = Last(k).avg
      BY ONLY <3>1
    <3> QED
      BY ONLY <2>2, <3>1, <3>2, <3>3
  <2> QED
    BY <2>3, <2>4
<1>7. Keeps(s.lots, s.lots) /\ OthersStay(s, s, p)
  BY DEF Keeps, OthersStay
<1>8. ASSUME NEW j \in LotsIn(lots, p) PROVE ~(j <= 0) /\ s.lots[j] = lots[j]
  BY <1>2, ListIs DEF LotsIn, Fresh
<1>9. a.remaining - line.quantity = 0 /\ a.remaining \in 0..line.quantity
  BY ONLY <1>2, <1>3
<1> QED
  BY ONLY <1>1, <1>2, <1>3, <1>4, <1>5, <1>6, <1>7, <1>8, <1>9 DEF Turn

\* When the lots run out the units of the line have: there were enough.
LEMMA LoopEnds ==
  ASSUME UsesPeps, NEW s, NEW docs, NEW d, NEW line, Exits(s, docs, d, line),
         NEW a, Turn(a, s, docs, d, line, Len(lots)),
         Balance(kardex[line.product]).qty - line.quantity >= 0
  PROVE  a.remaining = 0
<1> SUFFICES ASSUME a.remaining # 0 PROVE FALSE
  OBVIOUS
<1>1. PICK p, l : p = line.product /\ l = a.s.lots
  OBVIOUS
<1>2. /\ line.quantity \in Nat /\ p \in Products /\ kardex[p] \in Seq(EntryRow)
      /\ lots \in Seq(LotRow) /\ LotsIn(s.lots, p) = LotsIn(lots, p)
  BY <1>1 DEF Exits, Line, Fresh
<1>3. /\ a.s \in Sessions /\ DOMAIN l = DOMAIN s.lots /\ Keeps(s.lots, l)
      /\ a.remaining \in 0..line.quantity
      /\ Moved(a.s, docs, d, p, a.remaining - line.quantity)
      /\ \A j \in LotsIn(lots, p) :
           IF j <= Len(lots) THEN a.remaining > 0 => l[j].available = 0 ELSE l[j] = lots[j]
  BY ONLY <1>1, Turn(a, s, docs, d, line, Len(lots)) DEF Turn
<1>4. LotsIn(l, p) = LotsIn(lots, p)
  BY ONLY <1>2, <1>3 DEF Keeps, LotsIn
<1>5. \A j \in LotsIn(l, p) : l[j].available = 0 /\ j \in DOMAIN l
  <2>1. \A j \in LotsIn(lots, p) : j <= Len(lots)
    BY <1>2, ListIs DEF LotsIn
  <2>2. a.remaining > 0
    BY <1>2, <1>3
  <2>3. \A j \in LotsIn(l, p) : j \in DOMAIN l
    BY DEF LotsIn
  <2> QED
    BY ONLY <1>3, <1>4, <2>1, <2>2, <2>3
<1>6. Units(l, p) = 0
  <2>1. PICK f, K : f = [i \in DOMAIN l |-> l[i].available] /\ K = LotsIn(l, p)
    OBVIOUS
  <2>2. \A i \in K : f[i] = 0
    BY ONLY <1>5, <2>1
  <2>3. l \in Seq(LotRow)
    BY <1>1, <1>3, SessionIs
  <2>4. IsFiniteSet(K)
    BY ONLY <1>5, <2>1, <2>3, ListIs, FS_Subset
  <2>5. SumFunctionOnSet(f, K) = 0
    BY ONLY <2>2, <2>4, SumZero
  <2> QED
    BY ONLY <2>1, <2>5 DEF Units
<1>7. Units(l, p) = Balance(All(a.s, p)).qty
  BY ONLY <1>1, <1>3, UsesPeps DEF Moved, GoodFor, Valued
<1>8. Balance(All(a.s, p)).qty = Balance(kardex[p]).qty + (a.remaining - line.quantity)
  BY ONLY <1>3 DEF Moved
<1>9. Balance(kardex[p]).qty \in Int
  BY <1>2, BalanceType
<1>10. Balance(kardex[p]).qty - line.quantity >= 0
  BY <1>1
<1> QED
  BY ONLY <1>2, <1>3, <1>6, <1>7, <1>8, <1>9, <1>10, a.remaining # 0

\* _consume_lots_peps of a line for which there is stock.
LEMMA ConsumeDone ==
  ASSUME UsesPeps, NEW s, NEW docs, NEW d, NEW line, Exits(s, docs, d, line),
         Balance(kardex[line.product]).qty - line.quantity >= 0,
         NEW t, t = ConsumeLots(s, d, line)
  PROVE  LineDone(s, t, docs, d, line.product, -line.quantity) /\ DOMAIN t.lots = DOMAIN s.lots
<1>1. lots \in Seq(LotRow) /\ line.quantity \in Nat
  BY DEF Exits, Line
<1>2. PICK n : n = Len(lots)
  OBVIOUS
<1>3. n \in Nat
  BY <1>1, <1>2, ListIs
<1>4. PICK f : Turns(f, s, d, line, n) /\ t = f[n].s
  BY ONLY <1>1, <1>2, ConsumeIs, t = ConsumeLots(s, d, line)
<1> DEFINE Done == {i \in Nat : i <= n => Turn(f[i], s, docs, d, line, i)}
<1>5. 0 \in Done
  <2>1. f[0] = Begin(s, line)
    BY <1>4 DEF Turns
  <2> QED
    BY <2>1, TurnBegins
<1>6. ASSUME NEW i \in Nat, i \in Done PROVE i + 1 \in Done
  <2> SUFFICES ASSUME i + 1 <= n PROVE Turn(f[i + 1], s, docs, d, line, i + 1)
    OBVIOUS
  <2>1. Turn(f[i], s, docs, d, line, i) /\ i + 1 \in 1..n /\ (i + 1) - 1 = i
    BY <1>3, <1>6
  <2>2. PICK j : j = i + 1
    OBVIOUS
  <2>3. f[j] = TakeFrom(f[j - 1], d, line.product, j) /\ j \in 1..Len(lots) /\ j - 1 = i
    BY ONLY <1>2, <1>4, <2>1, <2>2 DEF Turns
  <2>4. Turn(f[j - 1], s, docs, d, line, j - 1)
    BY ONLY <2>1, <2>3
  <2>5. Turn(f[j], s, docs, d, line, j)
    BY ONLY <2>3, <2>4, TurnKeeps, UsesPeps, Exits(s, docs, d, line)
  <2> QED
    BY <2>2, <2>5
<1>7. n \in Done
  <2> HIDE DEF Done
  <2> QED
    BY ONLY <1>3, <1>5, <1>6, NumberInduction
<1>8. PICK a : a = f[n]
  OBVIOUS
<1>9. Turn(a, s, docs, d, line, Len(lots))
  BY <1>2, <1>3, <1>7, <1>8
<1>10. a.remaining = 0
  BY ONLY <1>9, LoopEnds, UsesPeps, Exits(s, docs, d, line),
          Balance(kardex[line.product]).qty - line.quantity >= 0
<1>11. a.remaining - line.quantity = -line.quantity
  BY ONLY <1>1, <1>10
<1> QED
  BY ONLY <1>4, <1>8, <1>9, <1>11 DEF Turn, LineDone

\* A line, at a time when the handler has not come to its product.
Comes(s, docs, d, line) ==
  /\ s \in Sessions /\ line \in Line /\ line.product \in Products
  /\ Keeps(lots, s.lots) /\ Fresh(s, line.product)
  /\ lots \in Seq(LotRow) /\ kardex[line.product] \in Seq(EntryRow)
  /\ GoodFor(UsesPeps, docs, kardex[line.product], lots, line.product)
  /\ InForce(docs, d, line.product)

\* The balance a line starts from, and the entries and lots of its product.
LEMMA ComesTo ==
  ASSUME NEW s, NEW docs, NEW d, NEW line, Comes(s, docs, d, line), NEW p, p = line.product
  PROVE  /\ s \in Sessions /\ p \in Products /\ line.quantity \in Nat \ {0} /\ line.cost \in Nat
         /\ s.lots \in Seq(LotRow) /\ kardex[p] \in Seq(EntryRow) /\ d \in Nat
         /\ All(s, p) = kardex[p] /\ s.kardex[p] = kardex[p] /\ Moved(s, docs, d, p, 0)
         /\ GoodFor(UsesPeps, docs, kardex[p], s.lots, p) /\ InOrder(lots, s.lots, p)
<1>1. /\ line \in Line /\ p \in Products /\ lots \in Seq(LotRow) /\ s \in Sessions
      /\ Keeps(lots, s.lots) /\ Fresh(s, p)
      /\ kardex[p] \in Seq(EntryRow) /\ GoodFor(UsesPeps, docs, kardex[p], lots, p)
      /\ InForce(docs, d, p)
  BY DEF Comes
<1>2. All(s, p) = kardex[p] /\ Moved(s, docs, d, p, 0)
  BY ONLY <1>1, NothingMoved
<1>3. line.quantity \in Nat \ {0} /\ line.cost \in Nat /\ d \in Nat /\ s.kardex[p] = kardex[p]
  BY <1>1 DEF Line, InForce, Fresh
<1>4. s.lots \in Seq(LotRow)
  BY <1>1, SessionIs
<1> QED
  BY ONLY <1>1, <1>2, <1>3, <1>4 DEF Moved

\* What an entry of units says.
LEMMA IncomingIs ==
  ASSUME NEW k \in Seq(EntryRow), NEW docs, NEW d, NEW p, InForce(docs, d, p),
         NEW line, line.quantity \in Nat \ {0}, line.cost \in Nat, NEW i \in Nat,
         NEW e, e = Incoming(d, i, line, Balance(k))
  PROVE  /\ e \in EntryRow /\ e.document = d /\ e.lot = i
         /\ e.in = line.quantity /\ e.costIn = Column(line.cost) /\ e.out = 0
         /\ Follows(docs, k, p, e)
<1>1. PICK old, q, cost : old = Balance(k) /\ q = line.quantity /\ cost = line.cost
  OBVIOUS
<1>2. old.qty \in Int /\ old.value \in Int /\ q \in Nat \ {0} /\ cost \in Nat /\ Grain \in Nat \ {0}
  BY <1>1, BalanceType
<1>3. PICK parts : parts = Grain * old.value + q * cost
  OBVIOUS
<1>4. parts \in Int
  <2>1. Grain * old.value \in Int /\ q * cost \in Int
    BY ONLY <1>2
  <2> QED
    BY ONLY <1>3, <2>1
<1>5. PICK v, c, avg : /\ v = Column(parts) /\ c = Column(cost)
                       /\ avg = Average(parts, Grain * (old.qty + q))
  OBVIOUS
<1>6. v \in Int /\ c \in Nat
  BY ONLY <1>2, <1>4, <1>5, ColumnIs
<1>7. avg \in Int
  <2>1. Grain * (old.qty + q) \in Int
    <3>1. old.qty + q \in Int
      BY ONLY <1>2
    <3> QED
      BY ONLY <1>2, <3>1
  <2> QED
    BY ONLY <1>4, <1>5, <2>1, AverageType
<1>8. e = [document |-> d, lot |-> i, in |-> q, costIn |-> c, out |-> 0, costOut |-> 0,
           qty |-> old.qty + q, value |-> v, avg |-> avg]
  BY ONLY <1>1, <1>3, <1>5, e = Incoming(d, i, line, Balance(k)) DEF Incoming
<1>9. /\ e.document = d /\ e.lot = i /\ e.in = q /\ e.costIn = c
      /\ e.out = 0 /\ e.costOut = 0 /\ e.qty = old.qty + q /\ e.value = v
  BY ONLY <1>8
<1>10. e \in EntryRow
  <2>1. d \in Nat /\ old.qty + q \in Int
    BY ONLY <1>2, InForce(docs, d, p) DEF InForce
  <2> QED
    BY ONLY <1>2, <1>6, <1>7, <1>8, <2>1, i \in Nat DEF EntryRow
<1>11. PICK y : y = q * c
  OBVIOUS
<1>12. y \in Nat
  BY ONLY <1>2, <1>6, <1>11
<1>13. 2 * (v - (old.value + y)) <= q + 1 /\ 2 * ((old.value + y) - v) <= q + 1
  <2>1. PICK w : w = old.value
    OBVIOUS
  <2>2. /\ w \in Int /\ q \in Nat /\ cost \in Int
        /\ v = Column(Grain * w + q * cost) /\ c = Column(cost)
    BY ONLY <1>2, <1>3, <1>5, <2>1
  <2>3. 2 * (v - (w + q * c)) <= q + 1 /\ 2 * ((w + q * c) - v) <= q + 1
    BY ONLY <2>2, ReceiptRounds
  <2> QED
    BY ONLY <1>11, <2>1, <2>3
<1>14. Drift(e, old) = v - (old.value + y)
  <2>1. e.in * e.costIn = y /\ e.out * e.costOut = 0
    BY ONLY <1>9, <1>11
  <2>2. old.value + y - 0 = old.value + y
    BY ONLY <1>2, <1>12
  <2> QED
    BY ONLY <1>9, <2>1, <2>2 DEF Drift
<1>15. 2 * Abs(Drift(e, old)) <= e.in + e.out + 1 /\ Abs(Drift(e, old)) <= e.in
  <2>1. PICK g : g = v - (old.value + y)
    OBVIOUS
  <2>2. g \in Int /\ 2 * g <= q + 1 /\ 2 * (-g) <= q + 1
    BY ONLY <1>2, <1>6, <1>12, <1>13, <2>1
  <2>3. 2 * Abs(g) <= q + 0 + 1 /\ Abs(g) <= q
    BY ONLY <1>2, <2>2 DEF Abs
  <2> QED
    BY ONLY <1>9, <1>14, <2>1, <2>3
<1>16. e.qty = old.qty + e.in - e.out
  BY ONLY <1>2, <1>9
<1>17. Follows(docs, k, p, e)
  BY ONLY <1>1, <1>9, <1>15, <1>16, InForce(docs, d, p) DEF Follows, Continues, InForce
<1> QED
  BY ONLY <1>1, <1>5, <1>9, <1>10, <1>17

\* What an exit at the average cost says.
LEMMA OutgoingIs ==
  ASSUME NEW k \in Seq(EntryRow), NEW docs, NEW d, NEW p, InForce(docs, d, p),
         NEW quantity \in Nat, NEW i \in Nat, NEW cost \in Int, NEW avg \in Int,
         NEW e, e = Outgoing(d, i, quantity, cost, Balance(k), avg)
  PROVE  /\ e \in EntryRow /\ e.document = d /\ e.lot = i /\ e.in = 0 /\ e.out = quantity
         /\ Follows(docs, k, p, e)
<1>1. PICK old, v : old = Balance(k) /\ v = quantity * cost
  OBVIOUS
<1>2. old.qty \in Int /\ old.value \in Int /\ v \in Int
  BY <1>1, BalanceType
<1>3. e = [document |-> d, lot |-> i, in |-> 0, costIn |-> 0, out |-> quantity, costOut |-> cost,
           qty |-> old.qty - quantity, value |-> old.value - v, avg |-> avg]
  BY ONLY <1>1, e = Outgoing(d, i, quantity, cost, Balance(k), avg) DEF Outgoing
<1>4. /\ e.document = d /\ e.lot = i /\ e.in = 0 /\ e.costIn = 0 /\ e.out = quantity
      /\ e.costOut = cost /\ e.qty = old.qty - quantity /\ e.value = old.value - v
  BY ONLY <1>3
<1>5. e \in EntryRow
  <2>1. d \in Nat /\ old.value - v \in Int /\ old.qty - quantity \in Int
    BY ONLY <1>2, quantity \in Nat, InForce(docs, d, p) DEF InForce
  <2> QED
    BY ONLY <1>3, <2>1, quantity \in Nat, cost \in Int, avg \in Int, i \in Nat DEF EntryRow
<1>6. e.in * e.costIn = 0 /\ e.out * e.costOut = v
  BY ONLY <1>1, <1>4
<1>7. /\ e.qty = old.qty + e.in - e.out
      /\ e.value = old.value + e.in * e.costIn - e.out * e.costOut
  <2>1. old.qty - quantity = old.qty + 0 - quantity /\ old.value - v = old.value + 0 - v
    BY ONLY <1>2, quantity \in Nat
  <2> QED
    BY ONLY <1>4, <1>6, <2>1
<1>8. Follows(docs, k, p, e)
  <2>1. /\ e.document \in DOMAIN docs /\ docs[e.document].status = "approved"
        /\ \E j \in DOMAIN docs[e.document].lines : docs[e.document].lines[j].product = p
    BY ONLY <1>4, InForce(docs, d, p) DEF InForce
  <2>2. /\ e.qty = Balance(k).qty + e.in - e.out
        /\ e.value = Balance(k).value + e.in * e.costIn - e.out * e.costOut
    BY ONLY <1>1, <1>7
  <2> QED
    BY ONLY <1>5, <2>1, <2>2, FollowsExactly, k \in Seq(EntryRow)
<1> QED
  BY ONLY <1>4, <1>5, <1>8

\* _record_peps of an entry.
LEMMA ReceiveDone ==
  ASSUME UsesPeps, NEW s, NEW docs, NEW d, NEW line, Comes(s, docs, d, line),
         NEW t, t = ReceiveLot(s, d, line)
  PROVE  /\ LineDone(s, t, docs, d, line.product, line.quantity)
         /\ \A i \in DOMAIN t.lots \ DOMAIN s.lots : t.lots[i].document = d
<1>1. PICK p, i : p = line.product /\ i = Len(s.lots) + 1
  OBVIOUS
<1>2. /\ s \in Sessions /\ p \in Products /\ line.quantity \in Nat \ {0} /\ line.cost \in Nat
      /\ s.lots \in Seq(LotRow) /\ kardex[p] \in Seq(EntryRow) /\ d \in Nat
      /\ All(s, p) = kardex[p] /\ s.kardex[p] = kardex[p] /\ Moved(s, docs, d, p, 0)
      /\ GoodFor(UsesPeps, docs, kardex[p], s.lots, p) /\ InOrder(lots, s.lots, p)
  BY ONLY <1>1, Comes(s, docs, d, line), ComesTo
<1>3. PICK k : k = kardex[p]
  OBVIOUS
<1>4. PICK lot, e : /\ lot = [product |-> p, document |-> d, initial |-> line.quantity,
                              available |-> line.quantity, cost |-> Column(line.cost)]
                    /\ e = Incoming(d, i, line, Balance(k))
  OBVIOUS
<1>5. PICK m : m = Append(s.lots, lot)
  OBVIOUS
<1>6. PICK r, u : r = [s EXCEPT !.lots = m] /\ u = Flush(r)
  OBVIOUS
<1>7. t = Add(u, p, e)
  BY ONLY <1>1, <1>2, <1>3, <1>4, <1>5, <1>6, t = ReceiveLot(s, d, line) DEF ReceiveLot
<1>8. /\ lot \in LotRow /\ lot.product = p /\ lot.document = d /\ lot.initial = line.quantity
      /\ lot.available = line.quantity /\ lot.cost = Column(line.cost)
  <2>1. PICK cost, c : cost = line.cost /\ c = Column(cost)
    OBVIOUS
  <2>2. cost \in Int /\ cost >= 0
    BY ONLY <1>2, <2>1
  <2>3. c \in Nat
    BY ONLY <2>1, <2>2, ColumnIs
  <2> QED
    BY ONLY <1>2, <1>4, <2>1, <2>3 DEF LotRow
<1>9. i \in Nat /\ k \in Seq(EntryRow) /\ InForce(docs, d, p) /\ Keeps(lots, s.lots)
  BY <1>1, <1>2, <1>3, ListIs DEF Comes
<1>10. /\ e \in EntryRow /\ e.document = d /\ e.lot = i
       /\ e.in = line.quantity /\ e.costIn = Column(line.cost) /\ e.out = 0
       /\ Follows(docs, k, p, e)
  BY ONLY <1>2, <1>4, <1>9, IncomingIs
<1>11. m \in Seq(LotRow) /\ Keeps(s.lots, m) /\ GoodFor(TRUE, docs, Append(k, e), m, p)
  <2>1. GoodFor(TRUE, docs, k, s.lots, p)
    BY <1>2, <1>3, GoodUnderPeps
  <2> QED
    BY ONLY <1>1, <1>2, <1>5, <1>8, <1>9, <1>10, <2>1, ArrivingEntry
<1>12. /\ DOMAIN m = DOMAIN s.lots \cup {i} /\ i \notin DOMAIN s.lots /\ m[i] = lot
       /\ \A j \in DOMAIN s.lots : m[j] = s.lots[j]
  BY ONLY <1>1, <1>2, <1>5, <1>8, Grown
<1>13. /\ r \in Sessions /\ r.kardex = s.kardex /\ r.added = s.added /\ r.lots = m
       /\ \A q : All(r, q) = All(s, q)
  BY ONLY <1>2, <1>6, <1>11, LotsSet
<1>14. /\ u \in Sessions /\ u.lots = m
       /\ \A q \in Products : u.kardex[q] = All(s, q) /\ u.added[q] = <<>> /\ All(u, q) = All(s, q)
  <2>1. r \in Sessions /\ u = Flush(r)
    BY ONLY <1>6, <1>13
  <2>2. /\ u \in Sessions /\ u.lots = r.lots
        /\ \A q \in Products : u.kardex[q] = All(r, q) /\ u.added[q] = <<>> /\ All(u, q) = All(r, q)
    BY ONLY <2>1, FlushIs
  <2> QED
    BY ONLY <1>13, <2>2
<1>15. /\ t \in Sessions /\ t.kardex = u.kardex /\ t.lots = m /\ All(t, p) = Append(k, e)
       /\ \A q \in Products \ {p} : t.added[q] = <<>> /\ All(t, q) = All(s, q)
  <2>1. /\ t \in Sessions /\ t.kardex = u.kardex /\ t.lots = u.lots
        /\ All(t, p) = Append(All(u, p), e)
        /\ \A q \in Products \ {p} : t.added[q] = u.added[q] /\ All(t, q) = All(u, q)
    <3>1. u \in Sessions /\ p \in Products /\ e \in EntryRow /\ t = Add(u, p, e)
      BY ONLY <1>2, <1>7, <1>10, <1>14
    <3> QED
      BY ONLY <3>1, AddIs
  <2> QED
    BY ONLY <1>2, <1>3, <1>14, <2>1
<1>16. OthersStay(s, t, p)
  <2> SUFFICES ASSUME NEW q \in Products \ {p}
               PROVE  /\ All(t, q) = All(s, q) /\ LotsIn(t.lots, q) = LotsIn(s.lots, q)
                      /\ \A j \in LotsIn(s.lots, q) : t.lots[j] = s.lots[j]
                      /\ s.added[q] = <<>> => t.kardex[q] = s.kardex[q] /\ t.added[q] = <<>>
    BY DEF OthersStay
  <2>1. LotsIn(m, q) = LotsIn(s.lots, q) /\ \A j \in LotsIn(s.lots, q) : m[j] = s.lots[j]
    BY ONLY <1>8, <1>12, q \in Products \ {p} DEF LotsIn
  <2>2. s.added[q] = <<>> => All(s, q) = s.kardex[q]
    BY <1>2, SessionIs
  <2> QED
    BY ONLY <1>14, <1>15, <2>1, <2>2, q \in Products \ {p}
<1>17. InOrder(lots, m, p)
  <2>1. \A j \in LotsIn(lots, p) : m[j] = s.lots[j]
    BY ONLY <1>9, <1>12 DEF LotsIn, Keeps
  <2> QED
    BY ONLY <1>2, <2>1 DEF InOrder
<1>18. Moved(t, docs, d, p, line.quantity)
  <2>1. Enters(s, t, docs, d, p, e)
    <3>1. GoodFor(UsesPeps, docs, All(t, p), t.lots, p)
      BY ONLY <1>11, <1>15, UsesPeps, GoodUnderPeps
    <3>2. e.qty = Balance(All(s, p)).qty + e.in - e.out
      BY ONLY <1>2, <1>3, <1>10 DEF Follows, Continues
    <3>3. All(t, p) = Append(All(s, p), e) /\ InOrder(lots, t.lots, p)
      BY ONLY <1>2, <1>3, <1>15, <1>17
    <3> QED
      BY ONLY <1>10, <3>1, <3>2, <3>3 DEF Enters
  <2>2. Moved(t, docs, d, p, 0 + (e.in - e.out))
    <3>1. 0 \in Int /\ kardex[p] \in Seq(EntryRow)
      BY <1>2
    <3> QED
      BY ONLY <1>2, <1>10, <1>15, <2>1, <3>1, OneMore
  <2>3. 0 + (e.in - e.out) = line.quantity
    BY ONLY <1>2, <1>10
  <2> QED
    BY ONLY <2>2, <2>3
<1>19. \A j \in DOMAIN t.lots \ DOMAIN s.lots : t.lots[j].document = d
  BY ONLY <1>8, <1>12, <1>15
<1> QED
  BY ONLY <1>1, <1>11, <1>15, <1>16, <1>18, <1>19 DEF LineDone

\* _record_weighted_average.
LEMMA AverageDone ==
  ASSUME ~UsesPeps, NEW s, NEW docs, NEW d, NEW line, Comes(s, docs, d, line),
         NEW entry \in BOOLEAN, NEW t, t = RecordAverage(s, d, line, entry)
  PROVE  /\ LineDone(s, t, docs, d, line.product, IF entry THEN line.quantity ELSE -line.quantity)
         /\ t.lots = s.lots
<1>1. PICK p, k : p = line.product /\ k = kardex[p]
  OBVIOUS
<1>2. /\ s \in Sessions /\ p \in Products /\ line.quantity \in Nat \ {0} /\ line.cost \in Nat
      /\ s.lots \in Seq(LotRow) /\ kardex[p] \in Seq(EntryRow) /\ d \in Nat
      /\ All(s, p) = kardex[p] /\ s.kardex[p] = kardex[p] /\ Moved(s, docs, d, p, 0)
      /\ GoodFor(UsesPeps, docs, kardex[p], s.lots, p) /\ InOrder(lots, s.lots, p)
  BY <1>1, ComesTo
<1>3. PICK old, avg : /\ old = Balance(k)
                      /\ avg = IF old.qty - line.quantity > 0 THEN old.avg ELSE 0
  OBVIOUS
<1>4. PICK e : e = IF entry THEN Incoming(d, 0, line, old)
                   ELSE Outgoing(d, 0, line.quantity, old.avg, old, avg)
  OBVIOUS
<1>5. t = Add(s, p, e)
  BY ONLY <1>1, <1>2, <1>3, <1>4, t = RecordAverage(s, d, line, entry) DEF RecordAverage
<1>6. k \in Seq(EntryRow) /\ InForce(docs, d, p) /\ 0 \in Nat
  BY <1>1, <1>2 DEF Comes
<1>7. old.avg \in Int /\ avg \in Int
  BY <1>3, <1>6, BalanceType
<1>8. /\ e \in EntryRow /\ e.document = d /\ e.lot = 0 /\ Follows(docs, k, p, e)
      /\ e.in - e.out = IF entry THEN line.quantity ELSE -line.quantity
  <2>1. CASE entry
    <3>1. e = Incoming(d, 0, line, Balance(k))
      BY ONLY <1>3, <1>4, <2>1
    <3>2. /\ e \in EntryRow /\ e.document = d /\ e.lot = 0
          /\ e.in = line.quantity /\ e.out = 0 /\ Follows(docs, k, p, e)
      BY ONLY <1>2, <1>6, <3>1, IncomingIs
    <3> QED
      BY ONLY <1>2, <2>1, <3>2
  <2>2. CASE ~entry
    <3>1. e = Outgoing(d, 0, line.quantity, old.avg, Balance(k), avg)
      BY ONLY <1>3, <1>4, <2>2
    <3>2. /\ e \in EntryRow /\ e.document = d /\ e.lot = 0
          /\ e.in = 0 /\ e.out = line.quantity /\ Follows(docs, k, p, e)
      BY ONLY <1>2, <1>6, <1>7, <3>1, OutgoingIs
    <3> QED
      BY ONLY <1>2, <2>2, <3>2
  <2> QED
    BY ONLY <2>1, <2>2, entry \in BOOLEAN
<1>9. /\ t \in Sessions /\ t.kardex = s.kardex /\ t.lots = s.lots /\ All(t, p) = Append(k, e)
      /\ \A q \in Products \ {p} : t.added[q] = s.added[q] /\ All(t, q) = All(s, q)
  <2>1. /\ t \in Sessions /\ t.kardex = s.kardex /\ t.lots = s.lots
        /\ All(t, p) = Append(All(s, p), e)
        /\ \A q \in Products \ {p} : t.added[q] = s.added[q] /\ All(t, q) = All(s, q)
    <3>1. s \in Sessions /\ p \in Products /\ e \in EntryRow /\ t = Add(s, p, e)
      BY ONLY <1>2, <1>5, <1>8
    <3> QED
      BY ONLY <3>1, AddIs
  <2> QED
    BY ONLY <1>1, <1>2, <2>1
<1>10. OthersStay(s, t, p)
  BY ONLY <1>9 DEF OthersStay
<1>11. GoodFor(UsesPeps, docs, All(t, p), t.lots, p)
  <2>1. UsesPeps = FALSE
    BY DEF UsesPeps
  <2>2. GoodFor(FALSE, docs, k, s.lots, p)
    BY <1>1, <1>2, <2>1
  <2>3. GoodFor(FALSE, docs, Append(k, e), s.lots, p)
    BY ONLY <1>2, <1>6, <1>8, <2>2, PlainEntry
  <2> QED
    BY ONLY <1>9, <2>1, <2>3
<1>12. Enters(s, t, docs, d, p, e)
  <2>1. e.qty = Balance(All(s, p)).qty + e.in - e.out
    BY ONLY <1>1, <1>2, <1>8 DEF Follows, Continues
  <2>2. All(t, p) = Append(All(s, p), e) /\ InOrder(lots, t.lots, p)
    BY ONLY <1>1, <1>2, <1>9
  <2> QED
    BY ONLY <1>8, <1>11, <2>1, <2>2 DEF Enters
<1>13. Moved(t, docs, d, p, IF entry THEN line.quantity ELSE -line.quantity)
  <2>1. Moved(t, docs, d, p, 0 + (e.in - e.out))
    <3>1. 0 \in Int
      OBVIOUS
    <3> QED
      BY ONLY <1>2, <1>8, <1>9, <1>12, <3>1, OneMore
  <2>2. 0 + (e.in - e.out) = IF entry THEN line.quantity ELSE -line.quantity
    BY ONLY <1>2, <1>8
  <2> QED
    BY ONLY <2>1, <2>2
<1> QED
  BY ONLY <1>1, <1>9, <1>10, <1>13 DEF LineDone, Keeps

-----------------------------------------------------------------------------
(* The lines of a document.                                                *)

\* The units with the sign of the kind of document.
Signed(kind, n) == IF IsEntry(kind) THEN n ELSE -n

\* All the kinds but increments move stock as they are recorded.
LEMMA SignIs ==
  ASSUME NEW kind \in Kinds \ {"increment"}, NEW n \in Int
  PROVE  Sign(kind) * n = Signed(kind, n) /\ (-Sign(kind)) * n = -Signed(kind, n)
<1>1. CASE IsEntry(kind)
  <2>1. Sign(kind) = 1 /\ Signed(kind, n) = n
    BY <1>1 DEF Sign, Signed
  <2> QED
    BY <2>1
<1>2. CASE ~IsEntry(kind)
  <2>1. Sign(kind) = -1 /\ Signed(kind, n) = -n
    BY <1>2 DEF Sign, Signed
  <2> QED
    BY <2>1
<1> QED
  BY <1>1, <1>2

\* A line for which an exit finds stock.
Ready(s, docs, d, kind, line) ==
  /\ Comes(s, docs, d, line)
  /\ IsEntry(kind) \/ Balance(kardex[line.product]).qty - line.quantity >= 0
  /\ (UsesPeps /\ ~IsEntry(kind)) => DOMAIN s.lots = DOMAIN lots

\* record_entry of one line.
LEMMA LineRecorded ==
  ASSUME NEW s, NEW docs, NEW d, NEW kind, NEW line, Ready(s, docs, d, kind, line),
         NEW t, t = RecordLine(s, d, kind, line)
  PROVE  /\ LineDone(s, t, docs, d, line.product, Signed(kind, line.quantity))
         /\ \A i \in DOMAIN t.lots \ DOMAIN s.lots : t.lots[i].document = d
         /\ (UsesPeps /\ ~IsEntry(kind)) => DOMAIN t.lots = DOMAIN s.lots
<1>1. CASE UsesPeps /\ IsEntry(kind)
  <2>1. t = ReceiveLot(s, d, line)
    BY ONLY <1>1, t = RecordLine(s, d, kind, line) DEF RecordLine
  <2>2. Comes(s, docs, d, line)
    BY DEF Ready
  <2> QED
    BY ONLY <1>1, <2>1, <2>2, ReceiveDone DEF Signed
<1>2. CASE UsesPeps /\ ~IsEntry(kind)
  <2>1. t = ConsumeLots(s, d, line)
    BY ONLY <1>2, t = RecordLine(s, d, kind, line) DEF RecordLine
  <2>2. Exits(s, docs, d, line) /\ Balance(kardex[line.product]).qty - line.quantity >= 0
    BY <1>2 DEF Ready, Comes, Exits
  <2>3. LineDone(s, t, docs, d, line.product, -line.quantity) /\ DOMAIN t.lots = DOMAIN s.lots
    BY ONLY <1>2, <2>1, <2>2, ConsumeDone
  <2> QED
    BY ONLY <1>2, <2>3 DEF Signed
<1>3. CASE ~UsesPeps
  <2>1. t = RecordAverage(s, d, line, IsEntry(kind)) /\ IsEntry(kind) \in BOOLEAN
    BY ONLY <1>3, t = RecordLine(s, d, kind, line) DEF RecordLine, IsEntry
  <2>2. Comes(s, docs, d, line)
    BY DEF Ready
  <2>3. /\ LineDone(s, t, docs, d, line.product,
                    IF IsEntry(kind) THEN line.quantity ELSE -line.quantity)
        /\ t.lots = s.lots
    BY ONLY <1>3, <2>1, <2>2, AverageDone
  <2> QED
    BY ONLY <1>3, <2>3 DEF Signed
<1> QED
  BY <1>1, <1>2, <1>3

\* What the handler has done for a product stays while it goes on with others.
LEMMA MovedStays ==
  ASSUME NEW s \in Sessions, NEW t, NEW docs, NEW d, NEW p, NEW x, NEW y, NEW q \in Products \ {p},
         lots \in Seq(LotRow), Keeps(lots, s.lots), LineDone(s, t, docs, d, p, x),
         Moved(s, docs, d, q, y)
  PROVE  Moved(t, docs, d, q, y)
<1>1. /\ t \in Sessions /\ Keeps(s.lots, t.lots) /\ All(t, q) = All(s, q)
      /\ LotsIn(t.lots, q) = LotsIn(s.lots, q) /\ \A i \in LotsIn(s.lots, q) : t.lots[i] = s.lots[i]
  BY DEF LineDone, OthersStay
<1>2. PICK k, l, m : k = All(s, q) /\ l = s.lots /\ m = t.lots
  OBVIOUS
<1>3. k \in Seq(EntryRow) /\ l \in Seq(LotRow) /\ m \in Seq(LotRow)
  BY <1>1, <1>2, SessionIs
<1>4. GoodFor(UsesPeps, docs, k, l, q)
  BY <1>2 DEF Moved
<1>5. GoodFor(UsesPeps, docs, k, m, q)
  BY ONLY <1>1, <1>2, <1>3, <1>4, Elsewhere
<1>6. InOrder(lots, m, q)
  <2>1. \A i \in LotsIn(lots, q) : i \in LotsIn(l, q)
    BY ONLY <1>2, Keeps(lots, s.lots) DEF Keeps, LotsIn
  <2>2. InOrder(lots, l, q)
    BY <1>2 DEF Moved
  <2> QED
    BY ONLY <1>1, <1>2, <2>1, <2>2 DEF InOrder
<1> QED
  BY ONLY <1>1, <1>2, <1>5, <1>6, Moved(s, docs, d, q, y) DEF Moved

\* The books at the beginning of the handler, and the document it records.
Recording(docs, d, kind, lines) ==
  /\ lines \in Seq(Line) /\ Apart(lines)
  /\ d \in DOMAIN docs /\ d \in Nat /\ docs[d].status = "approved" /\ docs[d].lines = lines
  /\ Good(UsesPeps, docs, kardex, lots)
  /\ \A i \in DOMAIN lines :
       IsEntry(kind) \/ Balance(kardex[lines[i].product]).qty - lines[i].quantity >= 0

\* The loop of record_entry over the first m lines.
Lines(f, d, kind, lines, m) ==
  /\ f[0] = Session
  /\ \A i \in 1..m : f[i] = RecordLine(f[i - 1], d, kind, lines[i])

\* The session after m lines.
ByLine(s, docs, d, kind, lines, m) ==
  /\ s \in Sessions /\ Keeps(lots, s.lots)
  /\ \A i \in DOMAIN s.lots : s.lots[i].document \in DOMAIN docs
  /\ (UsesPeps /\ ~IsEntry(kind)) => DOMAIN s.lots = DOMAIN lots
  /\ \A j \in 1..m : Moved(s, docs, d, lines[j].product, Signed(kind, lines[j].quantity))
  /\ \A p \in Products : (\A j \in 1..m : lines[j].product # p) => Fresh(s, p)

\* The session before the first line.
LEMMA LinesBegin ==
  ASSUME NEW docs, NEW d, NEW kind, NEW lines, Recording(docs, d, kind, lines)
  PROVE  ByLine(Session, docs, d, kind, lines, 0)
<1>1. /\ kardex \in [Products -> Seq(EntryRow)] /\ lots \in Seq(LotRow)
      /\ \A i \in DOMAIN lots : lots[i].document \in DOMAIN docs
  BY DEF Recording, Good
<1>2. PICK s : s = Session
  OBVIOUS
<1>3. s = [kardex |-> kardex, added |-> [p \in Products |-> <<>>], lots |-> lots]
  BY ONLY <1>2 DEF Session
<1>4. s.kardex = kardex /\ s.added = [p \in Products |-> <<>>] /\ s.lots = lots
  BY ONLY <1>3
<1>5. s \in Sessions
  <2>1. [p \in Products |-> <<>>] \in [Products -> Seq(EntryRow)]
    OBVIOUS
  <2> QED
    BY ONLY <1>1, <1>3, <2>1 DEF Sessions
<1>6. Keeps(lots, s.lots) /\ \A p \in Products : Fresh(s, p)
  BY ONLY <1>4 DEF Keeps, Fresh
<1> QED
  BY ONLY <1>1, <1>2, <1>4, <1>5, <1>6 DEF ByLine

\* One line after another.
LEMMA LinesGoOn ==
  ASSUME NEW docs, NEW d, NEW kind, NEW lines, Recording(docs, d, kind, lines),
         NEW m \in Nat, m + 1 <= Len(lines),
         NEW s, ByLine(s, docs, d, kind, lines, m),
         NEW t, t = RecordLine(s, d, kind, lines[m + 1])
  PROVE  ByLine(t, docs, d, kind, lines, m + 1)
<1>1. PICK n, line : n = m + 1 /\ line = lines[n]
  OBVIOUS
<1>2. PICK p : p = line.product
  OBVIOUS
<1>3. /\ lines \in Seq(Line) /\ Apart(lines)
      /\ d \in DOMAIN docs /\ d \in Nat /\ docs[d].status = "approved" /\ docs[d].lines = lines
      /\ kardex \in [Products -> Seq(EntryRow)] /\ lots \in Seq(LotRow)
      /\ \A i \in DOMAIN lots : lots[i].document \in DOMAIN docs
      /\ \A q \in Products : GoodFor(UsesPeps, docs, kardex[q], lots, q)
      /\ \A i \in DOMAIN lines :
           IsEntry(kind) \/ Balance(kardex[lines[i].product]).qty - lines[i].quantity >= 0
  BY DEF Recording, Good
<1>4. n \in DOMAIN lines /\ line \in Line /\ p \in Products /\ line.quantity \in Nat
  <2>1. n \in 1..Len(lines)
    BY <1>1, <1>3, ListIs
  <2>2. n \in DOMAIN lines /\ line \in Line
    BY <1>1, <1>3, <2>1, ListIs
  <2> QED
    BY <1>2, <2>2 DEF Line
<1>5. \A j \in 1..m : j \in DOMAIN lines /\ j # n /\ lines[j].product # p
  <2>1. \A j \in 1..m : j \in DOMAIN lines /\ j # n
    BY <1>1, <1>3, ListIs
  <2> QED
    BY ONLY <1>1, <1>2, <1>3, <1>4, <2>1 DEF Apart
<1>6. /\ s \in Sessions /\ Keeps(lots, s.lots)
      /\ \A i \in DOMAIN s.lots : s.lots[i].document \in DOMAIN docs
      /\ (UsesPeps /\ ~IsEntry(kind)) => DOMAIN s.lots = DOMAIN lots
      /\ \A j \in 1..m : Moved(s, docs, d, lines[j].product, Signed(kind, lines[j].quantity))
      /\ \A q \in Products : (\A j \in 1..m : lines[j].product # q) => Fresh(s, q)
  BY DEF ByLine
<1>7. Fresh(s, p)
  BY ONLY <1>4, <1>5, <1>6
<1>8. InForce(docs, d, p)
  BY ONLY <1>1, <1>2, <1>3, <1>4 DEF InForce
<1>9. kardex[p] \in Seq(EntryRow) /\ GoodFor(UsesPeps, docs, kardex[p], lots, p)
  BY ONLY <1>3, <1>4
<1>10. Ready(s, docs, d, kind, line)
  <2>1. IsEntry(kind) \/ Balance(kardex[p]).qty - line.quantity >= 0
    BY ONLY <1>1, <1>2, <1>3, <1>4
  <2>2. Comes(s, docs, d, line)
    BY ONLY <1>2, <1>3, <1>4, <1>6, <1>7, <1>8, <1>9 DEF Comes
  <2> QED
    BY ONLY <1>2, <1>6, <2>1, <2>2 DEF Ready
<1>11. /\ LineDone(s, t, docs, d, p, Signed(kind, line.quantity))
       /\ \A i \in DOMAIN t.lots \ DOMAIN s.lots : t.lots[i].document = d
       /\ (UsesPeps /\ ~IsEntry(kind)) => DOMAIN t.lots = DOMAIN s.lots
  <2>1. t = RecordLine(s, d, kind, line)
    BY <1>1
  <2> QED
    BY ONLY <1>2, <1>10, <2>1, LineRecorded
<1>12. t \in Sessions /\ Keeps(s.lots, t.lots) /\ OthersStay(s, t, p)
  BY ONLY <1>11 DEF LineDone
<1>13. Keeps(lots, t.lots)
  BY ONLY <1>6, <1>12 DEF Keeps
<1>14. \A i \in DOMAIN t.lots : t.lots[i].document \in DOMAIN docs
  BY ONLY <1>3, <1>6, <1>11, <1>12 DEF Keeps
<1>15. (UsesPeps /\ ~IsEntry(kind)) => DOMAIN t.lots = DOMAIN lots
  BY ONLY <1>6, <1>11
<1>16. ASSUME NEW j \in 1..n
       PROVE  Moved(t, docs, d, lines[j].product, Signed(kind, lines[j].quantity))
  <2>1. CASE j = n
    BY ONLY <1>1, <1>2, <1>11, <2>1 DEF LineDone
  <2>2. CASE j # n
    <3>1. j \in 1..m
      BY <1>1, <2>2
    <3>2. lines[j] \in Line
      BY <1>3, <1>5, <3>1, ListIs
    <3>3. PICK q, y : q = lines[j].product /\ y = Signed(kind, lines[j].quantity)
      OBVIOUS
    <3>4. q \in Products \ {p}
      BY <1>5, <3>1, <3>2, <3>3 DEF Line
    <3>5. Moved(s, docs, d, q, y)
      BY ONLY <1>6, <3>1, <3>3
    <3>6. Moved(t, docs, d, q, y)
      BY ONLY <1>3, <1>6, <1>11, <3>4, <3>5, MovedStays
    <3> QED
      BY ONLY <3>3, <3>6
  <2> QED
    BY <2>1, <2>2
<1>17. ASSUME NEW q \in Products, \A j \in 1..n : lines[j].product # q
       PROVE  Fresh(t, q)
  <2>1. \A j \in 1..m : j \in 1..n
    BY <1>1
  <2>2. n \in 1..n
    BY <1>1
  <2>3. q # p /\ Fresh(s, q)
    BY ONLY <1>1, <1>2, <1>6, <1>17, <2>1, <2>2
  <2>4. /\ LotsIn(t.lots, q) = LotsIn(s.lots, q) /\ \A i \in LotsIn(s.lots, q) : t.lots[i] = s.lots[i]
        /\ s.added[q] = <<>> => t.kardex[q] = s.kardex[q] /\ t.added[q] = <<>>
    BY ONLY <1>12, <2>3, q \in Products DEF OthersStay
  <2> QED
    BY ONLY <2>3, <2>4 DEF Fresh
<1> QED
  BY ONLY <1>1, <1>12, <1>13, <1>14, <1>15, <1>16, <1>17 DEF ByLine

\* The recursive function that RecordEntry defines is the loop.
LEMMA RecordIs ==
  ASSUME NEW d, NEW kind, NEW lines \in Seq(Line)
  PROVE  \E f : /\ Lines(f, d, kind, lines, Len(lines))
                /\ RecordEntry(d, kind, lines) = Flush(f[Len(lines)])
<1> DEFINE Rec(f, m) == f = [i \in 0..m |-> IF i = 0 THEN Session
                                            ELSE RecordLine(f[i - 1], d, kind, lines[i])]
           Reached == {m \in Nat : \E f : Rec(f, m)}
           n == Len(lines)
<1>1. n \in Nat
  OBVIOUS
<1>2. 0 \in Reached
  <2>1. Rec([i \in 0..0 |-> Session], 0)
    OBVIOUS
  <2> QED
    BY <2>1
<1>3. ASSUME NEW m \in Nat, m \in Reached PROVE m + 1 \in Reached
  <2>1. PICK f : Rec(f, m)
    BY <1>3
  <2>2. PICK g : g = [i \in 0..(m + 1) |-> IF i <= m THEN f[i]
                                          ELSE RecordLine(f[m], d, kind, lines[m + 1])]
    OBVIOUS
  <2>3. \A i \in 0..m : g[i] = f[i]
    BY ONLY <2>2, m \in Nat
  <2>4. g[m + 1] = RecordLine(f[m], d, kind, lines[m + 1])
    BY ONLY <2>2, m \in Nat
  <2>5. ASSUME NEW i \in 0..(m + 1)
        PROVE  g[i] = IF i = 0 THEN Session ELSE RecordLine(g[i - 1], d, kind, lines[i])
    <3>1. i \in Nat /\ (i = 0 \/ i - 1 \in 0..m)
      BY ONLY <2>5, m \in Nat
    <3>2. CASE i = m + 1
      <4>1. i # 0 /\ i - 1 = m /\ m \in 0..m
        BY ONLY <3>2, m \in Nat
      <4> QED
        BY ONLY <2>3, <2>4, <3>2, <4>1
    <3>3. CASE i # m + 1
      <4>1. i \in 0..m
        BY ONLY <2>5, <3>3, m \in Nat
      <4>2. f[i] = IF i = 0 THEN Session ELSE RecordLine(f[i - 1], d, kind, lines[i])
        BY ONLY <2>1, <4>1
      <4> QED
        BY ONLY <2>3, <3>1, <4>1, <4>2
    <3> QED
      BY <3>2, <3>3
  <2>6. Rec(g, m + 1)
    <3>1. g = [i \in 0..(m + 1) |-> g[i]]
      BY ONLY <2>2
    <3> QED
      BY ONLY <2>5, <3>1
  <2>7. m + 1 \in Nat /\ \E h : Rec(h, m + 1)
    <3> HIDE DEF Rec
    <3> QED
      BY ONLY <2>6, m \in Nat
  <2> QED
    BY ONLY <2>7
<1>4. n \in Reached
  <2> HIDE DEF Reached
  <2> QED
    BY ONLY <1>1, <1>2, <1>3, NumberInduction
<1>5. PICK f : f = CHOOSE g : Rec(g, n)
  OBVIOUS
<1>6. Rec(f, n)
  <2>1. \E g : Rec(g, n)
    BY <1>4
  <2> QED
    BY ONLY <1>5, <2>1
<1>7. RecordEntry(d, kind, lines) = Flush(f[n])
  BY ONLY <1>5 DEF RecordEntry
<1>8. Lines(f, d, kind, lines, n)
  <2>1. f[0] = Session
    BY ONLY <1>1, <1>6
  <2>2. \A i \in 1..n : i \in 0..n /\ i # 0
    BY <1>1
  <2>3. \A i \in 1..n : f[i] = RecordLine(f[i - 1], d, kind, lines[i])
    BY ONLY <1>6, <2>2
  <2> QED
    BY ONLY <2>1, <2>3 DEF Lines
<1> QED
  BY <1>7, <1>8

\* The units of a product on lines that name it once.
LEMMA QuantityIs ==
  ASSUME NEW lines \in Seq(Line), Apart(lines), NEW p
  PROVE  /\ QuantityIn(lines, p) \in Nat
         /\ \A j \in DOMAIN lines : lines[j].product = p => QuantityIn(lines, p) = lines[j].quantity
         /\ (\A j \in DOMAIN lines : lines[j].product # p) => QuantityIn(lines, p) = 0
<1>1. PICK f, D : /\ f = [i \in DOMAIN lines |-> lines[i].quantity]
                  /\ D = {i \in DOMAIN lines : lines[i].product = p}
  OBVIOUS
<1>2. QuantityIn(lines, p) = SumFunctionOnSet(f, D)
  BY ONLY <1>1 DEF QuantityIn
<1>3. IsFiniteSet(D)
  BY <1>1, ListIs, FS_Subset
<1>4. \A i \in DOMAIN lines : f[i] \in Nat /\ f[i] = lines[i].quantity
  <2>1. \A i \in DOMAIN lines : lines[i] \in Line
    BY ListIs
  <2>2. \A i \in DOMAIN lines : lines[i].quantity \in Nat
    BY ONLY <2>1 DEF Line
  <2> QED
    BY ONLY <1>1, <2>2
<1>5. SumFunctionOnSet(f, D) \in Nat
  <2>1. \A i \in D : f[i] \in Nat
    BY ONLY <1>1, <1>4
  <2> QED
    BY ONLY <1>3, <2>1, SumNatural
<1>6. ASSUME NEW j \in DOMAIN lines, lines[j].product = p
      PROVE  SumFunctionOnSet(f, D) = lines[j].quantity
  <2>1. D = {j}
    BY ONLY <1>1, <1>6, Apart(lines) DEF Apart
  <2>2. f[j] \in Int /\ f[j] = lines[j].quantity
    BY <1>4, <1>6
  <2> QED
    BY ONLY <2>1, <2>2, SumOne
<1>7. ASSUME \A j \in DOMAIN lines : lines[j].product # p
      PROVE  SumFunctionOnSet(f, D) = 0
  <2>1. D = {}
    BY ONLY <1>1, <1>7
  <2> QED
    BY ONLY <2>1, SumEmpty
<1> QED
  BY ONLY <1>2, <1>5, <1>6, <1>7

\* record_entry of all the lines of a document: the books are good and have
\* moved by its units, under its name.
LEMMA RecordDone ==
  ASSUME NEW docs, NEW d, NEW kind, NEW lines, Recording(docs, d, kind, lines),
         NEW t, t = RecordEntry(d, kind, lines)
  PROVE  /\ t \in Sessions
         /\ \A i \in DOMAIN t.lots : t.lots[i].document \in DOMAIN docs
         /\ Keeps(lots, t.lots)
         /\ \A p \in Products : /\ All(t, p) = t.kardex[p]
                                /\ Moved(t, docs, d, p, Signed(kind, QuantityIn(lines, p)))
<1>1. /\ lines \in Seq(Line) /\ Apart(lines)
      /\ kardex \in [Products -> Seq(EntryRow)] /\ lots \in Seq(LotRow)
      /\ \A q \in Products : GoodFor(UsesPeps, docs, kardex[q], lots, q)
  BY DEF Recording, Good
<1>2. PICK n : n = Len(lines)
  OBVIOUS
<1>3. n \in Nat /\ DOMAIN lines = 1..n
  BY <1>1, <1>2, ListIs
<1>4. PICK f : Lines(f, d, kind, lines, n) /\ t = Flush(f[n])
  BY ONLY <1>1, <1>2, RecordIs, t = RecordEntry(d, kind, lines)
<1> DEFINE Done == {m \in Nat : m <= n => ByLine(f[m], docs, d, kind, lines, m)}
<1>5. 0 \in Done
  <2>1. f[0] = Session
    BY <1>4 DEF Lines
  <2> QED
    BY <2>1, LinesBegin
<1>6. ASSUME NEW m \in Nat, m \in Done PROVE m + 1 \in Done
  <2> SUFFICES ASSUME m + 1 <= n PROVE ByLine(f[m + 1], docs, d, kind, lines, m + 1)
    OBVIOUS
  <2>1. PICK s : s = f[m]
    OBVIOUS
  <2>2. ByLine(s, docs, d, kind, lines, m) /\ m + 1 \in 1..n /\ (m + 1) - 1 = m
    BY <1>3, <1>6, <2>1
  <2>3. f[m + 1] = RecordLine(s, d, kind, lines[m + 1]) /\ m + 1 <= Len(lines)
    BY ONLY <1>2, <1>4, <2>1, <2>2, m + 1 <= n DEF Lines
  <2> QED
    BY ONLY <2>2, <2>3, LinesGoOn, m \in Nat, Recording(docs, d, kind, lines)
<1>7. n \in Done
  <2> HIDE DEF Done
  <2> QED
    BY ONLY <1>3, <1>5, <1>6, NumberInduction
<1>8. PICK s : s = f[n]
  OBVIOUS
<1>9. /\ s \in Sessions /\ Keeps(lots, s.lots)
      /\ \A i \in DOMAIN s.lots : s.lots[i].document \in DOMAIN docs
      /\ \A j \in DOMAIN lines : Moved(s, docs, d, lines[j].product, Signed(kind, lines[j].quantity))
      /\ \A q \in Products : (\A j \in DOMAIN lines : lines[j].product # q) => Fresh(s, q)
  <2>1. ByLine(s, docs, d, kind, lines, n)
    BY <1>3, <1>7, <1>8
  <2> QED
    BY ONLY <1>3, <2>1 DEF ByLine
<1>10. /\ t \in Sessions /\ t.lots = s.lots
       /\ \A p \in Products : t.kardex[p] = All(s, p) /\ All(t, p) = All(s, p)
  <2>1. s \in Sessions /\ t = Flush(s)
    BY <1>4, <1>8, <1>9
  <2> QED
    BY ONLY <2>1, FlushIs
<1>11. ASSUME NEW p \in Products
       PROVE  Moved(t, docs, d, p, Signed(kind, QuantityIn(lines, p)))
  <2>1. PICK x : x = Signed(kind, QuantityIn(lines, p))
    OBVIOUS
  <2>2. Moved(s, docs, d, p, x)
    <3>1. CASE \E j \in DOMAIN lines : lines[j].product = p
      <4>1. PICK j \in DOMAIN lines : lines[j].product = p
        BY <3>1
      <4>2. QuantityIn(lines, p) = lines[j].quantity
        BY ONLY <1>1, <4>1, QuantityIs
      <4> QED
        BY ONLY <1>9, <2>1, <4>1, <4>2
    <3>2. CASE \A j \in DOMAIN lines : lines[j].product # p
      <4>1. QuantityIn(lines, p) = 0
        BY ONLY <1>1, <3>2, QuantityIs
      <4>2. x = 0
        <5>1. \A q \in Int : q <= 0 /\ q >= 0 => -q = 0
          OBVIOUS
        <5>2. QuantityIn(lines, p) \in Int
          BY ONLY <1>1, QuantityIs, Nat \subseteq Int
        <5>3. -QuantityIn(lines, p) = 0
          <6>1. QuantityIn(lines, p) <= 0 /\ QuantityIn(lines, p) >= 0
            BY ONLY <4>1
          <6> QED
            BY ONLY <5>1, <5>2, <6>1
        <5> QED
          BY ONLY <2>1, <4>1, <5>3 DEF Signed
      <4>3. Fresh(s, p)
        BY ONLY <1>9, <3>2, p \in Products
      <4>4. kardex[p] \in Seq(EntryRow) /\ GoodFor(UsesPeps, docs, kardex[p], lots, p)
        BY ONLY <1>1, p \in Products
      <4>5. Moved(s, docs, d, p, 0)
        BY ONLY <1>1, <1>9, <4>3, <4>4, NothingMoved, p \in Products
      <4> QED
        BY ONLY <4>2, <4>5
    <3> QED
      BY ONLY <3>1, <3>2
  <2>3. Moved(t, docs, d, p, x)
    BY ONLY <1>10, <2>2, p \in Products DEF Moved
  <2> QED
    BY ONLY <2>1, <2>3
<1> QED
  BY ONLY <1>9, <1>10, <1>11

-----------------------------------------------------------------------------
(* A document comes into force.                                            *)

\* The documents with d approved, when it is new or was pending.
Approving(docs, d) ==
  /\ docs \in Seq(Document) /\ d \in DOMAIN docs
  /\ docs[d].status = "approved" /\ Apart(docs[d].lines)
  /\ DOMAIN documents \subseteq DOMAIN docs /\ DOMAIN docs \subseteq DOMAIN documents \cup {d}
  /\ \A c \in DOMAIN documents \ {d} : docs[c] = documents[c]
  /\ d \in DOMAIN documents => documents[d].status = "pending"

\* What the books are, for every product and every entry.
LEMMA BooksAre ==
  ASSUME Inv
  PROVE  /\ documents \in Seq(Document) /\ \A d \in DOMAIN documents : Apart(documents[d].lines)
         /\ stock \in [Products -> Nat] /\ kardex \in [Products -> Seq(EntryRow)]
         /\ lots \in Seq(LotRow) /\ \A i \in DOMAIN lots : lots[i].document \in DOMAIN documents
         /\ \A p \in Products :
              /\ kardex[p] \in Seq(EntryRow) /\ stock[p] \in Nat
              /\ GoodFor(UsesPeps, documents, kardex[p], lots, p)
              /\ Balance(kardex[p]).qty = stock[p]
              /\ \A x \in DOMAIN kardex[p] : Refers(documents, lots, p, kardex[p][x])
              /\ \A d \in DOMAIN documents : Recorded(documents[d], kardex[p], d, p)
BY DEF Inv, Books, Good, GoodFor

\* The Kardex names no document that is new or pending.
LEMMA NotNamed ==
  ASSUME Inv, NEW docs, NEW d, Approving(docs, d), NEW p \in Products, NEW x \in DOMAIN kardex[p]
  PROVE  /\ kardex[p][x].document # d
         /\ kardex[p][x].document \in DOMAIN docs
         /\ docs[kardex[p][x].document] = documents[kardex[p][x].document]
<1>1. Refers(documents, lots, p, kardex[p][x])
  BY BooksAre
<1>2. PICK c : c = kardex[p][x].document
  OBVIOUS
<1>3. c \in DOMAIN documents /\ documents[c].status # "pending"
  BY ONLY <1>1, <1>2 DEF Refers
<1>4. c # d /\ c \in DOMAIN docs /\ docs[c] = documents[c]
  BY ONLY <1>3, Approving(docs, d) DEF Approving
<1> QED
  BY ONLY <1>2, <1>4

\* The columns of a document.
LEMMA DocumentIs ==
  ASSUME Regular, NEW docs \in Seq(Document), NEW d \in DOMAIN docs
  PROVE  /\ docs[d].kind \in Kinds \ {"increment"} /\ docs[d].lines \in Seq(Line)
         /\ docs[d].status \in {"pending", "approved", "voided"} /\ d \in Nat
<1>1. docs[d] \in Document /\ d \in Nat
  BY ListIs
<1>2. docs[d].kind \in Kinds \cap Operations /\ docs[d].lines \in Seq(Line)
      /\ docs[d].status \in {"pending", "approved", "voided"}
  BY <1>1 DEF Document
<1> QED
  BY <1>1, <1>2 DEF Regular

\* A document that comes into force: the stock moves, and the books with it.
LEMMA Approved ==
  ASSUME Regular, Inv, NEW docs, NEW d, Approving(docs, d),
         NEW kind, kind = docs[d].kind, NEW lines, lines = docs[d].lines,
         \A p \in Products : stock[p] + Sign(kind) * QuantityIn(lines, p) >= 0,
         NEW st, st = [p \in Products |-> stock[p] + Sign(kind) * QuantityIn(lines, p)],
         NEW t, t = RecordEntry(d, kind, lines)
  PROVE  /\ Books(UsesPeps, docs, st, t.kardex, t.lots)
         /\ Keeps(lots, t.lots)
         /\ \A p \in Products : InOrder(lots, t.lots, p)
<1>1. /\ stock \in [Products -> Nat] /\ kardex \in [Products -> Seq(EntryRow)]
      /\ lots \in Seq(LotRow) /\ \A i \in DOMAIN lots : lots[i].document \in DOMAIN documents
      /\ \A c \in DOMAIN documents : Apart(documents[c].lines)
      /\ \A p \in Products :
           /\ kardex[p] \in Seq(EntryRow) /\ stock[p] \in Nat
           /\ GoodFor(UsesPeps, documents, kardex[p], lots, p)
           /\ Balance(kardex[p]).qty = stock[p]
           /\ \A c \in DOMAIN documents : Recorded(documents[c], kardex[p], c, p)
  BY BooksAre
<1>2. /\ docs \in Seq(Document) /\ d \in DOMAIN docs
      /\ docs[d].status = "approved" /\ Apart(lines)
      /\ DOMAIN documents \subseteq DOMAIN docs /\ DOMAIN docs \subseteq DOMAIN documents \cup {d}
      /\ \A c \in DOMAIN documents \ {d} : docs[c] = documents[c]
      /\ d \in DOMAIN documents => documents[d].status = "pending"
  BY DEF Approving
<1>3. kind \in Kinds \ {"increment"} /\ lines \in Seq(Line) /\ d \in Nat
  BY ONLY <1>2, DocumentIs, Regular, kind = docs[d].kind, lines = docs[d].lines
<1>4. ASSUME NEW p \in Products
      PROVE  /\ QuantityIn(lines, p) \in Nat
             /\ Sign(kind) * QuantityIn(lines, p) = Signed(kind, QuantityIn(lines, p))
             /\ Signed(kind, QuantityIn(lines, p)) \in Int
             /\ stock[p] + Signed(kind, QuantityIn(lines, p)) >= 0
  <2>1. PICK q : q = QuantityIn(lines, p)
    OBVIOUS
  <2>2. q \in Nat
    BY ONLY <1>2, <1>3, <2>1, QuantityIs
  <2>3. Sign(kind) * q = Signed(kind, q)
    BY ONLY <1>3, <2>2, SignIs, Nat \subseteq Int
  <2>4. Signed(kind, q) \in Int
    BY ONLY <2>2 DEF Signed
  <2>5. stock[p] + Sign(kind) * q >= 0
    BY ONLY <2>1, p \in Products, \A r \in Products : stock[r] + Sign(kind) * QuantityIn(lines, r) >= 0
  <2> QED
    BY ONLY <2>1, <2>2, <2>3, <2>4, <2>5
<1>5. ASSUME NEW p \in Products
      PROVE  GoodFor(UsesPeps, docs, kardex[p], lots, p)
  <2>1. PICK k : k = kardex[p]
    OBVIOUS
  <2>2. \A x \in DOMAIN k : k[x].document \in DOMAIN docs /\ docs[k[x].document] = documents[k[x].document]
    BY ONLY <2>1, NotNamed, Inv, Approving(docs, d), p \in Products
  <2>3. GoodFor(UsesPeps, documents, k, lots, p)
    BY ONLY <1>1, <2>1, p \in Products
  <2>4. GoodFor(UsesPeps, docs, k, lots, p)
    BY ONLY <2>2, <2>3, SameDocuments
  <2> QED
    BY ONLY <2>1, <2>4
<1>6. Recording(docs, d, kind, lines)
  <2>1. Good(UsesPeps, docs, kardex, lots)
    BY ONLY <1>1, <1>2, <1>5 DEF Good
  <2>2. ASSUME NEW i \in DOMAIN lines
        PROVE  IsEntry(kind) \/ Balance(kardex[lines[i].product]).qty - lines[i].quantity >= 0
    <3>1. PICK p, n : p = lines[i].product /\ n = lines[i].quantity
      OBVIOUS
    <3>2. p \in Products /\ n \in Nat
      <4>1. lines[i] \in Line
        BY <1>3, ListIs
      <4> QED
        BY <3>1, <4>1 DEF Line
    <3>3. QuantityIn(lines, p) = n
      BY ONLY <1>2, <1>3, <3>1, QuantityIs, i \in DOMAIN lines
    <3>4. stock[p] + Signed(kind, n) >= 0 /\ stock[p] \in Nat /\ Balance(kardex[p]).qty = stock[p]
      BY ONLY <1>1, <1>4, <3>2, <3>3
    <3>5. IsEntry(kind) \/ stock[p] + (-n) >= 0
      BY ONLY <3>4 DEF Signed
    <3>6. IsEntry(kind) \/ stock[p] - n >= 0
      BY ONLY <3>2, <3>4, <3>5
    <3> QED
      BY ONLY <3>1, <3>4, <3>6
  <2> QED
    BY ONLY <1>2, <1>3, <2>1, <2>2, lines = docs[d].lines DEF Recording
<1>7. /\ t \in Sessions
      /\ \A i \in DOMAIN t.lots : t.lots[i].document \in DOMAIN docs
      /\ Keeps(lots, t.lots)
      /\ \A p \in Products : /\ All(t, p) = t.kardex[p]
                             /\ Moved(t, docs, d, p, Signed(kind, QuantityIn(lines, p)))
  BY ONLY <1>6, RecordDone, t = RecordEntry(d, kind, lines)
<1>8. t.kardex \in [Products -> Seq(EntryRow)] /\ t.lots \in Seq(LotRow)
  BY <1>7, SessionIs
<1>9. \A p \in Products : InOrder(lots, t.lots, p) /\ GoodFor(UsesPeps, docs, t.kardex[p], t.lots, p)
  BY ONLY <1>7 DEF Moved
<1>10. ASSUME NEW p \in Products
       PROVE  Balance(t.kardex[p]).qty = st[p] /\ st[p] \in Nat
  <2>1. Balance(t.kardex[p]).qty = stock[p] + Signed(kind, QuantityIn(lines, p))
    BY ONLY <1>1, <1>7, p \in Products DEF Moved
  <2>2. st[p] = stock[p] + Sign(kind) * QuantityIn(lines, p)
    BY ONLY p \in Products, st = [r \in Products |-> stock[r] + Sign(kind) * QuantityIn(lines, r)]
  <2>3. st[p] = stock[p] + Signed(kind, QuantityIn(lines, p))
    BY ONLY <1>4, <2>2, p \in Products
  <2>4. stock[p] \in Nat
    BY ONLY <1>1, p \in Products
  <2> QED
    BY ONLY <1>4, <2>1, <2>3, <2>4, p \in Products
<1>11. st \in [Products -> Nat]
  BY ONLY <1>10, st = [r \in Products |-> stock[r] + Sign(kind) * QuantityIn(lines, r)]
<1>12. ASSUME NEW c \in DOMAIN docs, NEW p \in Products
       PROVE  Recorded(docs[c], t.kardex[p], c, p)
  <2>1. PICK k, s, x : k = kardex[p] /\ s = t.kardex[p] /\ x = Signed(kind, QuantityIn(lines, p))
    OBVIOUS
  <2>2. Net(s, Places(s, c)) = Net(k, Places(k, c)) + (IF c = d THEN x ELSE 0)
    BY ONLY <1>7, <2>1, p \in Products DEF Moved
  <2>3. CASE c # d
    <3>1. c \in DOMAIN documents /\ docs[c] = documents[c]
      BY ONLY <1>2, <2>3, c \in DOMAIN docs
    <3>2. Recorded(docs[c], k, c, p)
      BY ONLY <1>1, <2>1, <3>1, p \in Products
    <3>3. Net(k, Places(k, c)) \in Int
      <4>1. k \in Seq(EntryRow) /\ Places(k, c) \in SUBSET (DOMAIN k)
        BY <1>1, <2>1 DEF Places
      <4> QED
        BY <4>1, SumsAre
    <3>4. Net(s, Places(s, c)) = Net(k, Places(k, c))
      BY ONLY <2>2, <2>3, <3>3
    <3> QED
      BY ONLY <2>1, <3>2, <3>4 DEF Recorded
  <2>4. CASE c = d
    <3>1. Net(k, Places(k, d)) = 0
      <4>1. Places(k, d) = {}
        <5>1. \A y \in DOMAIN k : k[y].document # d
          BY ONLY <2>1, NotNamed, Inv, Approving(docs, d), p \in Products
        <5> QED
          BY ONLY <5>1 DEF Places
      <4>2. PICK f : f = [i \in DOMAIN k |-> k[i].in - k[i].out]
        OBVIOUS
      <4>3. SumFunctionOnSet(f, {}) = 0
        BY SumEmpty
      <4> QED
        BY ONLY <4>1, <4>2, <4>3 DEF Net
    <3>2. x \in Int /\ x = Sign(kind) * QuantityIn(lines, p)
      BY ONLY <1>4, <2>1, p \in Products
    <3>3. Net(s, Places(s, d)) = Sign(kind) * QuantityIn(lines, p)
      BY ONLY <2>2, <2>4, <3>1, <3>2
    <3> QED
      BY ONLY <1>2, <2>1, <2>4, <3>3, kind = docs[d].kind, lines = docs[d].lines DEF Recorded
  <2> QED
    BY ONLY <2>3, <2>4
<1>13. \A c \in DOMAIN docs : Apart(docs[c].lines)
  BY ONLY <1>1, <1>2, lines = docs[d].lines
<1>14. Good(UsesPeps, docs, t.kardex, t.lots)
  BY ONLY <1>7, <1>8, <1>9 DEF Good
<1> QED
  BY ONLY <1>2, <1>7, <1>9, <1>10, <1>11, <1>12, <1>13, <1>14 DEF Books

\* OldestLotFirst, of one step.
OldestGone(l, m) ==
  \A i, j \in DOMAIN l :
    (/\ i < j /\ l[i].product = l[j].product
     /\ m[j].available < l[j].available
     /\ m[j].initial = l[j].initial) => m[i].available = 0

\* Lots that lose units in order.
LEMMA InOrderIs ==
  ASSUME NEW l \in Seq(LotRow), NEW m, \A p \in Products : InOrder(l, m, p)
  PROVE  OldestGone(l, m)
<1> SUFFICES ASSUME NEW i \in DOMAIN l, NEW j \in DOMAIN l, i < j, l[i].product = l[j].product,
                    m[j].available < l[j].available
             PROVE  m[i].available = 0
  BY DEF OldestGone
<1>1. PICK p : p = l[i].product
  OBVIOUS
<1>2. p \in Products /\ i \in LotsIn(l, p) /\ j \in LotsIn(l, p)
  BY <1>1, ListIs, LotIs DEF LotsIn
<1>3. InOrder(l, m, p)
  BY <1>2
<1> QED
  BY ONLY <1>2, <1>3, i < j, m[j].available < l[j].available DEF InOrder

\* Lots that stay.
LEMMA SameLots ==
  ASSUME NEW l \in Seq(LotRow)
  PROVE  OldestGone(l, l)
<1>1. \A j \in DOMAIN l : l[j].available \in Nat
  BY ListIs, LotIs
<1> QED
  BY <1>1 DEF OldestGone

\* The handlers that bring a document into force.
LEMMA ApprovedStep ==
  ASSUME Regular, Inv, NEW docs, NEW d, Approving(docs, d), documents' = docs,
         Len(docs) <= MaxDocuments,
         NEW kind, kind = docs[d].kind, NEW lines, lines = docs[d].lines,
         MoveStock(Sign(kind), lines), Record(d, kind, lines), UNCHANGED <<method, year>>
  PROVE  Inv' /\ OldestGone(lots, lots')
<1>1. PICK st, t : /\ st = [p \in Products |-> stock[p] + Sign(kind) * QuantityIn(lines, p)]
                   /\ t = RecordEntry(d, kind, lines)
  OBVIOUS
<1>2. /\ \A p \in Products : stock[p] + Sign(kind) * QuantityIn(lines, p) >= 0
      /\ stock' = st
  BY ONLY <1>1, MoveStock(Sign(kind), lines) DEF MoveStock
<1>3. kardex' = t.kardex /\ lots' = t.lots /\ movedInYear' \in BOOLEAN
  BY ONLY <1>1, Record(d, kind, lines) DEF Record
<1>4. Books(UsesPeps, docs, st, t.kardex, t.lots) /\ \A p \in Products : InOrder(lots, t.lots, p)
  BY ONLY <1>1, <1>2, Approved, Regular, Inv, Approving(docs, d),
          kind = docs[d].kind, lines = docs[d].lines
<1>5. OldestGone(lots, lots')
  <2>1. OldestGone(lots, t.lots)
    BY <1>4, BooksAre, InOrderIs
  <2> QED
    BY ONLY <1>3, <2>1
<1>6. UsesPeps' = UsesPeps
  BY ONLY UNCHANGED <<method, year>> DEF UsesPeps
<1>7. Books(UsesPeps', documents', stock', kardex', lots')
  BY ONLY <1>2, <1>3, <1>4, <1>6, documents' = docs
<1> QED
  BY ONLY <1>3, <1>5, <1>7, Inv, documents' = docs, Len(docs) <= MaxDocuments,
          UNCHANGED <<method, year>> DEF Inv

\* A new document at the end.
LEMMA NewDocument ==
  ASSUME Regular, Inv, NEW doc \in Document, Apart(doc.lines), Len(documents) < MaxDocuments,
         NEW docs, docs = Append(documents, doc)
  PROVE  /\ docs \in Seq(Document) /\ Len(docs) <= MaxDocuments
         /\ Len(documents) + 1 \in DOMAIN docs /\ docs[Len(documents) + 1] = doc
         /\ Len(documents) + 1 \notin DOMAIN documents
         /\ DOMAIN docs = DOMAIN documents \cup {Len(documents) + 1}
         /\ \A c \in DOMAIN documents : docs[c] = documents[c]
<1>1. documents \in Seq(Document) /\ Len(documents) \in Nat
  BY BooksAre
<1>2. PICK n : n = Len(documents) + 1
  OBVIOUS
<1>3. /\ docs \in Seq(Document) /\ Len(docs) = n /\ DOMAIN docs = DOMAIN documents \cup {n}
      /\ n \notin DOMAIN documents /\ docs[n] = doc /\ \A x \in DOMAIN documents : docs[x] = documents[x]
  BY ONLY <1>1, <1>2, Grown, doc \in Document, docs = Append(documents, doc)
<1>4. n <= MaxDocuments
  BY <1>1, <1>2
<1> QED
  BY ONLY <1>2, <1>3, <1>4

\* Creating a document that is approved at once.
LEMMA CreateStep ==
  ASSUME Regular, Inv, NEW kind \in Kinds, NEW lines \in Seq(Line), Apart(lines),
         CreateApproved(kind, lines)
  PROVE  Inv' /\ OldestGone(lots, lots')
<1>1. PICK doc, docs, d : /\ doc = [kind |-> kind, lines |-> lines, status |-> "approved"]
                          /\ docs = Append(documents, doc) /\ d = Len(documents) + 1
  OBVIOUS
<1>2. /\ kind \in Operations /\ Len(documents) < MaxDocuments /\ documents' = docs
      /\ UNCHANGED <<method, year>>
      /\ MoveStock(Sign(kind), lines) /\ Record(d, kind, lines)
  BY ONLY <1>1, CreateApproved(kind, lines) DEF CreateApproved, Create
<1>3. doc \in Document /\ doc.kind = kind /\ doc.lines = lines /\ doc.status = "approved"
  <2>1. kind \in Kinds \cap Operations
    BY <1>2
  <2> QED
    BY ONLY <1>1, <2>1, lines \in Seq(Line) DEF Document
<1>4. /\ docs \in Seq(Document) /\ Len(docs) <= MaxDocuments
      /\ d \in DOMAIN docs /\ docs[d] = doc /\ d \notin DOMAIN documents
      /\ DOMAIN docs = DOMAIN documents \cup {d}
      /\ \A c \in DOMAIN documents : docs[c] = documents[c]
  <2>1. /\ doc \in Document /\ Apart(doc.lines) /\ Len(documents) < MaxDocuments
        /\ docs = Append(documents, doc)
    BY ONLY <1>1, <1>2, <1>3, Apart(lines)
  <2>2. /\ docs \in Seq(Document) /\ Len(docs) <= MaxDocuments
        /\ Len(documents) + 1 \in DOMAIN docs /\ docs[Len(documents) + 1] = doc
        /\ Len(documents) + 1 \notin DOMAIN documents
        /\ DOMAIN docs = DOMAIN documents \cup {Len(documents) + 1}
        /\ \A c \in DOMAIN documents : docs[c] = documents[c]
    BY ONLY <2>1, NewDocument, Regular, Inv
  <2> QED
    BY ONLY <1>1, <2>2
<1>5. Approving(docs, d)
  BY ONLY <1>3, <1>4, Apart(lines) DEF Approving
<1>6. kind = docs[d].kind /\ lines = docs[d].lines
  BY ONLY <1>3, <1>4
<1> QED
  BY ONLY <1>2, <1>4, <1>5, <1>6, ApprovedStep, Regular, Inv

\* Approving a document that was pending.
LEMMA ApproveStep ==
  ASSUME Regular, Inv, NEW d \in DOMAIN documents, ApproveDocument(d)
  PROVE  Inv' /\ OldestGone(lots, lots')
<1>1. PICK docs, doc, old : /\ docs = [documents EXCEPT ![d].status = "approved"]
                            /\ old = documents[d] /\ doc = [old EXCEPT !.status = "approved"]
  OBVIOUS
<1>2. /\ old.status = "pending" /\ documents' = docs
      /\ MoveStock(Sign(old.kind), old.lines) /\ Record(d, old.kind, old.lines)
      /\ UNCHANGED <<method, year>>
  BY ONLY <1>1, ApproveDocument(d) DEF ApproveDocument
<1>3. documents \in Seq(Document) /\ Apart(old.lines) /\ Len(documents) <= MaxDocuments
  BY <1>1, BooksAre DEF Inv
<1>4. old \in Document
  BY ONLY <1>1, <1>3, ListIs, d \in DOMAIN documents
<1>5. doc \in Document /\ doc.status = "approved" /\ doc.lines = old.lines /\ doc.kind = old.kind
  BY ONLY <1>1, <1>4 DEF Document
<1>6. docs = [documents EXCEPT ![d] = doc]
  BY <1>1
<1>7. /\ docs \in Seq(Document) /\ DOMAIN docs = DOMAIN documents /\ Len(docs) = Len(documents)
      /\ docs[d] = doc /\ \A c \in DOMAIN documents \ {d} : docs[c] = documents[c]
  BY ONLY <1>3, <1>5, <1>6, d \in DOMAIN documents
<1>8. Approving(docs, d)
  BY ONLY <1>1, <1>2, <1>3, <1>5, <1>7, d \in DOMAIN documents DEF Approving
<1>9. PICK kind, lines : kind = docs[d].kind /\ lines = docs[d].lines
  OBVIOUS
<1>10. MoveStock(Sign(kind), lines) /\ Record(d, kind, lines) /\ Len(docs) <= MaxDocuments
  BY ONLY <1>2, <1>3, <1>5, <1>7, <1>9
<1> QED
  BY ONLY <1>2, <1>8, <1>9, <1>10, ApprovedStep, Regular, Inv

\* create_ingreso and create_egreso.
LEMMA IngresoEgreso ==
  ASSUME Regular, Inv, CreateIngreso \/ CreateEgreso
  PROVE  Inv' /\ OldestGone(lots, lots')
<1>1. PICK kind \in {"ingreso", "egreso"}, lines \in EntryLines \cup ExitLines : CreateApproved(kind, lines)
  BY DEF CreateIngreso, CreateEgreso
<1>2. lines \in Seq(Line) /\ Apart(lines) /\ kind \in Kinds
  BY DEF Regular, Kinds
<1> QED
  BY ONLY <1>1, <1>2, CreateStep, Regular, Inv

\* A set of places that is not empty has a last one.
LEMMA LastPlace ==
  ASSUME NEW s \in Seq(EntryRow), NEW D \in SUBSET (DOMAIN s), D # {}
  PROVE  \E i \in D : \A j \in D : j <= i
<1>1. PICK n, G : n = Len(s) /\ G = {n - i : i \in D}
  OBVIOUS
<1>2. n \in Nat /\ \A i \in D : i \in Nat /\ n - i \in Nat
  BY <1>1, ListIs
<1>3. G \subseteq Nat /\ G # {}
  BY <1>1, <1>2
<1>4. PICK m \in G : \A k \in G : ~(k < m)
  BY ONLY <1>3, LeastNumber
<1>5. PICK i \in D : m = n - i
  BY <1>1, <1>4
<1>6. ASSUME NEW j \in D PROVE j <= i
  <2>1. ~(n - j < n - i)
    BY <1>1, <1>4, <1>5
  <2> QED
    BY ONLY <1>2, <1>5, <1>6, <2>1
<1> QED
  BY <1>6

\* The cost of stock that was found is a whole number of parts of a unit.
LEMMA FoundCostType ==
  ASSUME Inv, NEW line \in Line
  PROVE  FoundCost(line) \in Int
<1>1. PICK p, k : p = line.product /\ k = kardex[p]
  OBVIOUS
<1>2. p \in Products /\ line.cost \in Nat
  BY <1>1 DEF Line
<1>3. k \in Seq(EntryRow)
  BY <1>1, <1>2, BooksAre
<1>4. LastCost(p) \in Int
  <2>1. PICK D : D = {i \in DOMAIN k : k[i].costIn > 0 \/ k[i].costOut > 0}
    OBVIOUS
  <2>2. PICK c : c = CHOOSE i \in D : \A j \in D : j <= i
    OBVIOUS
  <2>3. LastCost(p) = IF D = {} THEN 0 ELSE IF k[c].costIn > 0 THEN k[c].costIn ELSE k[c].costOut
    BY ONLY <1>1, <2>1, <2>2 DEF LastCost
  <2>4. CASE D = {}
    BY ONLY <2>3, <2>4
  <2>5. CASE D # {}
    <3>1. \E i \in D : \A j \in D : j <= i
      BY ONLY <1>3, <2>1, <2>5, LastPlace
    <3>2. c \in D
      BY ONLY <2>2, <3>1
    <3>3. k[c] \in EntryRow
      BY ONLY <1>3, <2>1, <3>2, ListIs
    <3>4. k[c].costIn \in Int /\ k[c].costOut \in Int
      BY ONLY <3>3, EntryIs
    <3> QED
      BY ONLY <2>3, <2>5, <3>4
  <2> QED
    BY ONLY <2>4, <2>5
<1>5. PICK b : b = Balance(k)
  OBVIOUS
<1>6. b.avg \in Int
  BY ONLY <1>3, <1>5, BalanceType
<1>7. PICK a, z : a = Grain * b.avg /\ z = Grain * LastCost(p)
  OBVIOUS
<1>8. a \in Int /\ z \in Int
  BY ONLY <1>4, <1>6, <1>7, KardexAssumption DEF KardexAssumption
<1>9. FoundCost(line) = CASE b.qty > 0 /\ b.value > 0 /\ b.avg > 0 -> a
                          [] line.cost > 0 -> line.cost
                          [] OTHER -> z
  BY ONLY <1>1, <1>5, <1>7 DEF FoundCost
<1> QED
  BY ONLY <1>2, <1>8, <1>9

\* create_ajuste of stock that was found.
LEMMA PositiveAdjustment ==
  ASSUME Regular, Inv, CreatePositiveAdjustment
  PROVE  Inv' /\ OldestGone(lots, lots')
<1>1. PICK given \in EntryLines :
        /\ \A i \in DOMAIN given : FoundCost(given[i]) >= 50 * Grain
        /\ CreateApproved("adjustment_positive", Resolved(given))
  BY DEF CreatePositiveAdjustment
<1>2. PICK lines : lines = [i \in DOMAIN given |-> [given[i] EXCEPT !.cost = FoundCost(given[i])]]
  OBVIOUS
<1>3. CreateApproved("adjustment_positive", lines)
  BY ONLY <1>1, <1>2 DEF Resolved
<1>4. given \in Seq(Line) /\ Apart(given)
  BY DEF Regular
<1>5. DOMAIN lines = DOMAIN given
  BY ONLY <1>2
<1>6. ASSUME NEW i \in DOMAIN given
      PROVE  lines[i] \in Line /\ lines[i].product = given[i].product
  <2>1. PICK line, c : line = given[i] /\ c = FoundCost(line)
    OBVIOUS
  <2>2. lines[i] = [line EXCEPT !.cost = c]
    BY ONLY <1>2, <2>1, i \in DOMAIN given
  <2>3. line \in Line
    BY ONLY <1>4, <2>1, ListIs, i \in DOMAIN given
  <2>4. c \in Int
    BY ONLY <2>1, <2>3, FoundCostType, Inv
  <2>5. lines[i].cost = c /\ lines[i].product = line.product
    BY ONLY <2>2, <2>3 DEF Line
  <2>6. c >= 50 * Grain
    BY ONLY <1>1, <2>1, i \in DOMAIN given
  <2>7. c \in Nat
    BY ONLY <2>4, <2>6, KardexAssumption DEF KardexAssumption
  <2>8. lines[i] \in Line
    BY ONLY <2>2, <2>3, <2>7 DEF Line
  <2> QED
    BY ONLY <2>1, <2>5, <2>8
<1>7. lines \in Seq(Line)
  <2>1. PICK n : n = Len(given)
    OBVIOUS
  <2>2. n \in Nat /\ DOMAIN given = 1..n
    BY ONLY <1>4, <2>1, ListIs
  <2>3. lines \in [1..n -> Line]
    BY ONLY <1>2, <1>6, <2>2
  <2> QED
    BY ONLY <2>2, <2>3
<1>8. Apart(lines)
  BY ONLY <1>4, <1>5, <1>6 DEF Apart
<1>9. "adjustment_positive" \in Kinds
  BY DEF Kinds
<1> QED
  BY ONLY <1>3, <1>7, <1>8, <1>9, CreateStep, Regular, Inv

\* create_baja and create_ajuste: a document that waits.
LEMMA PendingStep ==
  ASSUME Regular, Inv, CreatePending
  PROVE  Inv' /\ OldestGone(lots, lots')
<1>1. PICK kind \in Kinds, lines \in ExitLines : Create(kind, lines, "pending")
  <2>1. ~CreateIncrement
    BY DEF Regular, CreateIncrement, Create
  <2>2. CreateDecrease
    BY <2>1 DEF CreatePending
  <2>3. {"baja", "decrement"} \subseteq Kinds
    BY DEF Kinds
  <2> QED
    BY ONLY <2>2, <2>3 DEF CreateDecrease
<1>2. UNCHANGED <<stock, kardex, lots, movedInYear, method, year>>
  BY <1>1 DEF CreatePending, Create
<1>3. PICK doc, docs, d : /\ doc = [kind |-> kind, lines |-> lines, status |-> "pending"]
                          /\ docs = Append(documents, doc) /\ d = Len(documents) + 1
  OBVIOUS
<1>4. kind \in Operations /\ Len(documents) < MaxDocuments /\ documents' = docs
  BY ONLY <1>1, <1>3 DEF Create
<1>5. lines \in Seq(Line) /\ Apart(lines)
  BY DEF Regular
<1>6. doc \in Document /\ doc.lines = lines /\ doc.status = "pending"
  <2>1. kind \in Kinds \cap Operations
    BY <1>4
  <2> QED
    BY ONLY <1>3, <1>5, <2>1 DEF Document
<1>7. /\ docs \in Seq(Document) /\ Len(docs) <= MaxDocuments
      /\ d \in DOMAIN docs /\ docs[d] = doc /\ d \notin DOMAIN documents
      /\ DOMAIN docs = DOMAIN documents \cup {d}
      /\ \A c \in DOMAIN documents : docs[c] = documents[c]
  <2>1. /\ doc \in Document /\ Apart(doc.lines) /\ Len(documents) < MaxDocuments
        /\ docs = Append(documents, doc)
    BY ONLY <1>3, <1>4, <1>5, <1>6
  <2>2. /\ docs \in Seq(Document) /\ Len(docs) <= MaxDocuments
        /\ Len(documents) + 1 \in DOMAIN docs /\ docs[Len(documents) + 1] = doc
        /\ Len(documents) + 1 \notin DOMAIN documents
        /\ DOMAIN docs = DOMAIN documents \cup {Len(documents) + 1}
        /\ \A c \in DOMAIN documents : docs[c] = documents[c]
    BY ONLY <2>1, NewDocument, Regular, Inv
  <2> QED
    BY ONLY <1>3, <2>2
<1>8. /\ stock \in [Products -> Nat] /\ kardex \in [Products -> Seq(EntryRow)]
      /\ lots \in Seq(LotRow) /\ \A i \in DOMAIN lots : lots[i].document \in DOMAIN documents
      /\ \A c \in DOMAIN documents : Apart(documents[c].lines)
      /\ \A p \in Products :
           /\ kardex[p] \in Seq(EntryRow)
           /\ GoodFor(UsesPeps, documents, kardex[p], lots, p)
           /\ Balance(kardex[p]).qty = stock[p]
           /\ \A x \in DOMAIN kardex[p] : Refers(documents, lots, p, kardex[p][x])
           /\ \A c \in DOMAIN documents : Recorded(documents[c], kardex[p], c, p)
  BY BooksAre
<1>9. ASSUME NEW p \in Products
      PROVE  GoodFor(UsesPeps, docs, kardex[p], lots, p) /\ Recorded(docs[d], kardex[p], d, p)
  <2>1. PICK k : k = kardex[p]
    OBVIOUS
  <2>2. \A x \in DOMAIN k : k[x].document \in DOMAIN documents
    BY ONLY <1>8, <2>1, p \in Products DEF Refers
  <2>3. \A x \in DOMAIN k : k[x].document \in DOMAIN docs /\ docs[k[x].document] = documents[k[x].document]
    BY ONLY <1>7, <2>2
  <2>4. GoodFor(UsesPeps, documents, k, lots, p)
    BY ONLY <1>8, <2>1, p \in Products
  <2>5. GoodFor(UsesPeps, docs, k, lots, p)
    BY ONLY <2>3, <2>4, SameDocuments
  <2>6. Places(k, d) = {}
    BY ONLY <1>7, <2>2 DEF Places
  <2>7. Net(k, Places(k, d)) = 0
    <3>1. PICK f : f = [i \in DOMAIN k |-> k[i].in - k[i].out]
      OBVIOUS
    <3>2. SumFunctionOnSet(f, {}) = 0
      BY SumEmpty
    <3> QED
      BY ONLY <2>6, <3>1, <3>2 DEF Net
  <2> QED
    BY ONLY <1>6, <1>7, <2>1, <2>5, <2>7 DEF Recorded
<1>10. Books(UsesPeps, docs, stock, kardex, lots)
  <2>1. Good(UsesPeps, docs, kardex, lots)
    BY ONLY <1>7, <1>8, <1>9 DEF Good
  <2>2. \A c \in DOMAIN docs : Apart(docs[c].lines)
    BY ONLY <1>5, <1>6, <1>7, <1>8
  <2>3. \A c \in DOMAIN docs, p \in Products : Recorded(docs[c], kardex[p], c, p)
    BY ONLY <1>7, <1>8, <1>9
  <2> QED
    BY ONLY <1>7, <1>8, <2>1, <2>2, <2>3 DEF Books
<1>11. UsesPeps' = UsesPeps
  BY ONLY <1>2 DEF UsesPeps
<1>12. Books(UsesPeps', documents', stock', kardex', lots')
  BY ONLY <1>2, <1>4, <1>10, <1>11
<1>13. OldestGone(lots, lots')
  <2>1. OldestGone(lots, lots)
    BY ONLY <1>8, SameLots
  <2> QED
    BY ONLY <1>2, <2>1
<1> QED
  BY ONLY <1>2, <1>4, <1>7, <1>12, <1>13, Inv DEF Inv

-----------------------------------------------------------------------------
(* A document goes out of force.                                           *)

\* The handler, in the terms of the books.
LEMMA VoidIs ==
  ASSUME NEW d \in DOMAIN documents, VoidDocument(d), Inv
  PROVE  /\ documents[d].status = "approved" /\ documents' = Voided(documents, d)
         /\ \A p \in Products : Untouched(kardex[p], lots, d)
         /\ MoveStock(-Sign(documents[d].kind), documents[d].lines)
         /\ kardex' = [p \in Products |-> IF Places(kardex[p], d) # {}
                                          THEN Append(kardex[p], ReversalEntry(d, p)) ELSE kardex[p]]
         /\ lots' = Restored(d) /\ UNCHANGED <<method, year>> /\ movedInYear' \in BOOLEAN
<1>1. \A p : EntriesOf(d, p) = Places(kardex[p], d)
  BY DEF EntriesOf, Places
<1>2. \A p \in Products : Untouched(kardex[p], lots, d)
  BY ONLY <1>1, VoidDocument(d) DEF VoidDocument, Untouched
<1>3. kardex' = [p \in Products |-> IF Places(kardex[p], d) # {}
                                    THEN Append(kardex[p], ReversalEntry(d, p)) ELSE kardex[p]]
  BY ONLY <1>1, VoidDocument(d) DEF VoidDocument
<1>4. /\ documents[d].status = "approved" /\ documents' = Voided(documents, d)
      /\ MoveStock(-Sign(documents[d].kind), documents[d].lines)
      /\ lots' = Restored(d) /\ UNCHANGED <<method, year>> /\ movedInYear' \in BOOLEAN
  BY ONLY VoidDocument(d) DEF VoidDocument, Voided
<1> QED
  BY ONLY <1>2, <1>3, <1>4

\* A lot after d is voided.
LEMMA RestoredLot ==
  ASSUME Inv, NEW d, NEW i \in DOMAIN lots, NEW p, p = lots[i].product,
         NEW s, s = kardex[p]
  PROVE  Restored(d)[i] = RestoreLot(lots[i], In(s, About(s, d, i)), Out(s, About(s, d, i)))
<1>1. LotEntriesOf(d, i) = About(s, d, i)
  BY DEF LotEntriesOf, EntriesOf, About, Places
<1>2. PICK D : D = About(s, d, i)
  OBVIOUS
<1>3. Restored(d)[i] = RestoreLot(lots[i],
                         SumFunctionOnSet([x \in DOMAIN s |-> s[x].in], D),
                         SumFunctionOnSet([x \in DOMAIN s |-> s[x].out], D))
  BY ONLY <1>1, <1>2, i \in DOMAIN lots, p = lots[i].product, s = kardex[p] DEF Restored
<1> QED
  BY ONLY <1>2, <1>3 DEF In, Out

\* Every lot is as its document and its exits have left it.
LEMMA AllRestored ==
  ASSUME Inv, NEW d \in DOMAIN documents, documents[d].status = "approved",
         \A p \in Products : Untouched(kardex[p], lots, d),
         NEW more, more = Voided(documents, d), NEW m, m = Restored(d)
  PROVE  /\ m \in Seq(LotRow) /\ Keeps(lots, m) /\ DOMAIN m = DOMAIN lots
         /\ \A p \in Products : Undone(more, d, kardex[p], lots, m, p)
<1>1. /\ documents \in Seq(Document) /\ lots \in Seq(LotRow)
      /\ \A p \in Products : /\ kardex[p] \in Seq(EntryRow)
                             /\ GoodFor(UsesPeps, documents, kardex[p], lots, p)
  BY BooksAre
<1>2. ASSUME NEW p \in Products, NEW i \in LotsIn(lots, p)
      PROVE  /\ m[i] \in LotRow /\ m[i].product = lots[i].product
             /\ m[i].cost = lots[i].cost /\ m[i].document = lots[i].document
             /\ m[i].available = lots[i].available - Net(kardex[p], About(kardex[p], d, i))
             /\ Holds(more, kardex[p], m, i)
  <2>1. PICK s, lot : s = kardex[p] /\ lot = RestoreLot(lots[i], In(s, About(s, d, i)), Out(s, About(s, d, i)))
    OBVIOUS
  <2>2. i \in DOMAIN lots /\ p = lots[i].product
    BY DEF LotsIn
  <2>3. m[i] = lot
    BY ONLY <2>1, <2>2, RestoredLot, Inv, m = Restored(d)
  <2>4. s \in Seq(EntryRow) /\ GoodFor(UsesPeps, documents, s, lots, p)
    BY ONLY <1>1, <2>1, p \in Products
  <2>5. Voidable(UsesPeps, documents, d, s, lots, p)
    BY ONLY <2>1, <2>4, p \in Products, documents[d].status = "approved",
            \A q \in Products : Untouched(kardex[q], lots, d) DEF Voidable
  <2>6. Returned(lot, lots[i], s, more, d, i)
    <3>1. Returned(RestoreLot(lots[i], In(s, About(s, d, i)), Out(s, About(s, d, i))), lots[i],
                   s, Voided(documents, d), d, i)
      BY ONLY <1>1, <2>4, <2>5, LotRestored, d \in DOMAIN documents, i \in LotsIn(lots, p)
    <3> QED
      BY ONLY <2>1, <3>1, more = Voided(documents, d)
  <2> QED
    BY ONLY <2>1, <2>3, <2>6 DEF Returned, Holds
<1>3. DOMAIN m = DOMAIN lots
  BY ONLY m = Restored(d) DEF Restored
<1>4. \A i \in DOMAIN lots : lots[i].product \in Products /\ i \in LotsIn(lots, lots[i].product)
  BY <1>1, ListIs, LotIs DEF LotsIn
<1>5. Keeps(lots, m) /\ \A i \in DOMAIN lots : m[i] \in LotRow
  BY ONLY <1>2, <1>3, <1>4 DEF Keeps
<1>6. m \in Seq(LotRow)
  <2>1. PICK n : n = Len(lots)
    OBVIOUS
  <2>2. n \in Nat /\ DOMAIN lots = 1..n
    BY ONLY <1>1, <2>1, ListIs
  <2>3. m \in [1..n -> LotRow]
    <3>1. m = [i \in DOMAIN lots |-> m[i]]
      BY ONLY m = Restored(d) DEF Restored
    <3> QED
      BY ONLY <1>5, <2>2, <3>1
  <2> QED
    BY ONLY <2>2, <2>3
<1>7. \A p \in Products : Undone(more, d, kardex[p], lots, m, p)
  BY ONLY <1>2, <1>3, <1>5 DEF Undone
<1> QED
  BY ONLY <1>3, <1>5, <1>6, <1>7

\* The units of a product with an entry of a document in force.
LEMMA NamedQuantity ==
  ASSUME Regular, Inv, NEW d \in DOMAIN documents, documents[d].status = "approved",
         NEW p \in Products, NEW x \in Places(kardex[p], d)
  PROVE  /\ \E i \in DOMAIN documents[d].lines : documents[d].lines[i].product = p
         /\ QuantityIn(documents[d].lines, p) # 0
<1>1. PICK lines : lines = documents[d].lines
  OBVIOUS
<1>2. documents \in Seq(Document) /\ Apart(lines)
  BY <1>1, BooksAre
<1>3. lines \in Seq(Line)
  BY ONLY <1>1, <1>2, DocumentIs, Regular, d \in DOMAIN documents
<1>4. x \in DOMAIN kardex[p] /\ kardex[p][x].document = d
  BY DEF Places
<1>5. Refers(documents, lots, p, kardex[p][x])
  BY ONLY <1>4, BooksAre, Inv, p \in Products
<1>6. PICK i \in DOMAIN lines : lines[i].product = p
  BY ONLY <1>1, <1>4, <1>5 DEF Refers
<1>7. QuantityIn(lines, p) = lines[i].quantity
  BY ONLY <1>2, <1>3, <1>6, QuantityIs
<1>8. lines[i] \in Line
  BY <1>3, <1>6, ListIs
<1>9. lines[i].quantity # 0
  BY <1>8 DEF Line
<1> QED
  BY ONLY <1>1, <1>6, <1>7, <1>9

\* Voiding, for one product.
VoidedFor(more, d, k, m, st, p) ==
  /\ k \in Seq(EntryRow)
  /\ GoodFor(UsesPeps, more, k, m, p)
  /\ Balance(k).qty = st
  /\ \A c \in DOMAIN more : Recorded(more[c], k, c, p)

\* What the entries of documents have moved, with a voided one among them.
LEMMA VoidedRecords ==
  ASSUME Regular, Inv, NEW d \in DOMAIN documents, documents[d].status = "approved",
         NEW p \in Products, NEW k, NEW x \in Int,
         \A c : Net(k, Places(k, c)) = Net(kardex[p], Places(kardex[p], c)) - (IF c = d THEN x ELSE 0),
         x = Sign(documents[d].kind) * QuantityIn(documents[d].lines, p)
  PROVE  \A c \in DOMAIN documents : Recorded(Voided(documents, d)[c], k, c, p)
<1> SUFFICES ASSUME NEW c \in DOMAIN documents PROVE Recorded(Voided(documents, d)[c], k, c, p)
  OBVIOUS
<1>1. PICK s, more : s = kardex[p] /\ more = Voided(documents, d)
  OBVIOUS
<1>2. documents \in Seq(Document) /\ s \in Seq(EntryRow) /\ Recorded(documents[c], s, c, p)
  BY <1>1, BooksAre
<1>3. more[d].status = "voided" /\ \A b \in DOMAIN documents \ {d} : more[b] = documents[b]
  BY ONLY <1>1, <1>2, VoidedDocument, d \in DOMAIN documents
<1>4. Net(s, Places(s, c)) \in Int
  <2>1. Places(s, c) \in SUBSET (DOMAIN s)
    BY DEF Places
  <2> QED
    BY <1>2, <2>1, SumsAre
<1>5. Net(k, Places(k, c)) = Net(s, Places(s, c)) - (IF c = d THEN x ELSE 0)
  BY <1>1
<1>6. CASE c = d
  <2>1. Net(s, Places(s, c)) = x
    BY ONLY <1>2, <1>6, documents[d].status = "approved",
            x = Sign(documents[d].kind) * QuantityIn(documents[d].lines, p) DEF Recorded
  <2>2. Net(k, Places(k, c)) = 0
    BY ONLY <1>5, <1>6, <2>1, x \in Int
  <2>3. more[c].status # "approved"
    BY ONLY <1>3, <1>6
  <2> QED
    BY ONLY <1>1, <2>2, <2>3 DEF Recorded
<1>7. CASE c # d
  <2>1. more[c] = documents[c]
    BY ONLY <1>3, <1>7, c \in DOMAIN documents
  <2>2. Net(k, Places(k, c)) = Net(s, Places(s, c))
    BY ONLY <1>4, <1>5, <1>7
  <2> QED
    BY ONLY <1>1, <1>2, <2>1, <2>2 DEF Recorded
<1> QED
  BY ONLY <1>6, <1>7

\* A product the document has entries of.
LEMMA VoidNamed ==
  ASSUME Regular, Inv, NEW d \in DOMAIN documents, documents[d].status = "approved",
         NEW m \in Seq(LotRow), NEW p \in Products,
         Undone(Voided(documents, d), d, kardex[p], lots, m, p),
         Places(kardex[p], d) # {},
         NEW k, k = Append(kardex[p], ReversalEntry(d, p))
  PROVE  VoidedFor(Voided(documents, d), d, k, m,
                   stock[p] - Sign(documents[d].kind) * QuantityIn(documents[d].lines, p), p)
<1>1. PICK s, e, more : s = kardex[p] /\ e = ReversalEntry(d, p) /\ more = Voided(documents, d)
  OBVIOUS
<1>2. PICK q, net : q = QuantityIn(documents[d].lines, p) /\ net = Net(s, Places(s, d))
  OBVIOUS
<1>3. /\ documents \in Seq(Document) /\ lots \in Seq(LotRow)
      /\ s \in Seq(EntryRow) /\ stock[p] \in Nat
      /\ GoodFor(UsesPeps, documents, s, lots, p)
      /\ Balance(s).qty = stock[p]
      /\ Recorded(documents[d], s, d, p) /\ Apart(documents[d].lines)
  BY <1>1, BooksAre
<1>4. PICK x \in Places(s, d) : TRUE
  BY <1>1
<1>5. (\E i \in DOMAIN documents[d].lines : documents[d].lines[i].product = p) /\ q # 0
  BY ONLY <1>1, <1>2, <1>4, NamedQuantity, Regular, Inv, d \in DOMAIN documents, p \in Products,
          documents[d].status = "approved"
<1>6. PICK kind, lines : kind = documents[d].kind /\ lines = documents[d].lines
  OBVIOUS
<1>7. kind \in Kinds \ {"increment"} /\ lines \in Seq(Line) /\ d \in Nat
  BY ONLY <1>3, <1>6, DocumentIs, Regular, d \in DOMAIN documents
<1>8. q \in Nat
  BY ONLY <1>2, <1>3, <1>6, <1>7, QuantityIs
<1>9. net = Sign(kind) * q /\ net \in Int /\ net # 0
  <2>1. net = Sign(kind) * q
    BY ONLY <1>2, <1>3, <1>6, documents[d].status = "approved" DEF Recorded
  <2>2. Sign(kind) * q = Signed(kind, q)
    BY ONLY <1>7, <1>8, SignIs, Nat \subseteq Int
  <2>3. Signed(kind, q) \in Int /\ Signed(kind, q) # 0
    BY ONLY <1>5, <1>8 DEF Signed
  <2> QED
    BY ONLY <2>1, <2>2, <2>3
<1>10. /\ e \in EntryRow /\ e.document = d /\ e.lot = 0 /\ e.in - e.out = -net
       /\ e.qty = Balance(s).qty - net
       /\ e.value = Balance(s).value - NetValue(s, Places(s, d))
       /\ Continues(e, Balance(s))
  <2>1. kardex[p] \in Seq(EntryRow)
    BY <1>1, <1>3
  <2> QED
    <3>1. Net(kardex[p], Places(kardex[p], d)) # 0
      BY ONLY <1>1, <1>2, <1>9
    <3>2. Reverses(ReversalEntry(d, p), kardex[p], d, Net(kardex[p], Places(kardex[p], d)))
      BY ONLY <1>7, <2>1, <3>1, ReversalIs, p \in Products
    <3>3. Reverses(e, s, d, net)
      BY ONLY <1>1, <1>2, <3>2
    <3> QED
      BY ONLY <3>3 DEF Reverses
<1>11. k = Append(s, e)
  BY <1>1
<1>12. k \in Seq(EntryRow) /\ Balance(k) = BalanceOf(e)
  <2>1. k \in Seq(EntryRow)
    BY ONLY <1>3, <1>10, <1>11
  <2>2. s \in Seq(EntryRow) /\ e \in EntryRow
    BY ONLY <1>3, <1>10
  <2> QED
    BY ONLY <1>11, <2>1, <2>2, BeforeNext
<1>13. Balance(k).qty = stock[p] - net
  BY ONLY <1>3, <1>10, <1>12 DEF BalanceOf
<1>14. GoodFor(UsesPeps, more, k, m, p)
  <2>1. UsesPeps \in BOOLEAN
    BY DEF UsesPeps
  <2>2. Undone(more, d, s, lots, m, p)
    BY <1>1
  <2>3. /\ e.document = d /\ e.lot = 0 /\ e.qty = Balance(s).qty - Net(s, Places(s, d))
        /\ e.value = Balance(s).value - NetValue(s, Places(s, d)) /\ Continues(e, Balance(s))
    BY ONLY <1>2, <1>10
  <2>4. GoodFor(UsesPeps, more, Append(s, e), m, p)
    BY ONLY <1>1, <1>3, <1>5, <1>10, <2>1, <2>2, <2>3, VoidKeeps, d \in DOMAIN documents,
            documents[d].status = "approved", m \in Seq(LotRow)
  <2> QED
    BY ONLY <1>11, <2>4
<1>15. ASSUME NEW c
       PROVE  Net(k, Places(k, c)) = Net(s, Places(s, c)) - (IF c = d THEN net ELSE 0)
  <2>1. Net(Append(s, e), Places(Append(s, e), c)) =
          Net(s, Places(s, c)) + (IF c = e.document THEN e.in - e.out ELSE 0)
    BY ONLY <1>3, <1>10, PlacesGrow
  <2>2. Net(s, Places(s, c)) \in Int
    <3>1. Places(s, c) \in SUBSET (DOMAIN s)
      BY DEF Places
    <3> QED
      BY <1>3, <3>1, SumsAre
  <2> QED
    BY ONLY <1>9, <1>10, <1>11, <2>1, <2>2
<1>16. \A c \in DOMAIN documents : Recorded(more[c], k, c, p)
  <2>1. \A c : Net(k, Places(k, c)) = Net(kardex[p], Places(kardex[p], c)) - (IF c = d THEN net ELSE 0)
    BY ONLY <1>1, <1>15
  <2>2. net = Sign(documents[d].kind) * QuantityIn(documents[d].lines, p)
    BY ONLY <1>2, <1>6, <1>9
  <2>3. \A c \in DOMAIN documents : Recorded(Voided(documents, d)[c], k, c, p)
    BY ONLY <1>9, <2>1, <2>2, VoidedRecords, Regular, Inv, d \in DOMAIN documents,
            documents[d].status = "approved", p \in Products
  <2> QED
    BY ONLY <1>1, <2>3
<1>17. DOMAIN more = DOMAIN documents
  BY ONLY <1>1, <1>3, VoidedDocument, d \in DOMAIN documents
<1> QED
  BY ONLY <1>1, <1>2, <1>6, <1>9, <1>12, <1>13, <1>14, <1>16, <1>17 DEF VoidedFor

\* A product the document has no entries of.
LEMMA VoidOther ==
  ASSUME Regular, Inv, NEW d \in DOMAIN documents, documents[d].status = "approved",
         NEW m \in Seq(LotRow), m = Restored(d), DOMAIN m = DOMAIN lots, Keeps(lots, m),
         NEW p \in Products, Places(kardex[p], d) = {}
  PROVE  VoidedFor(Voided(documents, d), d, kardex[p], m,
                   stock[p] - Sign(documents[d].kind) * QuantityIn(documents[d].lines, p), p)
<1>1. PICK s, more : s = kardex[p] /\ more = Voided(documents, d)
  OBVIOUS
<1>2. PICK kind, lines : kind = documents[d].kind /\ lines = documents[d].lines
  OBVIOUS
<1>3. PICK q : q = QuantityIn(lines, p)
  OBVIOUS
<1>4. /\ documents \in Seq(Document) /\ lots \in Seq(LotRow)
      /\ s \in Seq(EntryRow) /\ stock[p] \in Nat
      /\ GoodFor(UsesPeps, documents, s, lots, p)
      /\ Balance(s).qty = stock[p]
      /\ Recorded(documents[d], s, d, p) /\ Apart(lines)
  BY <1>1, <1>2, BooksAre
<1>5. kind \in Kinds \ {"increment"} /\ lines \in Seq(Line) /\ d \in Nat
  BY ONLY <1>2, <1>4, DocumentIs, Regular, d \in DOMAIN documents
<1>6. q \in Nat
  BY ONLY <1>3, <1>4, <1>5, QuantityIs
<1>7. Places(s, d) = {}
  BY <1>1
<1>8. Sign(kind) * q = 0
  <2>1. PICK f : f = [i \in DOMAIN s |-> s[i].in - s[i].out]
    OBVIOUS
  <2>2. SumFunctionOnSet(f, {}) = 0
    BY SumEmpty
  <2>3. Net(s, Places(s, d)) = 0
    BY ONLY <1>7, <2>1, <2>2 DEF Net
  <2> QED
    BY ONLY <1>2, <1>3, <1>4, <2>3, documents[d].status = "approved" DEF Recorded
<1>9. /\ DOMAIN more = DOMAIN documents /\ \A c \in DOMAIN documents \ {d} : more[c] = documents[c]
  BY ONLY <1>1, <1>4, VoidedDocument, d \in DOMAIN documents
<1>10. GoodFor(UsesPeps, more, s, lots, p)
  <2>1. \A x \in DOMAIN s : s[x].document \in DOMAIN documents
    BY ONLY <1>4 DEF GoodFor, Refers
  <2>2. \A x \in DOMAIN s : s[x].document # d
    BY ONLY <1>7 DEF Places
  <2>3. \A x \in DOMAIN s : s[x].document \in DOMAIN more /\ more[s[x].document] = documents[s[x].document]
    BY ONLY <1>9, <2>1, <2>2
  <2> QED
    BY ONLY <1>4, <2>3, SameDocuments
<1>11. ASSUME NEW i \in LotsIn(lots, p) PROVE m[i] = lots[i]
  <2>1. i \in DOMAIN lots /\ p = lots[i].product
    BY DEF LotsIn
  <2>2. PICK D, lot : D = About(s, d, i) /\ lot = lots[i]
    OBVIOUS
  <2>3. D = {}
    BY ONLY <1>7, <2>2 DEF About
  <2>4. m[i] = RestoreLot(lot, In(s, D), Out(s, D))
    BY ONLY <1>1, <2>1, <2>2, RestoredLot, Inv, m = Restored(d)
  <2>5. In(s, D) = 0 /\ Out(s, D) = 0
    <3>1. PICK f, g : f = [x \in DOMAIN s |-> s[x].in] /\ g = [x \in DOMAIN s |-> s[x].out]
      OBVIOUS
    <3>2. SumFunctionOnSet(f, {}) = 0 /\ SumFunctionOnSet(g, {}) = 0
      BY SumEmpty
    <3> QED
      BY ONLY <2>3, <3>1, <3>2 DEF In, Out
  <2>6. lot \in LotRow
    BY <1>4, <2>1, <2>2, ListIs
  <2>7. lot.available - 0 + 0 = lot.available /\ lot.initial - 0 = lot.initial
    <3>1. lot.available \in Nat /\ lot.initial \in Nat
      BY ONLY <2>6, LotIs
    <3> QED
      BY ONLY <3>1
  <2>8. m[i] = [lot EXCEPT !.available = lot.available, !.initial = lot.initial]
    BY ONLY <2>4, <2>5, <2>7 DEF RestoreLot
  <2> QED
    BY ONLY <2>2, <2>6, <2>8 DEF LotRow
<1>12. LotsIn(m, p) = LotsIn(lots, p)
  BY ONLY DOMAIN m = DOMAIN lots, Keeps(lots, m) DEF Keeps, LotsIn
<1>13. GoodFor(UsesPeps, more, s, m, p)
  BY ONLY <1>4, <1>10, <1>11, <1>12, Elsewhere, m \in Seq(LotRow), Keeps(lots, m)
<1>14. \A c \in DOMAIN documents : Recorded(more[c], s, c, p)
  <2>1. 0 \in Int /\ 0 = Sign(documents[d].kind) * QuantityIn(documents[d].lines, p)
    BY ONLY <1>2, <1>3, <1>8
  <2>2. \A c : Net(s, Places(s, c)) = Net(kardex[p], Places(kardex[p], c)) - (IF c = d THEN 0 ELSE 0)
    <3>1. ASSUME NEW c PROVE Net(s, Places(s, c)) \in Int
      <4>1. Places(s, c) \in SUBSET (DOMAIN s)
        BY DEF Places
      <4> QED
        BY <1>4, <4>1, SumsAre
    <3> QED
      BY ONLY <1>1, <3>1
  <2>3. \A c \in DOMAIN documents : Recorded(Voided(documents, d)[c], s, c, p)
    BY ONLY <2>1, <2>2, VoidedRecords, Regular, Inv, d \in DOMAIN documents,
            documents[d].status = "approved", p \in Products
  <2> QED
    BY ONLY <1>1, <2>3
<1>15. Balance(s).qty = stock[p] - Sign(kind) * q
  BY ONLY <1>4, <1>8
<1> QED
  BY ONLY <1>1, <1>2, <1>3, <1>4, <1>9, <1>13, <1>14, <1>15 DEF VoidedFor

\* A lot loses units to a void only when it loses what it began with.
LEMMA VoidOrder ==
  ASSUME Inv, NEW d
  PROVE  OldestGone(lots, Restored(d))
<1> SUFFICES ASSUME NEW j \in DOMAIN lots,
                    Restored(d)[j].available < lots[j].available,
                    Restored(d)[j].initial = lots[j].initial
             PROVE  FALSE
  BY DEF OldestGone
<1>1. PICK p, lot : p = lots[j].product /\ lot = lots[j]
  OBVIOUS
<1>2. PICK s, D : s = kardex[p] /\ D = About(s, d, j)
  OBVIOUS
<1>3. lot \in LotRow /\ p \in Products
  BY <1>1, BooksAre, ListIs, LotIs
<1>4. s \in Seq(EntryRow)
  BY <1>2, <1>3, BooksAre
<1>5. D \in SUBSET (DOMAIN s)
  BY ONLY <1>2 DEF About, Places
<1>6. In(s, D) \in Nat /\ Out(s, D) \in Nat
  BY ONLY <1>4, <1>5, SumsAre
<1>7. PICK new : new = Restored(d)[j]
  OBVIOUS
<1>8. new = RestoreLot(lot, In(s, D), Out(s, D))
  BY ONLY <1>1, <1>2, <1>7, RestoredLot, Inv, j \in DOMAIN lots
<1>9. new.available = lot.available - In(s, D) + Out(s, D) /\ new.initial = lot.initial - In(s, D)
  BY ONLY <1>3, <1>8 DEF RestoreLot, LotRow
<1>10. lot.available \in Nat /\ lot.initial \in Nat
  BY ONLY <1>3, LotIs
<1>11. new.available < lot.available /\ new.initial = lot.initial
  BY <1>1, <1>7
<1> QED
  BY ONLY <1>6, <1>9, <1>10, <1>11

\* void_document.
LEMMA VoidStep ==
  ASSUME Regular, Inv, NEW d \in DOMAIN documents, VoidDocument(d)
  PROVE  Inv' /\ OldestGone(lots, lots')
<1>1. PICK more, m : more = Voided(documents, d) /\ m = Restored(d)
  OBVIOUS
<1>2. PICK sign, lines : sign = Sign(documents[d].kind) /\ lines = documents[d].lines
  OBVIOUS
<1>3. /\ documents[d].status = "approved" /\ documents' = more
      /\ \A p \in Products : Untouched(kardex[p], lots, d)
      /\ MoveStock(-sign, lines)
      /\ kardex' = [p \in Products |-> IF Places(kardex[p], d) # {}
                                       THEN Append(kardex[p], ReversalEntry(d, p)) ELSE kardex[p]]
      /\ lots' = m /\ UNCHANGED <<method, year>> /\ movedInYear' \in BOOLEAN
  BY ONLY <1>1, <1>2, VoidIs, VoidDocument(d), Inv, d \in DOMAIN documents
<1>4. /\ m \in Seq(LotRow) /\ Keeps(lots, m) /\ DOMAIN m = DOMAIN lots
      /\ \A p \in Products : Undone(more, d, kardex[p], lots, m, p)
  BY ONLY <1>1, <1>3, AllRestored, Inv, d \in DOMAIN documents
<1>5. /\ documents \in Seq(Document) /\ \A c \in DOMAIN documents : Apart(documents[c].lines)
      /\ \A i \in DOMAIN lots : lots[i].document \in DOMAIN documents
      /\ \A p \in Products : stock[p] \in Nat
  BY BooksAre
<1>6. /\ more \in Seq(Document) /\ DOMAIN more = DOMAIN documents /\ Len(more) = Len(documents)
      /\ more[d].lines = documents[d].lines
      /\ \A c \in DOMAIN documents \ {d} : more[c] = documents[c]
  BY ONLY <1>1, <1>5, VoidedDocument, d \in DOMAIN documents
<1>7. ASSUME NEW p \in Products
      PROVE  VoidedFor(more, d, kardex'[p], m, stock[p] - sign * QuantityIn(lines, p), p)
  <2>1. CASE Places(kardex[p], d) = {}
    <3>1. kardex'[p] = kardex[p]
      BY ONLY <1>3, <2>1, p \in Products
    <3>2. VoidedFor(more, d, kardex[p], m, stock[p] - sign * QuantityIn(lines, p), p)
      BY ONLY <1>1, <1>2, <1>3, <1>4, <2>1, VoidOther, Regular, Inv, p \in Products, d \in DOMAIN documents
    <3> QED
      BY ONLY <3>1, <3>2
  <2>2. CASE Places(kardex[p], d) # {}
    <3>1. PICK k : k = Append(kardex[p], ReversalEntry(d, p))
      OBVIOUS
    <3>2. kardex'[p] = k
      BY ONLY <1>3, <2>2, <3>1, p \in Products
    <3>3. VoidedFor(more, d, k, m, stock[p] - sign * QuantityIn(lines, p), p)
      BY ONLY <1>1, <1>2, <1>3, <1>4, <2>2, <3>1, VoidNamed, Regular, Inv, p \in Products,
              d \in DOMAIN documents
    <3> QED
      BY ONLY <3>2, <3>3
  <2> QED
    BY ONLY <2>1, <2>2
<1>8. /\ \A p \in Products : stock[p] + (-sign) * QuantityIn(lines, p) >= 0
      /\ stock' = [p \in Products |-> stock[p] + (-sign) * QuantityIn(lines, p)]
  BY ONLY <1>3 DEF MoveStock
<1>9. ASSUME NEW p \in Products
      PROVE  stock'[p] \in Nat /\ stock'[p] = stock[p] - sign * QuantityIn(lines, p)
  <2>1. PICK kind, q : kind = documents[d].kind /\ q = QuantityIn(lines, p)
    OBVIOUS
  <2>2. kind \in Kinds \ {"increment"} /\ lines \in Seq(Line)
    BY ONLY <1>2, <1>5, <2>1, DocumentIs, Regular, d \in DOMAIN documents
  <2>3. q \in Nat
    BY ONLY <1>2, <1>5, <2>1, <2>2, QuantityIs, d \in DOMAIN documents
  <2>4. sign * q = Signed(kind, q) /\ (-sign) * q = -Signed(kind, q)
    BY ONLY <1>2, <2>1, <2>2, <2>3, SignIs, Nat \subseteq Int
  <2>5. Signed(kind, q) \in Int
    BY ONLY <2>3 DEF Signed
  <2>6. stock'[p] = stock[p] + (-sign) * q /\ stock[p] + (-sign) * q >= 0 /\ stock[p] \in Nat
    BY ONLY <1>5, <1>8, <2>1, p \in Products
  <2> QED
    BY ONLY <2>1, <2>4, <2>5, <2>6
<1>10. stock' \in [Products -> Nat] /\ kardex' \in [Products -> Seq(EntryRow)]
  <2>1. DOMAIN stock' = Products /\ DOMAIN kardex' = Products
    BY ONLY <1>3, <1>8
  <2>2. stock' \in [Products -> Nat]
    BY ONLY <1>8, <1>9
  <2>3. \A p \in Products : kardex'[p] \in Seq(EntryRow)
    BY ONLY <1>7 DEF VoidedFor
  <2> QED
    BY ONLY <1>3, <2>2, <2>3
<1>11. Good(UsesPeps, more, kardex', m)
  <2>1. \A i \in DOMAIN m : m[i].document \in DOMAIN more
    BY ONLY <1>4, <1>5, <1>6 DEF Keeps
  <2> QED
    BY ONLY <1>4, <1>7, <1>10, <2>1 DEF Good, VoidedFor
<1>12. Books(UsesPeps, more, stock', kardex', m)
  <2>1. \A p \in Products : Balance(kardex'[p]).qty = stock'[p]
    BY ONLY <1>7, <1>9 DEF VoidedFor
  <2>2. \A c \in DOMAIN more, p \in Products : Recorded(more[c], kardex'[p], c, p)
    BY ONLY <1>7 DEF VoidedFor
  <2>3. \A c \in DOMAIN more : Apart(more[c].lines)
    BY ONLY <1>5, <1>6
  <2> QED
    BY ONLY <1>6, <1>10, <1>11, <2>1, <2>2, <2>3 DEF Books
<1>13. UsesPeps' = UsesPeps
  BY ONLY <1>3 DEF UsesPeps
<1>14. Books(UsesPeps', documents', stock', kardex', lots')
  BY ONLY <1>3, <1>12, <1>13
<1>15. OldestGone(lots, lots')
  <2>1. OldestGone(lots, m)
    BY ONLY <1>1, VoidOrder, Inv
  <2> QED
    BY ONLY <1>3, <2>1
<1> QED
  BY ONLY <1>3, <1>6, <1>14, <1>15, Inv DEF Inv

-----------------------------------------------------------------------------
(* Every step.                                                             *)

\* At the beginning there is nothing.
LEMMA Beginning ==
  ASSUME Init
  PROVE  Inv
<1>1. /\ documents = <<>> /\ stock = [p \in Products |-> 0] /\ kardex = [p \in Products |-> <<>>]
      /\ lots = <<>> /\ method = OpeningMethod /\ year = 0 /\ movedInYear = FALSE
  BY DEF Init
<1>2. PICK docs, l, s : docs = <<>> /\ l = <<>> /\ s = <<>>
  OBVIOUS
<1>3. /\ docs \in Seq(Document) /\ l \in Seq(LotRow) /\ s \in Seq(EntryRow)
      /\ DOMAIN docs = {} /\ DOMAIN l = {} /\ DOMAIN s = {} /\ Len(docs) = 0
  BY ONLY <1>2
<1>4. Balance(s).qty = 0 /\ Balance(s).value = 0
  BY ONLY <1>2 DEF Balance, NoBalance
<1>5. ASSUME NEW p \in Products PROVE GoodFor(UsesPeps, docs, s, l, p)
  <2>1. LotsIn(l, p) = {}
    BY ONLY <1>3 DEF LotsIn
  <2>2. Units(l, p) = 0 /\ Worth(l, p) = 0
    <3>1. PICK f, g : /\ f = [i \in DOMAIN l |-> l[i].available]
                      /\ g = [i \in DOMAIN l |-> l[i].available * l[i].cost]
      OBVIOUS
    <3>2. SumFunctionOnSet(f, {}) = 0 /\ SumFunctionOnSet(g, {}) = 0
      BY SumEmpty
    <3> QED
      BY ONLY <2>1, <3>1, <3>2 DEF Units, Worth
  <2> QED
    <3>1. In(s, OfLots(s)) = 0
      <4>1. PICK f : f = [x \in DOMAIN s |-> s[x].in]
        OBVIOUS
      <4>2. OfLots(s) = {} /\ SumFunctionOnSet(f, {}) = 0
        BY <1>3, SumEmpty DEF OfLots
      <4> QED
        BY ONLY <4>1, <4>2 DEF In
    <3>2. Valued(docs, s, l, p)
      BY ONLY <1>3, <1>4, <2>2, <3>1 DEF Valued, Near
    <3> QED
      BY ONLY <1>3, <2>1, <3>2 DEF GoodFor, Chain, ArrivesOnce
<1>6. \A p \in Products : kardex[p] = s
  BY <1>1, <1>2
<1>7. kardex \in [Products -> Seq(EntryRow)] /\ stock \in [Products -> Nat]
  BY <1>1
<1>8. Good(UsesPeps, docs, kardex, l)
  BY ONLY <1>3, <1>5, <1>6, <1>7 DEF Good
<1>9. Books(UsesPeps, documents, stock, kardex, lots)
  <2>1. \A p \in Products : Balance(kardex[p]).qty = stock[p]
    BY ONLY <1>1, <1>4, <1>6
  <2> QED
    BY ONLY <1>1, <1>2, <1>3, <1>7, <1>8, <2>1 DEF Books
<1>10. 0 <= MaxDocuments /\ 0 \in 0..MaxYears
  OBVIOUS
<1> QED
  BY ONLY <1>1, <1>2, <1>3, <1>9, <1>10 DEF Inv

\* update_param, a new year, or nothing.
LEMMA QuietStep ==
  ASSUME Regular, Inv, SetMethod \/ NewYear \/ UNCHANGED vars
  PROVE  Inv' /\ OldestGone(lots, lots')
<1>1. UNCHANGED <<documents, stock, kardex, lots>>
  BY DEF SetMethod, NewYear, vars
<1>2. /\ method' \in Methods \cup {OpeningMethod} /\ year' \in 0..MaxYears
      /\ movedInYear' \in BOOLEAN
      /\ (UsesPeps' => UsesPeps)
  <2>1. /\ method \in Methods \cup {OpeningMethod} /\ year \in 0..MaxYears
        /\ movedInYear \in BOOLEAN
    BY DEF Inv
  <2>2. CASE SetMethod
    BY <2>1, <2>2 DEF SetMethod, UsesPeps, Regular
  <2>3. CASE NewYear
    <3>1. method' = method /\ movedInYear' = FALSE /\ year < MaxYears /\ year' = year + 1
      BY <2>3 DEF NewYear
    <3>2. year' \in 0..MaxYears
      BY ONLY <2>1, <3>1, MaxYears \in Nat
    <3>3. UsesPeps' = UsesPeps
      BY ONLY <3>1 DEF UsesPeps
    <3> QED
      BY ONLY <2>1, <3>1, <3>2, <3>3
  <2>4. CASE UNCHANGED vars
    BY <2>1, <2>4 DEF vars, UsesPeps
  <2> QED
    BY <2>2, <2>3, <2>4
<1>3. Books(UsesPeps', documents, stock, kardex, lots)
  <2>1. Books(UsesPeps, documents, stock, kardex, lots)
    BY DEF Inv
  <2>2. \A p \in Products : GoodFor(UsesPeps, documents, kardex[p], lots, p) =>
                              GoodFor(UsesPeps', documents, kardex[p], lots, p)
    BY ONLY <1>2 DEF GoodFor
  <2> QED
    BY ONLY <2>1, <2>2 DEF Books, Good
<1>4. OldestGone(lots, lots)
  BY BooksAre, SameLots
<1>5. Len(documents) <= MaxDocuments
  BY DEF Inv
<1>6. Books(UsesPeps', documents', stock', kardex', lots') /\ OldestGone(lots, lots')
  BY ONLY <1>1, <1>3, <1>4
<1> QED
  BY ONLY <1>1, <1>2, <1>5, <1>6 DEF Inv

\* Every step keeps the books, and takes from the oldest lot first.
LEMMA EveryStep ==
  ASSUME Regular, Inv, [Next]_vars
  PROVE  Inv' /\ OldestGone(lots, lots')
<1>1. CASE CreateIngreso \/ CreateEgreso
  BY <1>1, IngresoEgreso
<1>2. CASE CreatePositiveAdjustment
  BY <1>2, PositiveAdjustment
<1>3. CASE CreatePending
  BY <1>3, PendingStep
<1>4. ASSUME NEW d \in DOMAIN documents, ApproveDocument(d)
      PROVE  Inv' /\ OldestGone(lots, lots')
  BY <1>4, ApproveStep
<1>5. ASSUME NEW d \in DOMAIN documents, VoidDocument(d)
      PROVE  Inv' /\ OldestGone(lots, lots')
  BY <1>5, VoidStep
<1>6. CASE SetMethod \/ NewYear \/ UNCHANGED vars
  BY <1>6, QuietStep
<1> QED
  BY ONLY <1>1, <1>2, <1>3, <1>4, <1>5, <1>6, [Next]_vars DEF Next

-----------------------------------------------------------------------------
(* What the books say.                                                     *)

\* The balance before an entry is that of the entries before it.
LEMMA BeforeIs ==
  ASSUME NEW s \in Seq(EntryRow), NEW x \in DOMAIN s
  PROVE  Balance(SubSeq(s, 1, x - 1)) = Before(s, x)
<1>1. x \in Nat \ {0} /\ x <= Len(s) /\ Len(s) \in Nat
  BY ListIs
<1>2. PICK n, t : n = x - 1 /\ t = SubSeq(s, 1, n)
  OBVIOUS
<1>3. n \in Nat /\ n <= Len(s)
  BY <1>1, <1>2
<1>4. Len(t) = n /\ t \in Seq(EntryRow) /\ \A i \in 1..n : t[i] = s[i]
  BY ONLY <1>2, <1>3, s \in Seq(EntryRow)
<1>5. CASE n = 0
  <2>1. x = 1
    BY ONLY <1>1, <1>2, <1>5
  <2>2. t = <<>>
    BY ONLY <1>4, <1>5
  <2> QED
    BY ONLY <1>2, <2>1, <2>2 DEF Balance, Before
<1>6. CASE n # 0
  <2>1. t # <<>> /\ n \in 1..n /\ x # 1
    BY <1>1, <1>2, <1>3, <1>4, <1>6
  <2>2. Last(t) = s[n]
    BY ONLY <1>4, <2>1 DEF Last
  <2> QED
    BY ONLY <1>2, <2>1, <2>2 DEF Balance, Before
<1> QED
  BY ONLY <1>5, <1>6

\* No lot holds more than came in.
LEMMA NoMoreThanInitial ==
  ASSUME Inv, NEW i \in DOMAIN lots
  PROVE  lots[i].available \in 0..lots[i].initial
<1>1. PICK p, lot : p = lots[i].product /\ lot = lots[i]
  OBVIOUS
<1>2. lot \in LotRow /\ p \in Products /\ i \in LotsIn(lots, p)
  BY <1>1, BooksAre, ListIs, LotIs DEF LotsIn
<1>3. PICK s, D : s = kardex[p] /\ D = Standing(documents, s, i)
  OBVIOUS
<1>4. s \in Seq(EntryRow) /\ D \in SUBSET (DOMAIN s)
  BY <1>2, <1>3, BooksAre DEF Standing
<1>5. lot.initial = In(s, D) /\ lot.available = Net(s, D)
  <2>1. GoodFor(UsesPeps, documents, s, lots, p)
    BY ONLY <1>2, <1>3, BooksAre, Inv
  <2> QED
    BY ONLY <1>1, <1>2, <1>3, <2>1 DEF GoodFor, Holds
<1>6. In(s, D) \in Nat /\ Out(s, D) \in Nat /\ Net(s, D) = In(s, D) - Out(s, D)
  BY ONLY <1>4, SumsAre
<1>7. lot.initial \in Nat /\ lot.available \in Nat
  BY ONLY <1>2, LotIs
<1>8. lot.available \in 0..lot.initial
  BY ONLY <1>5, <1>6, <1>7
<1> QED
  BY ONLY <1>1, <1>8

\* The types of the books.
LEMMA TypesHold ==
  ASSUME Inv
  PROVE  TypeOK
<1>1. ASSUME NEW d \in DOMAIN documents
      PROVE  /\ documents[d].kind \in Kinds
             /\ documents[d].status \in {"pending", "approved", "voided"}
  <2>1. documents[d] \in Document
    BY BooksAre, ListIs
  <2> QED
    BY ONLY <2>1 DEF Document
<1>2. DOMAIN documents \subseteq 1..MaxDocuments
  <2>1. Len(documents) <= MaxDocuments
    BY DEF Inv
  <2>2. Len(documents) \in Nat /\ DOMAIN documents = 1..Len(documents)
    BY BooksAre, ListIs
  <2> QED
    BY ONLY <2>1, <2>2, MaxDocuments \in Nat
<1>3. ASSUME NEW p \in Products, NEW x \in DOMAIN kardex[p] PROVE kardex[p][x] \in Entry
  <2>1. PICK e : e = kardex[p][x]
    OBVIOUS
  <2>2. e \in EntryRow /\ e.document \in DOMAIN documents
    BY <2>1, BooksAre, ListIs DEF Refers
  <2>3. e.document \in 1..MaxDocuments
    BY ONLY <1>2, <2>2
  <2>4. e \in Entry
    BY ONLY <2>2, <2>3 DEF EntryRow, Entry
  <2> QED
    BY ONLY <2>1, <2>4
<1>4. \A i \in DOMAIN lots : /\ lots[i].available \in 0..lots[i].initial
                             /\ lots[i].document \in DOMAIN documents
  BY NoMoreThanInitial, BooksAre
<1>5. /\ stock \in [Products -> Nat] /\ method \in Methods \cup {OpeningMethod}
      /\ year \in 0..MaxYears /\ movedInYear \in BOOLEAN
  BY BooksAre DEF Inv
<1> QED
  BY ONLY <1>1, <1>3, <1>4, <1>5 DEF TypeOK

\* What the balances, the lots and the entries say.
LEMMA BooksAgree ==
  ASSUME Inv
  PROVE  BalancesAgree /\ LotsAgree /\ EntriesAddUp
<1>1. BalancesAgree
  BY BooksAre DEF BalancesAgree
<1>2. LotsAgree
  <2>1. ASSUME UsesPeps, NEW p \in Products
        PROVE  /\ Units(lots, p) = stock[p]
               /\ Abs(Worth(lots, p) - Balance(kardex[p]).value) <= Received(p)
    <3>1. GoodFor(UsesPeps, documents, kardex[p], lots, p) /\ Balance(kardex[p]).qty = stock[p]
      BY BooksAre
    <3>2. PICK a, v, n : a = Worth(lots, p) /\ v = Balance(kardex[p]).value /\ n = Received(p)
      OBVIOUS
    <3>3. n = In(kardex[p], OfLots(kardex[p]))
      BY ONLY <3>2 DEF Received, In, OfLots
    <3>4. Units(lots, p) = stock[p] /\ a - v <= n /\ v - a <= n
      BY ONLY <2>1, <3>1, <3>2, <3>3 DEF GoodFor, Valued, Near
    <3>5. a \in Int /\ v \in Int
      BY <3>2, BooksAre, WorthType, BalanceType
    <3>6. n \in Int
      <4>1. OfLots(kardex[p]) \in SUBSET (DOMAIN kardex[p])
        BY DEF OfLots
      <4> QED
        BY <3>3, <4>1, BooksAre, SumsAre
    <3>7. Abs(a - v) <= n
      BY ONLY <3>4, <3>5, <3>6 DEF Abs
    <3> QED
      BY ONLY <3>2, <3>4, <3>7
  <2>2. \A p \in Products : LotsOf(p) = LotsIn(lots, p)
    BY ONLY DEF LotsOf, LotsIn
  <2> QED
    BY ONLY <2>1, <2>2 DEF LotsAgree, Units, Worth
<1>3. EntriesAddUp
  <2> SUFFICES ASSUME NEW p \in Products, NEW x \in DOMAIN kardex[p]
               PROVE  LET e == kardex[p][x]
                          before == Balance(SubSeq(kardex[p], 1, x - 1))
                      IN  /\ e.qty = before.qty + e.in - e.out
                          /\ 2 * Abs(e.value - (before.value + e.in * e.costIn - e.out * e.costOut))
                               <= e.in + e.out + 1
    BY DEF EntriesAddUp
  <2>1. kardex[p] \in Seq(EntryRow) /\ GoodFor(UsesPeps, documents, kardex[p], lots, p)
    BY BooksAre
  <2>2. Continues(kardex[p][x], Before(kardex[p], x))
    BY ONLY <2>1, x \in DOMAIN kardex[p] DEF GoodFor, Chain
  <2>3. Balance(SubSeq(kardex[p], 1, x - 1)) = Before(kardex[p], x)
    BY ONLY <2>1, x \in DOMAIN kardex[p], BeforeIs
  <2> QED
    BY ONLY <2>2, <2>3 DEF Continues, Drift
<1> QED
  BY <1>1, <1>2, <1>3

\* A voided document has given back its lots.
LEMMA VoidedLot ==
  ASSUME Inv, NEW i \in DOMAIN lots, documents[lots[i].document].status = "voided"
  PROVE  lots[i].available = 0 /\ lots[i].initial = 0
<1>1. PICK p, lot : p = lots[i].product /\ lot = lots[i]
  OBVIOUS
<1>2. lot \in LotRow /\ p \in Products /\ i \in LotsIn(lots, p) /\ i # 0
  BY <1>1, BooksAre, ListIs, LotIs DEF LotsIn
<1>3. PICK s, D : s = kardex[p] /\ D = Standing(documents, s, i)
  OBVIOUS
<1>4. s \in Seq(EntryRow) /\ D \in SUBSET (DOMAIN s)
  BY <1>2, <1>3, BooksAre DEF Standing
<1>5. ASSUME NEW x \in D PROVE s[x].in = 0
  <2>1. x \in DOMAIN s /\ s[x].lot = i /\ documents[s[x].document].status = "approved"
    BY ONLY <1>3, <1>5 DEF Standing
  <2>2. Refers(documents, lots, p, s[x])
    BY ONLY <1>2, <1>3, <2>1, BooksAre, Inv
  <2>3. AtCost(s[x], lot)
    BY ONLY <1>1, <1>2, <2>1, <2>2 DEF Refers
  <2>4. s[x].in # 0 => s[x].document = lot.document
    BY ONLY <2>3 DEF AtCost
  <2> QED
    BY ONLY <1>1, <2>1, <2>4, documents[lots[i].document].status = "voided"
<1>6. In(s, D) = 0
  <2>1. PICK f : f = [x \in DOMAIN s |-> s[x].in]
    OBVIOUS
  <2>2. \A x \in D : f[x] = 0
    BY ONLY <1>4, <1>5, <2>1
  <2>3. IsFiniteSet(D)
    BY ONLY <1>4, ListIs, FS_Subset
  <2>4. SumFunctionOnSet(f, D) = 0
    BY ONLY <2>2, <2>3, SumZero
  <2> QED
    BY ONLY <2>1, <2>4 DEF In
<1>7. lot.initial = In(s, D)
  <2>1. GoodFor(UsesPeps, documents, s, lots, p)
    BY ONLY <1>2, <1>3, BooksAre, Inv
  <2> QED
    BY ONLY <1>1, <1>2, <1>3, <2>1 DEF GoodFor, Holds
<1>8. lots[i].available \in 0..lots[i].initial
  BY NoMoreThanInitial
<1> QED
  BY ONLY <1>1, <1>6, <1>7, <1>8

\* A voided document leaves nothing.
LEMMA NothingLeft ==
  ASSUME Inv
  PROVE  VoidedLeavesNothing
<1>1. ASSUME NEW d \in DOMAIN documents, documents[d].status = "voided", NEW p \in Products
      PROVE  Net(kardex[p], EntriesOf(d, p)) = 0
  <2>1. Recorded(documents[d], kardex[p], d, p)
    BY BooksAre
  <2>2. EntriesOf(d, p) = Places(kardex[p], d)
    BY DEF EntriesOf, Places
  <2> QED
    BY ONLY <1>1, <2>1, <2>2 DEF Recorded
<1>2. \A i \in DOMAIN lots : documents[lots[i].document].status = "voided" =>
        lots[i].available = 0 /\ lots[i].initial = 0
  BY VoidedLot
<1> QED
  BY ONLY <1>1, <1>2 DEF VoidedLeavesNothing

-----------------------------------------------------------------------------
(* What the service promises of its books.                                 *)

\* Every document, whatever its handler, keeps the books: the Kardex, the lots
\* and the stock hang together as Good says.
THEOREM BooksKept == ASSUME Regular PROVE Spec => []Inv
<1>1. Init => Inv
  BY Beginning
<1>2. Inv /\ [Next]_vars => Inv'
  BY EveryStep
<1> QED
  BY <1>1, <1>2, PTL DEF Spec

\* Entries refer to documents and lots that exist, no stock is negative and no
\* lot holds less than nothing or more than was received into it.
THEOREM TypeCorrect == ASSUME Regular PROVE Spec => []TypeOK
<1>1. Spec => []Inv
  BY BooksKept
<1>2. Inv => TypeOK
  BY TypesHold
<1> QED
  BY <1>1, <1>2, PTL

\* update_product_stock and record_entry move the stock and the balance of the
\* Kardex alike.
THEOREM BalancesFollowStock == ASSUME Regular PROVE Spec => []BalancesAgree
<1>1. Spec => []Inv
  BY BooksKept
<1>2. Inv => BalancesAgree
  BY BooksAgree
<1> QED
  BY <1>1, <1>2, PTL

\* Under PEPS the lots hold the stock, and the Kardex values it at what they cost to
\* a unit per piece received, whatever costs clients give: exits that take from
\* several lots, and voids that put stock back into lots used up, add nothing.
THEOREM LotsHoldTheStock == ASSUME Regular PROVE Spec => []LotsAgree
<1>1. Spec => []Inv
  BY BooksKept
<1>2. Inv => LotsAgree
  BY BooksAgree
<1> QED
  BY <1>1, <1>2, PTL

\* Each entry starts from the balance the one before it left, by whichever method it
\* was recorded, and rounding moves its value by half a unit per piece and another.
THEOREM EntriesContinue == ASSUME Regular PROVE Spec => []EntriesAddUp
<1>1. Spec => []Inv
  BY BooksKept
<1>2. Inv => EntriesAddUp
  BY BooksAgree
<1> QED
  BY <1>1, <1>2, PTL

\* What reverse_document writes takes back the whole of a document, and it can only
\* void a receipt whose lots are whole.
THEOREM VoidsLeaveNothing == ASSUME Regular PROVE Spec => []VoidedLeavesNothing
<1>1. Spec => []Inv
  BY BooksKept
<1>2. Inv => VoidedLeavesNothing
  BY NothingLeft
<1> QED
  BY <1>1, <1>2, PTL

\* _consume_lots_peps empties the older lots first, in every state, also after a
\* void has put stock back into one of them.
THEOREM OldestLeavesFirst == ASSUME Regular PROVE Spec => OldestLotFirst
<1>1. Spec => []Inv
  BY BooksKept
<1>2. Inv /\ [Next]_vars =>
        [\A i, j \in DOMAIN lots :
           (/\ i < j /\ lots[i].product = lots[j].product
            /\ lots'[j].available < lots[j].available
            /\ lots'[j].initial = lots[j].initial) => lots'[i].available = 0]_vars
  BY EveryStep DEF OldestGone
<1> QED
  BY <1>1, <1>2, PTL DEF Spec, OldestLotFirst

-----------------------------------------------------------------------------
(* The lists of documents, page by page.                                   *)

\* A finite set of numbers has a first and a last.
LEMMA FirstLast ==
  ASSUME NEW T, T \subseteq Nat, T # {}, IsFiniteSet(T)
  PROVE  /\ Min(T) \in T /\ \A n \in T : Min(T) =< n
         /\ Max(T) \in T /\ \A n \in T : Max(T) >= n
<1>1. \E m \in T : \A n \in T : m =< n
  <2>1. PICK m \in T : \A n \in T : ~(n < m)
    BY LeastNumber
  <2>2. \A n \in T : m =< n
    BY <2>1
  <2> QED
    BY <2>2
<1>2. \E m \in T : \A n \in T : m >= n
  <2>1. PICK m \in T : \A n \in T : n <= m
    BY GreatestNumber
  <2>2. \A n \in T : m >= n
    BY <2>1
  <2> QED
    BY <2>2
<1>3. Min(T) \in T /\ \A n \in T : Min(T) =< n
  BY ONLY <1>1 DEF Min
<1>4. Max(T) \in T /\ \A n \in T : Max(T) >= n
  BY ONLY <1>2 DEF Max
<1> QED
  BY ONLY <1>3, <1>4

\* What is below a cursor is finite.
LEMMA ListedIs ==
  ASSUME documents \in Seq(Document), NEW kinds, NEW c
  PROVE  /\ IsFiniteSet(Listed(kinds, c)) /\ Listed(kinds, c) \subseteq Nat
         /\ Listed(kinds, c) \subseteq DOMAIN documents
BY ListIs, FS_Subset DEF Listed

\* A page takes everything from its last document up to the cursor.
LEMMA PageIs ==
  ASSUME documents \in Seq(Document), NEW kinds, NEW c
  PROVE  /\ Page(kinds, c) = {} => Listed(kinds, c) = {}
         /\ Page(kinds, c) # {} => Min(Page(kinds, c)) \in Listed(kinds, c)
         /\ \A d : d \in Page(kinds, c) <=>
                     /\ Page(kinds, c) # {}
                     /\ d \in Listed(kinds, c) /\ d >= Min(Page(kinds, c))
<1>1. PICK L, P : L = Listed(kinds, c) /\ P = Page(kinds, c)
  OBVIOUS
<1>2. IsFiniteSet(L) /\ L \subseteq Nat
  BY <1>1, ListedIs
<1>3. PICK newer : newer = [d \in L |-> {e \in L : e > d}]
  OBVIOUS
<1>4. P = {d \in L : Cardinality(newer[d]) < PageSize}
  BY <1>1, <1>3 DEF Page
<1>5. \A d \in L : IsFiniteSet(newer[d]) /\ Cardinality(newer[d]) \in Nat
  <2> SUFFICES ASSUME NEW d \in L PROVE IsFiniteSet(newer[d]) /\ Cardinality(newer[d]) \in Nat
    OBVIOUS
  <2>1. newer[d] \in SUBSET L
    BY <1>3
  <2>2. IsFiniteSet(newer[d])
    BY ONLY <1>2, <2>1, FS_Subset
  <2> QED
    BY ONLY <2>2, FS_CardinalityType
<1>6. PageSize \in Nat /\ PageSize # 0
  BY KardexReportsAssumption
<1>7. L # {} => P # {}
  <2> SUFFICES ASSUME L # {} PROVE P # {}
    OBVIOUS
  <2>1. PICK m \in L : \A n \in L : n <= m
    BY <1>2, GreatestNumber
  <2>2. newer[m] = {}
    BY <1>2, <1>3, <2>1
  <2>3. Cardinality(newer[m]) = 0
    BY <2>2, FS_EmptySet
  <2>4. Cardinality(newer[m]) < PageSize
    BY ONLY <1>6, <2>3
  <2> QED
    BY <1>4, <2>4
<1>8. \A d \in P, e \in L : e >= d => e \in P
  <2> SUFFICES ASSUME NEW d \in P, NEW e \in L, e >= d PROVE e \in P
    OBVIOUS
  <2>1. d \in L /\ Cardinality(newer[d]) < PageSize
    BY <1>4
  <2>2. newer[e] \in SUBSET newer[d]
    BY <1>2, <1>3, <2>1
  <2>3. Cardinality(newer[e]) <= Cardinality(newer[d])
    BY <1>5, <2>1, <2>2, FS_Subset
  <2>4. Cardinality(newer[e]) < PageSize
    <3>1. Cardinality(newer[e]) \in Nat /\ Cardinality(newer[d]) \in Nat
      BY <1>5, <2>1
    <3> QED
      BY ONLY <1>6, <2>1, <2>3, <3>1
  <2> QED
    BY <1>4, <2>4
<1>9. P \subseteq L /\ P \subseteq Nat /\ IsFiniteSet(P)
  BY <1>2, <1>4, FS_Subset
<1>10. ASSUME P # {} PROVE Min(P) \in P /\ \A n \in P : Min(P) =< n
  BY <1>9, <1>10, FirstLast
<1>11. \A d : d \in P <=> P # {} /\ d \in L /\ d >= Min(P)
  <2>1. ASSUME NEW d, d \in P PROVE P # {} /\ d \in L /\ d >= Min(P)
    <3>1. P # {} /\ d \in L
      BY <1>9, <2>1
    <3>2. Min(P) =< d /\ Min(P) \in Nat /\ d \in Nat
      BY <1>9, <1>10, <2>1
    <3> QED
      BY ONLY <3>1, <3>2
  <2>2. ASSUME NEW d, P # {}, d \in L, d >= Min(P) PROVE d \in P
    BY ONLY <1>8, <1>10, <2>2
  <2> QED
    BY ONLY <2>1, <2>2
<1> QED
  BY ONLY <1>1, <1>7, <1>9, <1>10, <1>11

\* Once for each document below the cursor.
Once(kinds, c) == [d \in DOMAIN documents |-> IF d \in Listed(kinds, c) THEN 1 ELSE 0]

\* What the client was given with the page and below it.
Given(kinds, c, rest) ==
  [d \in DOMAIN documents |->
     IF Page(kinds, c) = {} THEN 0
     ELSE (IF d \in Page(kinds, c) THEN 1 ELSE 0) + rest[Min(Page(kinds, c))][d]]

\* A page and what is below its last document are what was below the cursor.
LEMMA GivenOnce ==
  ASSUME documents \in Seq(Document), NEW kinds, NEW c \in 1..Len(documents) + 1, NEW f,
         \A b \in 1..Len(documents) + 1 : b < c => f[b] = Once(kinds, b)
  PROVE  Given(kinds, c, f) = Once(kinds, c)
<1>1. PICK L, P : L = Listed(kinds, c) /\ P = Page(kinds, c)
  OBVIOUS
<1>2. Len(documents) \in Nat /\ DOMAIN documents = 1..Len(documents)
  BY ListIs
<1>3. CASE P = {}
  <2>1. L = {}
    BY ONLY <1>1, <1>3, documents \in Seq(Document), PageIs
  <2>2. Given(kinds, c, f) = [d \in DOMAIN documents |-> 0]
    BY ONLY <1>1, <1>3 DEF Given
  <2>3. Once(kinds, c) = [d \in DOMAIN documents |-> 0]
    BY ONLY <1>1, <2>1 DEF Once
  <2> QED
    BY ONLY <2>2, <2>3
<1>4. CASE P # {}
  <2>1. PICK b : b = Min(P)
    OBVIOUS
  <2>2. b \in L /\ \A d \in DOMAIN documents : (d \in P <=> d \in L /\ d >= b)
    BY ONLY <1>1, <1>4, <2>1, documents \in Seq(Document), PageIs
  <2>3. b \in DOMAIN documents /\ b < c
    BY ONLY <1>1, <2>2 DEF Listed
  <2>4. f[b] = Once(kinds, b)
    BY <1>2, <2>3
  <2>5. b \in Nat /\ c \in Nat
    BY ONLY <1>2, <2>3, c \in 1..Len(documents) + 1
  <2>6. ASSUME NEW d \in DOMAIN documents
        PROVE  (IF d \in P THEN 1 ELSE 0) + f[b][d] = IF d \in L THEN 1 ELSE 0
    <3>1. f[b][d] = IF d \in Listed(kinds, b) THEN 1 ELSE 0
      BY ONLY <2>4, <2>6 DEF Once
    <3>2. d \in Nat
      BY ONLY <1>2, <2>6
    <3>3. d \in Listed(kinds, b) <=> d \in L /\ d < b
      BY ONLY <1>1, <2>3, <2>5, <3>2 DEF Listed
    <3> QED
      BY ONLY <2>2, <2>5, <2>6, <3>1, <3>2, <3>3
  <2>7. PICK term : term = [d \in DOMAIN documents |-> (IF d \in P THEN 1 ELSE 0) + f[b][d]]
    OBVIOUS
  <2>8. Given(kinds, c, f) = term
    BY ONLY <1>1, <1>4, <2>1, <2>7 DEF Given
  <2>9. PICK once : once = [d \in DOMAIN documents |-> IF d \in L THEN 1 ELSE 0]
    OBVIOUS
  <2>10. Once(kinds, c) = once
    BY ONLY <1>1, <2>9 DEF Once
  <2>11. \A d \in DOMAIN documents : term[d] = once[d]
    BY ONLY <2>6, <2>7, <2>9
  <2>12. term = once
    BY ONLY <2>7, <2>9, <2>11
  <2> QED
    BY ONLY <2>8, <2>10, <2>12
<1> QED
  BY ONLY <1>3, <1>4

\* Read page by page, a list gives every document in force of its kinds once.
LEMMA AllPagesIs ==
  ASSUME documents \in Seq(Document), NEW kinds
  PROVE  AllPages(kinds) =
           [d \in DOMAIN documents |-> IF Kept(d) /\ documents[d].kind \in kinds THEN 1 ELSE 0]
<1> DEFINE n == Len(documents) + 1
           Rec(f) == f = [c \in 1..n |-> Given(kinds, c, f)]
<1>1. Len(documents) \in Nat /\ DOMAIN documents = 1..Len(documents) /\ n \in Nat /\ n \in 1..n
  BY ListIs
<1>2. PICK g : g = [c \in 1..n |-> Once(kinds, c)]
  OBVIOUS
<1>3. Rec(g)
  <2>1. ASSUME NEW c \in 1..n PROVE Given(kinds, c, g) = Once(kinds, c)
    BY <1>2, GivenOnce
  <2> QED
    BY <1>2, <2>1
<1>4. PICK f : f = CHOOSE h : Rec(h)
  OBVIOUS
<1>5. Rec(f)
  BY ONLY <1>3, <1>4
<1>6. \A c \in 1..n : f[c] = Once(kinds, c)
  <2>1. PICK Bad : Bad = {c \in 1..n : f[c] # Once(kinds, c)}
    OBVIOUS
  <2>2. SUFFICES ASSUME Bad # {} PROVE FALSE
    BY <2>1
  <2>3. Bad \subseteq Nat
    BY ONLY <1>1, <2>1
  <2>4. PICK c \in Bad : \A b \in Bad : ~(b < c)
    BY ONLY <2>2, <2>3, LeastNumber
  <2>5. c \in 1..n /\ f[c] # Once(kinds, c)
    BY ONLY <2>1
  <2>6. \A b \in 1..n : b < c => f[b] = Once(kinds, b)
    BY ONLY <2>1, <2>4
  <2>7. Given(kinds, c, f) = Once(kinds, c)
    BY <2>5, <2>6, GivenOnce
  <2>8. f[c] = Given(kinds, c, f)
    BY ONLY <1>5, <2>5
  <2> QED
    BY ONLY <2>5, <2>7, <2>8
<1>7. AllPages(kinds) = f[n]
  BY ONLY <1>4 DEF AllPages, Given
<1>8. f[n] = Once(kinds, n)
  BY ONLY <1>1, <1>6
<1>9. \A d \in DOMAIN documents : d \in Listed(kinds, n) <=> Kept(d) /\ documents[d].kind \in kinds
  BY ONLY <1>1 DEF Listed
<1> QED
  BY ONLY <1>7, <1>8, <1>9 DEF Once

-----------------------------------------------------------------------------
(* The movements of a product, by place and by document.                   *)

\* A Kardex adds up from any of its entries.
LEMMA ChainAddsUp ==
  ASSUME NEW s \in Seq(EntryRow), Chain(s), NEW a \in DOMAIN s
  PROVE  \A b \in a..Len(s) : s[b].qty = Before(s, a).qty + Net(s, a..b)
<1>1. Len(s) \in Nat /\ DOMAIN s = 1..Len(s) /\ a \in Nat \ {0}
  BY ListIs
<1>2. PICK f : f = [x \in DOMAIN s |-> s[x].in - s[x].out]
  OBVIOUS
<1>3. \A D : Net(s, D) = SumFunctionOnSet(f, D)
  BY <1>2 DEF Net
<1>4. \A x \in DOMAIN s : /\ s[x].in \in Nat /\ s[x].out \in Nat /\ s[x].qty \in Int
                          /\ f[x] = s[x].in - s[x].out /\ f[x] \in Int
  <2>1. \A x \in DOMAIN s : s[x].in \in Nat /\ s[x].out \in Nat /\ s[x].qty \in Int
    BY ListIs, EntryIs
  <2> QED
    BY ONLY <1>2, <2>1
<1>5. \A x \in DOMAIN s : s[x].qty = Before(s, x).qty + f[x] /\ Before(s, x).qty \in Int
  <2> SUFFICES ASSUME NEW x \in DOMAIN s
               PROVE  s[x].qty = Before(s, x).qty + f[x] /\ Before(s, x).qty \in Int
    OBVIOUS
  <2>1. s[x].qty = Before(s, x).qty + s[x].in - s[x].out
    BY DEF Chain, Continues
  <2>2. Before(s, x).qty \in Int
    <3>1. x = 1 \/ x - 1 \in DOMAIN s
      BY ONLY <1>1, x \in DOMAIN s
    <3>2. x = 1 \/ s[x - 1].qty \in Int
      BY ONLY <1>4, <3>1
    <3> QED
      BY ONLY <3>2 DEF Before, NoBalance
  <2> QED
    BY ONLY <1>4, <2>1, <2>2, x \in DOMAIN s
<1>6. PICK Bad : Bad = {b \in a..Len(s) : s[b].qty # Before(s, a).qty + SumFunctionOnSet(f, a..b)}
  OBVIOUS
<1>7. ASSUME Bad # {} PROVE FALSE
  <2>1. Bad \subseteq Nat
    BY ONLY <1>1, <1>6
  <2>2. PICK b \in Bad : \A c \in Bad : ~(c < b)
    BY ONLY <1>7, <2>1, LeastNumber
  <2>3. b \in a..Len(s) /\ s[b].qty # Before(s, a).qty + SumFunctionOnSet(f, a..b)
    BY ONLY <1>6
  <2>4. b \in DOMAIN s /\ b \in Nat
    BY ONLY <1>1, <2>3
  <2>5. CASE b = a
    <3>1. a..b = {a} /\ SumFunctionOnSet(f, {a}) = f[a]
      <4>1. a..b = {a}
        BY ONLY <1>1, <2>5
      <4>2. f[a] \in Int
        BY <1>4
      <4> QED
        BY ONLY <4>1, <4>2, SumOne
    <3>2. s[a].qty = Before(s, a).qty + f[a]
      BY <1>5
    <3> QED
      BY ONLY <2>3, <2>5, <3>1, <3>2
  <2>6. CASE b # a
    <3>1. PICK c : c = b - 1
      OBVIOUS
    <3>2. c \in a..Len(s) /\ c < b /\ b # 1 /\ c \in Nat /\ b \notin a..c /\ a..b = (a..c) \cup {b}
      BY ONLY <1>1, <2>3, <2>4, <2>6, <3>1
    <3>3. s[c].qty = Before(s, a).qty + SumFunctionOnSet(f, a..c)
      BY ONLY <1>6, <2>2, <3>2
    <3>4. IsFiniteSet(a..c) /\ \A y \in (a..c) \cup {b} : f[y] \in Int
      <4>1. IsFiniteSet(a..c)
        BY ONLY <1>1, <3>2, FS_Interval, Nat \subseteq Int
      <4>2. (a..c) \cup {b} \subseteq DOMAIN s
        BY ONLY <1>1, <2>4, <3>2
      <4> QED
        BY ONLY <1>4, <4>1, <4>2
    <3>5. /\ SumFunctionOnSet(f, a..c) \in Int
          /\ SumFunctionOnSet(f, (a..c) \cup {b}) = SumFunctionOnSet(f, a..c) + f[b]
      <4>1. b \notin a..c
        BY ONLY <3>2
      <4> QED
        BY ONLY <3>4, <4>1, SumAdd
    <3>6. Before(s, b).qty = s[c].qty
      BY ONLY <3>1, <3>2 DEF Before
    <3>7. s[b].qty = Before(s, b).qty + f[b] /\ f[b] \in Int /\ Before(s, a).qty \in Int
      BY <1>4, <1>5, <2>4
    <3>8. SumFunctionOnSet(f, a..b) = SumFunctionOnSet(f, a..c) + f[b]
      BY ONLY <3>2, <3>5
    <3> QED
      BY ONLY <2>3, <3>3, <3>5, <3>6, <3>7, <3>8
  <2> QED
    BY ONLY <2>5, <2>6
<1>8. \A b \in a..Len(s) : s[b].qty = Before(s, a).qty + SumFunctionOnSet(f, a..b)
  BY ONLY <1>6, <1>7
<1> QED
  BY ONLY <1>3, <1>8

\* The balance of a Kardex is what all its entries moved.
LEMMA BalanceIsNet ==
  ASSUME NEW s \in Seq(EntryRow), Chain(s)
  PROVE  Balance(s).qty = Net(s, DOMAIN s)
<1>1. Len(s) \in Nat /\ DOMAIN s = 1..Len(s)
  BY ListIs
<1>2. CASE s = <<>>
  <2>1. DOMAIN s = {}
    BY <1>2
  <2>2. Net(s, DOMAIN s) = 0
    BY <2>1, SumEmpty DEF Net
  <2> QED
    BY <1>2, <2>2 DEF Balance, NoBalance
<1>3. CASE s # <<>>
  <2>1. 1 \in DOMAIN s /\ Len(s) \in 1..Len(s) /\ Len(s) # 0
    BY <1>1, <1>3
  <2>2. s[Len(s)].qty = Before(s, 1).qty + Net(s, 1..Len(s))
    BY <2>1, ChainAddsUp
  <2>3. Balance(s).qty = s[Len(s)].qty
    BY <1>3 DEF Balance, Last
  <2>4. Before(s, 1).qty = 0
    BY DEF Before, NoBalance
  <2>5. Net(s, 1..Len(s)) \in Int
    <3>1. DOMAIN s \in SUBSET (DOMAIN s)
      OBVIOUS
    <3>2. In(s, DOMAIN s) \in Nat /\ Out(s, DOMAIN s) \in Nat
          /\ Net(s, DOMAIN s) = In(s, DOMAIN s) - Out(s, DOMAIN s)
      BY <3>1, SumsAre
    <3> QED
      BY ONLY <1>1, <3>2
  <2> QED
    BY ONLY <1>1, <2>2, <2>3, <2>4, <2>5
<1> QED
  BY ONLY <1>2, <1>3

\* What a document in force moved of a product.
Effect(d, p) ==
  IF documents[d].status = "approved"
  THEN Sign(documents[d].kind) * QuantityIn(documents[d].lines, p) ELSE 0

Effects(p) == [d \in DOMAIN documents |-> Effect(d, p)]

\* The entries about some documents moved what these documents say.
LEMMA NetByDocument ==
  ASSUME Inv, NEW p \in Products, NEW D \in SUBSET (DOMAIN documents)
  PROVE  /\ \A d \in DOMAIN documents : Effects(p)[d] \in Int
         /\ Net(kardex[p], {x \in DOMAIN kardex[p] : kardex[p][x].document \in D}) =
              SumFunctionOnSet(Effects(p), D)
<1>1. PICK s : s = kardex[p]
  OBVIOUS
<1>2. /\ documents \in Seq(Document) /\ s \in Seq(EntryRow)
      /\ \A x \in DOMAIN s : s[x].document \in DOMAIN documents
      /\ \A d \in DOMAIN documents : Recorded(documents[d], s, d, p)
  BY <1>1, BooksAre DEF Refers
<1>3. \A d \in DOMAIN documents : Effects(p)[d] = Net(s, Places(s, d)) /\ Effects(p)[d] \in Int
  <2> SUFFICES ASSUME NEW d \in DOMAIN documents
               PROVE  Effects(p)[d] = Net(s, Places(s, d)) /\ Effects(p)[d] \in Int
    OBVIOUS
  <2>1. Effects(p)[d] = Net(s, Places(s, d))
    BY <1>2 DEF Recorded, Effects, Effect
  <2>2. Places(s, d) \in SUBSET (DOMAIN s)
    BY DEF Places
  <2>3. In(s, Places(s, d)) \in Nat /\ Out(s, Places(s, d)) \in Nat
        /\ Net(s, Places(s, d)) = In(s, Places(s, d)) - Out(s, Places(s, d))
    BY ONLY <1>2, <2>2, SumsAre
  <2> QED
    BY ONLY <2>1, <2>3
<1>4. PICK f, S, key, part :
        /\ f = [x \in DOMAIN s |-> s[x].in - s[x].out]
        /\ S = {x \in DOMAIN s : s[x].document \in D}
        /\ key = [x \in DOMAIN s |-> s[x].document]
        /\ part = [d \in D |-> Places(s, d)]
  OBVIOUS
<1>5. IsFiniteSet(S) /\ S \in SUBSET (DOMAIN s)
  BY <1>2, <1>4, ListIs, FS_Subset
<1>6. IsFiniteSet(D)
  BY <1>2, ListIs, FS_Subset
<1>7. InParts(S, D, key, part)
  BY ONLY <1>4 DEF InParts, Places
<1>8. \A x \in S : f[x] \in Int
  <2>1. \A x \in DOMAIN s : s[x].in \in Nat /\ s[x].out \in Nat
    BY <1>2, ListIs, EntryIs
  <2> QED
    BY ONLY <1>4, <1>5, <2>1
<1>9. PICK h : h = Effects(p)
  OBVIOUS
<1>10. \A d \in D : h[d] = SumFunctionOnSet(f, part[d])
  BY ONLY <1>3, <1>4, <1>9, D \in SUBSET (DOMAIN documents) DEF Net
<1>11. SumFunctionOnSet(f, S) = SumFunctionOnSet(h, D)
  BY ONLY <1>5, <1>6, <1>7, <1>8, <1>10, SumParts
<1>12. Net(s, S) = SumFunctionOnSet(f, S)
  BY ONLY <1>4 DEF Net
<1> QED
  BY ONLY <1>1, <1>3, <1>4, <1>9, <1>11, <1>12

\* The documents that moved something explain the stock.
LEMMA StockIs ==
  ASSUME Inv, NEW p \in Products, NEW D \in SUBSET (DOMAIN documents),
         \A d \in DOMAIN documents : d \notin D => documents[d].status # "approved"
  PROVE  stock[p] = SumFunctionOnSet(Effects(p), D)
<1>1. PICK s, h, all : s = kardex[p] /\ h = Effects(p) /\ all = DOMAIN documents
  OBVIOUS
<1>2. /\ documents \in Seq(Document) /\ s \in Seq(EntryRow) /\ stock[p] \in Nat
      /\ \A x \in DOMAIN s : s[x].document \in DOMAIN documents
      /\ Balance(s).qty = stock[p] /\ Chain(s)
  BY <1>1, BooksAre DEF Refers, GoodFor
<1>3. all \in SUBSET (DOMAIN documents) /\ {x \in DOMAIN s : s[x].document \in all} = DOMAIN s
  BY <1>1, <1>2
<1>4. /\ \A d \in all : h[d] \in Int
      /\ Net(s, {x \in DOMAIN s : s[x].document \in all}) = SumFunctionOnSet(h, all)
  BY <1>1, <1>3, NetByDocument
<1>5. stock[p] = SumFunctionOnSet(h, all)
  <2>1. Balance(s).qty = Net(s, DOMAIN s)
    BY ONLY <1>2, BalanceIsNet
  <2> QED
    BY ONLY <1>2, <1>3, <1>4, <2>1
<1>6. PICK rest : rest = all \ D
  OBVIOUS
<1>7. D \cup rest = all /\ D \cap rest = {}
  BY ONLY <1>1, <1>6, D \in SUBSET (DOMAIN documents)
<1>8. IsFiniteSet(D) /\ IsFiniteSet(rest)
  BY <1>1, <1>2, <1>6, ListIs, FS_Subset
<1>9. \A d \in rest : h[d] = 0
  BY <1>1, <1>6 DEF Effects, Effect
<1>10. SumFunctionOnSet(h, rest) = 0
  BY ONLY <1>8, <1>9, SumZero
<1>11. \A d \in D \cup rest : h[d] \in Int
  BY ONLY <1>4, <1>7
<1>12. SumFunctionOnSet(h, D \cup rest) = SumFunctionOnSet(h, D) + SumFunctionOnSet(h, rest)
  BY ONLY <1>7, <1>8, <1>11, SumUnion
<1>13. SumFunctionOnSet(h, D) \in Int
  BY ONLY <1>8, <1>11, SumType
<1>14. SumFunctionOnSet(h, D \cup rest) = SumFunctionOnSet(h, all)
  BY ONLY <1>7
<1> QED
  BY ONLY <1>1, <1>5, <1>10, <1>12, <1>13, <1>14
\* The four lists name every document in force, once.
LEMMA ListedOnce ==
  ASSUME Regular, documents \in Seq(Document), NEW d \in DOMAIN documents
  PROVE  ReportIngresos[d] + ReportEgresos[d] + ReportBajas[d] + ReportAjustes[d] =
           IF Kept(d) THEN 1 ELSE 0
<1>1. /\ ReportIngresos[d] = IF Kept(d) /\ documents[d].kind \in {"ingreso", "adjustment_positive"} THEN 1 ELSE 0
      /\ ReportEgresos[d] = IF Kept(d) /\ documents[d].kind \in {"egreso"} THEN 1 ELSE 0
      /\ ReportBajas[d] = IF Kept(d) /\ documents[d].kind \in {"baja"} THEN 1 ELSE 0
      /\ ReportAjustes[d] = IF Kept(d) /\ documents[d].kind \in {"increment", "decrement"} THEN 1 ELSE 0
  BY AllPagesIs DEF ReportIngresos, ReportEgresos, ReportBajas, ReportAjustes
<1>2. documents[d].kind \in Kinds
  BY DocumentIs
<1>3. PICK a, b, c, e :
        a = ReportIngresos[d] /\ b = ReportEgresos[d] /\ c = ReportBajas[d] /\ e = ReportAjustes[d]
  OBVIOUS
<1>4. a + b + c + e = IF Kept(d) THEN 1 ELSE 0
  <2>1. CASE ~Kept(d)
    BY ONLY <1>1, <1>3, <2>1
  <2>2. CASE Kept(d) /\ documents[d].kind \in {"ingreso", "adjustment_positive"}
    BY ONLY <1>1, <1>3, <2>2
  <2>3. CASE Kept(d) /\ documents[d].kind = "egreso"
    BY ONLY <1>1, <1>3, <2>3
  <2>4. CASE Kept(d) /\ documents[d].kind = "baja"
    BY ONLY <1>1, <1>3, <2>4
  <2>5. CASE Kept(d) /\ documents[d].kind \in {"increment", "decrement"}
    BY ONLY <1>1, <1>3, <2>5
  <2> QED
    BY ONLY <1>2, <2>1, <2>2, <2>3, <2>4, <2>5 DEF Kinds
<1> QED
  BY ONLY <1>3, <1>4

\* The lists of documents explain the stock.
LEMMA ListsExplain == ASSUME Regular, Inv PROVE ListsExplainStock
<1>1. documents \in Seq(Document)
  BY BooksAre
<1>2. PICK listed, approved :
        /\ listed = [d \in DOMAIN documents |->
                       ReportIngresos[d] + ReportEgresos[d] + ReportBajas[d] + ReportAjustes[d]]
        /\ approved = {d \in DOMAIN documents : documents[d].status = "approved"}
  OBVIOUS
<1>3. \A d \in DOMAIN documents : listed[d] = IF Kept(d) THEN 1 ELSE 0
  BY ONLY <1>1, <1>2, Regular, ListedOnce
<1>4. ASSUME NEW p \in Products
      PROVE  ReportStock[p] = SumFunction([d \in approved |->
               listed[d] * (Sign(documents[d].kind) * QuantityIn(documents[d].lines, p))])
  <2>1. PICK f, h :
          /\ f = [d \in approved |->
                    listed[d] * (Sign(documents[d].kind) * QuantityIn(documents[d].lines, p))]
          /\ h = Effects(p)
    OBVIOUS
  <2>2. approved \in SUBSET (DOMAIN documents)
        /\ \A d \in DOMAIN documents : d \notin approved => documents[d].status # "approved"
    BY ONLY <1>2
  <2>3. stock[p] = SumFunctionOnSet(h, approved)
    BY ONLY <2>1, <2>2, Inv, p \in Products, StockIs
  <2>4. \A d \in DOMAIN documents : h[d] \in Int
    BY ONLY <2>1, <2>2, Inv, p \in Products, NetByDocument
  <2>5. \A d \in approved : f[d] = h[d]
    <3> SUFFICES ASSUME NEW d \in approved PROVE f[d] = h[d]
      OBVIOUS
    <3>1. d \in DOMAIN documents /\ documents[d].status = "approved"
      BY ONLY <1>2
    <3>2. listed[d] = 1
      BY ONLY <1>3, <3>1 DEF Kept
    <3>3. PICK v : v = Sign(documents[d].kind) * QuantityIn(documents[d].lines, p)
      OBVIOUS
    <3>4. h[d] = v
      BY ONLY <2>1, <3>1, <3>3 DEF Effects, Effect
    <3>5. v \in Int
      BY ONLY <2>4, <3>1, <3>4
    <3>6. f[d] = listed[d] * v
      BY ONLY <2>1, <3>3
    <3> QED
      BY ONLY <3>2, <3>4, <3>5, <3>6
  <2>6. IsFiniteSet(approved)
    BY <1>1, <2>2, ListIs, FS_Subset
  <2>7. SumFunctionOnSet(f, approved) = SumFunctionOnSet(h, approved)
    BY ONLY <2>5, <2>6, SumEqual
  <2>8. SumFunction(f) = SumFunctionOnSet(f, approved)
    <3>1. DOMAIN f = approved
      BY ONLY <2>1
    <3> QED
      BY ONLY <3>1 DEF SumFunction, SumFunctionOnSet, FoldFunction
  <2>9. ReportStock[p] = stock[p]
    BY DEF ReportStock
  <2> QED
    BY ONLY <2>1, <2>3, <2>7, <2>8, <2>9
<1> QED
  BY ONLY <1>2, <1>3, <1>4 DEF ListsExplainStock

-----------------------------------------------------------------------------
(* What the Kardex of a product shows.                                     *)

\* The greatest of a range of numbers.
LEMMA LastOf ==
  ASSUME NEW T, T \subseteq Nat, NEW n \in T, \A m \in T : m <= n
  PROVE  Max(T) = n
<1>1. n \in T /\ \A m \in T : n >= m
  OBVIOUS
<1>2. Max(T) \in T /\ \A m \in T : Max(T) >= m
  BY ONLY <1>1 DEF Max
<1>3. n \in Nat /\ Max(T) \in Nat /\ n <= Max(T) /\ Max(T) <= n
  BY ONLY <1>1, <1>2, T \subseteq Nat
<1> QED
  BY ONLY <1>3

\* The Kardex of a product adds up over every range of its entries.
LEMMA RangeAddsUp ==
  ASSUME Inv, NEW p \in Products, NEW a \in DOMAIN kardex[p], NEW b \in a..Len(kardex[p])
  PROVE  AddsUp(ReportKardex(p, a, b), a, b)
<1>1. PICK s, r : s = kardex[p] /\ r = ReportKardex(p, a, b)
  OBVIOUS
<1>2. s \in Seq(EntryRow) /\ Chain(s) /\ a \in DOMAIN s /\ b \in a..Len(s)
  BY <1>1, BooksAre DEF GoodFor
<1>3. /\ Len(s) \in Nat /\ DOMAIN s = 1..Len(s) /\ a \in Nat \ {0} /\ b \in Nat
      /\ a <= b /\ b <= Len(s)
  BY <1>2, ListIs
<1>4. r = [x \in DOMAIN s \cap (a..b) |-> s[x]]
  BY ONLY <1>1 DEF ReportKardex
<1>5. PICK n, D : n = a + 1 /\ D = n..b
  OBVIOUS
<1>6. a..b \subseteq DOMAIN s
  BY ONLY <1>3
<1>7. DOMAIN r = a..b /\ \A x \in a..b : r[x] = s[x]
  BY ONLY <1>4, <1>6
<1>8. D \subseteq a..b /\ a \in a..b /\ b \in a..b /\ IsFiniteSet(D)
  <2>1. D \subseteq a..b /\ a \in a..b /\ b \in a..b
    BY ONLY <1>3, <1>5
  <2>2. IsFiniteSet(DOMAIN s)
    BY <1>2, ListIs
  <2> QED
    BY ONLY <1>6, <2>1, <2>2, FS_Subset
<1>9. Net(r, D) = Net(s, D)
  <2>1. PICK f, g : /\ f = [x \in DOMAIN r |-> r[x].in - r[x].out]
                    /\ g = [x \in DOMAIN s |-> s[x].in - s[x].out]
    OBVIOUS
  <2>2. \A x \in D : f[x] = g[x]
    BY ONLY <1>6, <1>7, <1>8, <2>1
  <2>3. SumFunctionOnSet(f, D) = SumFunctionOnSet(g, D)
    BY ONLY <1>8, <2>2, SumEqual
  <2> QED
    BY ONLY <2>1, <2>3 DEF Net
<1>10. s[b].qty = s[a].qty + Net(s, D)
  <2>1. CASE a = b
    <3>1. D = {}
      BY ONLY <1>3, <1>5, <2>1
    <3>2. Net(s, {}) = 0
      BY SumEmpty DEF Net
    <3>3. s[a].qty \in Int
      BY <1>2, ListIs, EntryIs
    <3> QED
      BY ONLY <2>1, <3>1, <3>2, <3>3
  <2>2. CASE a # b
    <3>1. n \in DOMAIN s /\ b \in n..Len(s) /\ n # 1 /\ n - 1 = a
      BY ONLY <1>3, <1>5, <2>2
    <3>2. s[b].qty = Before(s, n).qty + Net(s, D)
      BY ONLY <1>2, <1>5, <3>1, ChainAddsUp
    <3>3. Before(s, n).qty = s[a].qty
      BY ONLY <3>1 DEF Before
    <3> QED
      BY ONLY <3>2, <3>3
  <2> QED
    BY ONLY <2>1, <2>2
<1>11. r[b].qty = r[a].qty + Net(r, D)
  BY ONLY <1>7, <1>8, <1>9, <1>10
<1> QED
  BY ONLY <1>1, <1>5, <1>11 DEF AddsUp

\* The last entry of a Kardex holds its balance.
LEMMA LastBalance ==
  ASSUME NEW s \in Seq(EntryRow), Len(s) # 0
  PROVE  /\ Len(s) \in DOMAIN s /\ 1 \in DOMAIN s /\ Len(s) \in 1..Len(s)
         /\ s[Len(s)].qty = Balance(s).qty /\ s[Len(s)].value = Balance(s).value
<1>1. Len(s) \in DOMAIN s /\ 1 \in DOMAIN s /\ Len(s) \in 1..Len(s) /\ s # <<>>
  BY ListIs
<1>2. Last(s) = s[Len(s)]
  BY DEF Last
<1> QED
  BY ONLY <1>1, <1>2 DEF Balance

\* Without the entries of voided documents the movements add up to the stock.
LEMMA ShownAddsUp ==
  ASSUME Inv, NEW p \in Products
  PROVE  LET shown == GetKardex(p, 1, Len(kardex[p]))
         IN  /\ shown.in - shown.out = stock[p]
             /\ Shown(p) = DOMAIN kardex[p] => shown.closing.qty = stock[p]
<1>1. PICK s, D, v, kept :
        /\ s = kardex[p] /\ D = Shown(p) /\ v = GetKardex(p, 1, Len(kardex[p]))
        /\ kept = {d \in DOMAIN documents : Kept(d)}
  OBVIOUS
<1>2. /\ s \in Seq(EntryRow) /\ Chain(s) /\ Balance(s).qty = stock[p]
      /\ \A x \in DOMAIN s : s[x].document \in DOMAIN documents
  BY <1>1, BooksAre DEF Refers, GoodFor
<1>3. D = {x \in DOMAIN s : s[x].document \in kept}
  <2>1. D = {x \in DOMAIN s : Kept(s[x].document)}
    BY ONLY <1>1 DEF Shown
  <2> QED
    BY ONLY <1>1, <1>2, <2>1
<1>4. D \in SUBSET (DOMAIN s) /\ D \cap (1..Len(s)) = D
  BY <1>2, <1>3, ListIs
<1>5. v.in = In(s, D) /\ v.out = Out(s, D)
  BY ONLY <1>1, <1>4 DEF GetKardex, In, Out
<1>6. In(s, D) \in Nat /\ Out(s, D) \in Nat /\ Net(s, D) = In(s, D) - Out(s, D)
  BY ONLY <1>2, <1>4, SumsAre
<1>7. kept \in SUBSET (DOMAIN documents)
      /\ \A d \in DOMAIN documents : d \notin kept => documents[d].status # "approved"
  BY ONLY <1>1 DEF Kept
<1>8. Net(kardex[p], {x \in DOMAIN kardex[p] : kardex[p][x].document \in kept}) =
        SumFunctionOnSet(Effects(p), kept)
  BY ONLY Inv, p \in Products, <1>7, NetByDocument
<1>9. stock[p] = SumFunctionOnSet(Effects(p), kept)
  BY ONLY Inv, p \in Products, <1>7, StockIs
<1>10. Net(s, D) = stock[p]
  BY ONLY <1>1, <1>3, <1>8, <1>9
<1>11. v.in - v.out = stock[p]
  BY ONLY <1>5, <1>6, <1>10
<1>12. ASSUME D = DOMAIN s PROVE v.closing.qty = stock[p]
  <2>1. CASE Len(s) = 0
    <3>1. DOMAIN s = {}
      BY <1>2, <2>1, ListIs
    <3>2. D = {} /\ D \cap (1..Len(s)) = {} /\ {x \in D : x < 1} = {}
      BY ONLY <1>12, <3>1
    <3>3. v.closing = NoBalance
      BY ONLY <1>1, <3>2 DEF GetKardex, BalanceAt
    <3>4. Balance(s).qty = 0
      <4>1. s = <<>>
        BY <1>2, <2>1
      <4> QED
        BY ONLY <4>1 DEF Balance, NoBalance
    <3> QED
      BY ONLY <1>2, <3>3, <3>4 DEF NoBalance
  <2>2. CASE Len(s) # 0
    <3>1. /\ Len(s) \in 1..Len(s) /\ 1 \in DOMAIN s
          /\ s[Len(s)].qty = Balance(s).qty
      BY ONLY <1>2, <2>2, LastBalance
    <3>2. Max(D) = Len(s) /\ D # {}
      <4>1. D \subseteq Nat /\ Len(s) \in D /\ \A m \in D : m <= Len(s)
        BY <1>2, <1>12, <3>1, ListIs
      <4> QED
        BY ONLY <4>1, LastOf
    <3>3. v.closing = BalanceOf(s[Len(s)])
      BY ONLY <1>1, <1>4, <3>2 DEF GetKardex, BalanceAt, BalanceOf
    <3> QED
      BY ONLY <1>2, <3>1, <3>3 DEF BalanceOf
  <2> QED
    BY ONLY <2>1, <2>2
<1> QED
  BY ONLY <1>1, <1>11, <1>12

LEMMA KardexAdds == ASSUME Inv PROVE KardexAddsUp
<1>1. ASSUME NEW p \in Products, Len(kardex[p]) > 0
      PROVE  AddsUp(ReportKardex(p, 1, Len(kardex[p])), 1, Len(kardex[p]))
  <2>1. kardex[p] \in Seq(EntryRow)
    BY BooksAre
  <2>2. 1 \in DOMAIN kardex[p] /\ Len(kardex[p]) \in 1..Len(kardex[p])
    BY ONLY <1>1, <2>1, LastBalance
  <2> QED
    BY ONLY Inv, <1>1, <2>2, RangeAddsUp
<1>2. ASSUME NEW p \in Products
      PROVE  LET shown == GetKardex(p, 1, Len(kardex[p]))
             IN  /\ shown.in - shown.out = stock[p]
                 /\ Shown(p) = DOMAIN kardex[p] => shown.closing.qty = stock[p]
  BY ONLY Inv, <1>2, ShownAddsUp
<1> QED
  BY ONLY <1>1, <1>2 DEF KardexAddsUp

-----------------------------------------------------------------------------
(* The valuation.                                                          *)

\* The valuation of today shows the balance of each Kardex.
LEMMA ValuedIs ==
  ASSUME Inv, NEW p \in Products
  PROVE  /\ ValuedItem(p, Len(kardex[p])).stock = stock[p]
         /\ ValuedItem(p, Len(kardex[p])).value = Balance(kardex[p]).value
<1>1. PICK s, n : s = kardex[p] /\ n = Len(s)
  OBVIOUS
<1>2. s \in Seq(EntryRow) /\ Balance(s).qty = stock[p]
  BY <1>1, BooksAre
<1>3. CASE n = 0
  <2>1. s = <<>>
    <3>1. Len(s) = 0
      BY ONLY <1>1, <1>3
    <3> QED
      BY ONLY <1>2, <3>1
  <2>2. Balance(s).value = 0
    BY ONLY <2>1 DEF Balance, NoBalance
  <2> QED
    BY ONLY <1>1, <1>3, <2>2 DEF ValuedItem
<1>4. CASE n # 0
  <2>1. s[n].qty = Balance(s).qty /\ s[n].value = Balance(s).value
    BY ONLY <1>1, <1>2, <1>4, LastBalance
  <2> QED
    BY ONLY <1>1, <1>2, <1>4, <2>1 DEF ValuedItem
<1> QED
  BY ONLY <1>3, <1>4

\* Sums of terms close to each other are as close as the bounds add up to.
LEMMA SumsClose ==
  ASSUME NEW f, NEW g, NEW h, NEW S, IsFiniteSet(S),
         \A x \in S : f[x] \in Int /\ g[x] \in Int /\ h[x] \in Int /\ Abs(f[x] - g[x]) <= h[x]
  PROVE  /\ SumFunctionOnSet(f, S) \in Int /\ SumFunctionOnSet(g, S) \in Int
         /\ Abs(SumFunctionOnSet(f, S) - SumFunctionOnSet(g, S)) <= SumFunctionOnSet(h, S)
<1>1. PICK d, u, v : /\ d = [x \in S |-> f[x] - g[x]]
                     /\ u = [x \in S |-> h[x] - d[x]] /\ v = [x \in S |-> d[x] - (-h[x])]
  OBVIOUS
<1>2. PICK z : z = [x \in S |-> -h[x]]
  OBVIOUS
<1>3. PICK o : o = [x \in S |-> 0]
  OBVIOUS
<1>4. ASSUME NEW x \in S
      PROVE  /\ f[x] \in Int /\ g[x] \in Int /\ h[x] \in Int /\ d[x] \in Int /\ d[x] = f[x] - g[x]
             /\ u[x] \in Nat /\ u[x] = h[x] - d[x]
             /\ v[x] \in Nat /\ v[x] = d[x] - z[x] /\ z[x] \in Int /\ o[x] \in Int /\ z[x] = o[x] - h[x] /\ o[x] = 0
  <2>1. f[x] \in Int /\ g[x] \in Int /\ h[x] \in Int /\ Abs(f[x] - g[x]) <= h[x]
    OBVIOUS
  <2>2. PICK a, b, c : a = f[x] /\ b = g[x] /\ c = h[x]
    OBVIOUS
  <2>3. d[x] = a - b /\ u[x] = c - (a - b) /\ v[x] = (a - b) - (-c) /\ z[x] = -c /\ o[x] = 0
    BY ONLY <1>1, <1>2, <1>3, <2>2, x \in S
  <2>4. a \in Int /\ b \in Int /\ c \in Int /\ Abs(a - b) <= c
    BY ONLY <2>1, <2>2
  <2>5. c - (a - b) \in Nat /\ (a - b) - (-c) \in Nat /\ -c = 0 - c /\ a - b \in Int /\ -c \in Int
    BY ONLY <2>4 DEF Abs
  <2> QED
    BY ONLY <2>1, <2>2, <2>3, <2>5
<1>5. PICK F, G, H, D, U, V, Z, O :
        /\ F = SumFunctionOnSet(f, S) /\ G = SumFunctionOnSet(g, S) /\ H = SumFunctionOnSet(h, S)
        /\ D = SumFunctionOnSet(d, S) /\ U = SumFunctionOnSet(u, S) /\ V = SumFunctionOnSet(v, S)
        /\ Z = SumFunctionOnSet(z, S) /\ O = SumFunctionOnSet(o, S)
  OBVIOUS
<1>6. D = F - G
  <2>1. \A x \in S : f[x] \in Int /\ g[x] \in Int /\ d[x] = f[x] - g[x]
    BY ONLY <1>4
  <2> QED
    BY ONLY <1>5, <2>1, SumDifference, IsFiniteSet(S)
<1>7. U = H - D
  <2>1. \A x \in S : h[x] \in Int /\ d[x] \in Int /\ u[x] = h[x] - d[x]
    BY ONLY <1>4
  <2> QED
    BY ONLY <1>5, <2>1, SumDifference, IsFiniteSet(S)
<1>8. V = D - Z
  <2>1. \A x \in S : d[x] \in Int /\ z[x] \in Int /\ v[x] = d[x] - z[x]
    BY ONLY <1>4
  <2> QED
    BY ONLY <1>5, <2>1, SumDifference, IsFiniteSet(S)
<1>9. Z = O - H /\ O = 0
  <2>1. \A x \in S : o[x] \in Int /\ h[x] \in Int /\ z[x] = o[x] - h[x]
    BY ONLY <1>4
  <2>2. \A x \in S : o[x] = 0
    BY ONLY <1>4
  <2>3. Z = O - H
    BY ONLY <1>5, <2>1, SumDifference, IsFiniteSet(S)
  <2>4. O = 0
    BY ONLY <1>5, <2>2, SumZero, IsFiniteSet(S)
  <2> QED
    BY ONLY <2>3, <2>4
<1>10. U \in Nat /\ V \in Nat
  <2>1. \A x \in S : u[x] \in Nat /\ v[x] \in Nat
    BY ONLY <1>4
  <2> QED
    BY ONLY <1>5, <2>1, SumNatural, IsFiniteSet(S)
<1>11. F \in Int /\ G \in Int /\ H \in Int
  <2>1. \A x \in S : f[x] \in Int /\ g[x] \in Int /\ h[x] \in Int
    BY ONLY <1>4
  <2> QED
    BY ONLY <1>5, <2>1, SumType, IsFiniteSet(S)
<1>12. Abs(F - G) <= H
  BY ONLY <1>6, <1>7, <1>8, <1>9, <1>10, <1>11 DEF Abs
<1> QED
  BY ONLY <1>5, <1>11, <1>12

\* Under PEPS the total is what is left in the lots of every product, to a unit per
\* piece received.
LEMMA LotsAreTheTotal ==
  ASSUME Inv, IsFiniteSet(Products), UsesPeps
  PROVE  Abs(TotalValue - SumFunction([i \in DOMAIN lots |-> lots[i].available * lots[i].cost]))
           <= SumFunction([p \in Products |-> Received(p)])
<1>1. PICK f, h, w, r, key, part, all :
        /\ f = [i \in DOMAIN lots |-> lots[i].available * lots[i].cost]
        /\ h = [p \in Products |-> ValuedItem(p, Len(kardex[p])).value]
        /\ w = [p \in Products |-> Worth(lots, p)]
        /\ r = [p \in Products |-> Received(p)]
        /\ key = [i \in DOMAIN lots |-> lots[i].product]
        /\ part = [p \in Products |-> LotsIn(lots, p)]
        /\ all = DOMAIN lots
  OBVIOUS
<1>2. lots \in Seq(LotRow)
  BY BooksAre
<1>3. IsFiniteSet(all) /\ \A i \in all : lots[i].product \in Products /\ f[i] \in Int
  <2>1. IsFiniteSet(all)
    BY <1>1, <1>2, ListIs
  <2>2. ASSUME NEW i \in all PROVE lots[i].product \in Products /\ f[i] \in Int
    <3>1. lots[i] \in LotRow
      BY <1>1, <1>2, <2>2, ListIs
    <3>2. PICK n, c : n = lots[i].available /\ c = lots[i].cost
      OBVIOUS
    <3>3. lots[i].product \in Products /\ n \in Nat /\ c \in Nat
      BY ONLY <3>1, <3>2, LotIs
    <3>4. f[i] = n * c
      BY ONLY <1>1, <2>2, <3>2
    <3>5. n * c \in Int
      BY ONLY <3>3
    <3> QED
      BY ONLY <3>3, <3>4, <3>5
  <2> QED
    BY ONLY <2>1, <2>2
<1>4. InParts(all, Products, key, part)
  BY ONLY <1>1, <1>3 DEF InParts, LotsIn
<1>5. \A p \in Products : w[p] = SumFunctionOnSet(f, part[p])
  BY ONLY <1>1 DEF Worth
<1>6. SumFunctionOnSet(f, all) = SumFunctionOnSet(w, Products)
  <2>1. \A i \in all : f[i] \in Int
    BY ONLY <1>3
  <2> QED
    BY ONLY <1>3, <1>4, <1>5, <2>1, IsFiniteSet(Products), SumParts
<1>7. ASSUME NEW p \in Products
      PROVE  h[p] \in Int /\ w[p] \in Int /\ r[p] \in Int /\ Abs(h[p] - w[p]) <= r[p]
  <2>1. PICK k, a, v, n : k = kardex[p] /\ a = Worth(lots, p) /\ v = Balance(k).value /\ n = Received(p)
    OBVIOUS
  <2>2. k \in Seq(EntryRow) /\ GoodFor(UsesPeps, documents, k, lots, p)
    BY <2>1, BooksAre
  <2>3. h[p] = v
    BY ONLY <1>1, <1>7, <2>1, Inv, ValuedIs
  <2>4. w[p] = a /\ r[p] = n
    BY ONLY <1>1, <1>7, <2>1
  <2>5. n = In(k, OfLots(k))
    BY ONLY <2>1 DEF Received, In, OfLots
  <2>6. a - v <= n /\ v - a <= n
    BY ONLY UsesPeps, <2>1, <2>2, <2>5 DEF GoodFor, Valued, Near
  <2>7. a \in Int /\ v \in Int
    BY ONLY <1>2, <2>1, <2>2, WorthType, BalanceType
  <2>8. n \in Int
    <3>1. OfLots(k) \in SUBSET (DOMAIN k)
      BY ONLY DEF OfLots
    <3>2. In(k, OfLots(k)) \in Nat
      BY ONLY <2>2, <3>1, SumsAre
    <3> QED
      BY ONLY <2>5, <3>2
  <2>9. Abs(v - a) <= n
    BY ONLY <2>6, <2>7, <2>8 DEF Abs
  <2> QED
    BY ONLY <2>3, <2>4, <2>7, <2>8, <2>9
<1>8. Abs(SumFunctionOnSet(h, Products) - SumFunctionOnSet(w, Products)) <= SumFunctionOnSet(r, Products)
  BY ONLY <1>7, IsFiniteSet(Products), SumsClose
<1>9. /\ SumFunction(f) = SumFunctionOnSet(f, all)
      /\ SumFunction(h) = SumFunctionOnSet(h, Products)
      /\ SumFunction(r) = SumFunctionOnSet(r, Products)
  <2>1. DOMAIN f = all /\ DOMAIN h = Products /\ DOMAIN r = Products
    BY ONLY <1>1
  <2> QED
    BY ONLY <2>1 DEF SumFunction, SumFunctionOnSet, FoldFunction
<1>10. TotalValue = SumFunction(h)
  BY ONLY <1>1 DEF TotalValue
<1> QED
  BY ONLY <1>1, <1>6, <1>8, <1>9, <1>10

LEMMA Valuation == ASSUME Inv, IsFiniteSet(Products) PROVE ValuationAgrees
<1>1. ASSUME NEW p \in Products PROVE ValuedItem(p, Len(kardex[p])).stock = ReportStock[p]
  BY ONLY Inv, <1>1, ValuedIs DEF ReportStock
<1>2. UsesPeps =>
        Abs(TotalValue - SumFunction([i \in DOMAIN lots |-> lots[i].available * lots[i].cost]))
          <= SumFunction([p \in Products |-> Received(p)])
  BY LotsAreTheTotal
<1> QED
  BY ONLY <1>1, <1>2 DEF ValuationAgrees

-----------------------------------------------------------------------------
(* The reports.                                                            *)

\* The Kardex of a product adds up over every range of its entries for which a client
\* of /reports/kardex may ask, also across voids and a change of method.
THEOREM RangesAddUp ==
  ASSUME Regular
  PROVE  Spec => [](\A p \in Products : \A first \in DOMAIN kardex[p] :
                      \A last \in first..Len(kardex[p]) :
                        AddsUp(ReportKardex(p, first, last), first, last))
<1>1. Spec => []Inv
  BY BooksKept
<1>2. Inv => \A p \in Products : \A first \in DOMAIN kardex[p] :
               \A last \in first..Len(kardex[p]) :
                 AddsUp(ReportKardex(p, first, last), first, last)
  BY RangeAddsUp
<1> QED
  BY <1>1, <1>2, PTL

\* The lists of documents read page by page, the valuation, and the Kardex of each
\* product give the same stock; under PEPS the valuation is what the lots cost, to a
\* unit per piece received.
THEOREM DocumentReportsAgree ==
  ASSUME Regular, IsFiniteSet(Products)
  PROVE  Spec => []ReportsAgree
<1>1. Spec => []Inv
  BY BooksKept
<1>2. Inv => ReportsAgree
  BY ListsExplain, Valuation, KardexAdds DEF ReportsAgree
<1> QED
  BY <1>1, <1>2, PTL
=============================================================================
