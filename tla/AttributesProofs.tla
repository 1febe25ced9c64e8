--------------------------- MODULE AttributesProofs ---------------------------
(***************************************************************************)
(* For any tree, attributes, catalogs, values and products: what a person  *)
(* entered is never dropped unread, names find one thing, catalogs in use  *)
(* stay.                                                                   *)
(*                                                                         *)
(* A value counts as kept while a VERSION of it is: Faithful says that     *)
(* what a product holds is what successful conversions made of what was    *)
(* entered, so a value that a change of type takes out goes to the queue   *)
(* as one more version.  What a conversion rewrites stays rewritten.  Names*)
(* need the shape of the tree: a line of ancestors is a chain, so the      *)
(* attributes of one name on it have one nearest to the root, and a move   *)
(* adds to a line only the line of the new parent.                         *)
(***************************************************************************)
EXTENDS Attributes, Sums, TLAPS

USE AttributesAssumption, NilAssumption

\* Nothing is no value and no row.
LEMMA NilIsNone ==
  Nil \notin Value /\ Nil \notin Strings /\ Nil \notin Attribute /\ Nil \notin Catalog
  /\ Nil \notin Attrs /\ Nil \notin Catalogs
OBVIOUS

-----------------------------------------------------------------------------
(* The tree.                                                               *)

Tree == parent \in [Cats -> Cats \cup {Nil}]

\* A category is in its own line (get_ancestor_ids, and the category appended).
LEMMA LineSelf == ASSUME NEW d \in Cats PROVE d \in Line(d)
BY DEF Line

\* With a category its parent is in the line.
LEMMA LineParent ==
  ASSUME Tree, NEW d, NEW e \in Line(d), parent[e] # Nil PROVE parent[e] \in Line(d)
BY DEF Line, Tree

\* Whatever holds a category and, with each, its parent holds the line.
LEMMA LineSmallest ==
  ASSUME NEW d, NEW S \in SUBSET Cats, d \in S, \A e \in S : parent[e] \in S \cup {Nil}
  PROVE  Line(d) \subseteq S
BY DEF Line

\* Lines are sets of categories.
LEMMA LineType == ASSUME NEW d PROVE Line(d) \in SUBSET Cats
BY DEF Line

\* The ancestors of an ancestor are ancestors.
LEMMA LineOfAncestor ==
  ASSUME Tree, NEW d, NEW e \in Line(d) PROVE Line(e) \subseteq Line(d)
<1>1. \A x \in Line(d) : parent[x] \in Line(d) \cup {Nil}
  BY LineParent
<1> QED
  BY <1>1, LineSmallest, LineType

\* A line is the category and the line of its parent.
LEMMA LineStep ==
  ASSUME Tree, NEW d \in Cats
  PROVE  Line(d) \subseteq {d} \cup (IF parent[d] = Nil THEN {} ELSE Line(parent[d]))
<1> DEFINE S == {d} \cup (IF parent[d] = Nil THEN {} ELSE Line(parent[d]))
<1>1. S \in SUBSET Cats
  BY LineType
<1>2. \A e \in S : parent[e] \in S \cup {Nil}
  <2> SUFFICES ASSUME NEW e \in S, parent[e] # Nil PROVE parent[e] \in S
    OBVIOUS
  <2>1. CASE e = d
    <3>1. parent[d] \in Cats
      BY <2>1 DEF Tree
    <3> QED
      BY <2>1, <3>1, LineSelf
  <2>2. CASE e # d
    BY <2>2, LineParent
  <2> QED
    BY <2>1, <2>2
<1> HIDE DEF S
<1>3. d \in S
  BY DEF S
<1>4. Line(d) \subseteq S
  BY <1>1, <1>2, <1>3, LineSmallest
<1> QED
  BY <1>4 DEF S

\* Of two ancestors of one category one is an ancestor of the other.
LEMMA LineIsChain ==
  ASSUME Tree, NEW d \in Cats, NEW x \in Line(d), NEW y \in Line(d)
  PROVE  x \in Line(y) \/ y \in Line(x)
<1> DEFINE S == {z \in Line(d) : x \in Line(z) \/ z \in Line(x)}
<1>1. S \in SUBSET Cats /\ d \in S
  BY LineType, LineSelf
<1>2. \A e \in S : parent[e] \in S \cup {Nil}
  <2> SUFFICES ASSUME NEW e \in S, parent[e] # Nil PROVE parent[e] \in S
    OBVIOUS
  <2>1. parent[e] \in Line(d) /\ e \in Cats
    BY LineParent, LineType
  <2>2. CASE e \in Line(x)
    BY <2>1, <2>2, LineParent
  <2>3. CASE x \in Line(e)
    <3>1. x = e \/ x \in Line(parent[e])
      BY <2>1, <2>3, LineStep
    <3>2. x = e => e \in Line(x)
      BY <2>3
    <3> QED
      BY <2>1, <2>2, <3>1, <3>2
  <2> QED
    BY <2>2, <2>3
<1> HIDE DEF S
<1>3. Line(d) \subseteq S
  BY <1>1, <1>2, LineSmallest
<1> QED
  BY <1>3 DEF S

\* A move gives a category no new ancestor but, below what was moved, those of
\* the new parent (update_category, _validate_move).
LEMMA LineMoved ==
  ASSUME Tree, NEW c \in Cats, NEW par \in Cats \cup {Nil}, par \notin Branch(c),
         parent' = [parent EXCEPT ![c] = par], NEW d \in Cats, NEW x \in Line(d)'
  PROVE  x \in Line(d) \/ (c \in Line(d) /\ par # Nil /\ x \in Line(par))
<1> DEFINE S == Line(d) \cup (IF c \in Line(d) /\ par # Nil THEN Line(par) ELSE {})
<1>1. S \in SUBSET Cats /\ d \in S
  BY LineType, LineSelf
<1>2. \A e \in S : parent'[e] \in S \cup {Nil}
  <2> SUFFICES ASSUME NEW e \in S, parent'[e] # Nil PROVE parent'[e] \in S
    OBVIOUS
  <2>1. e \in Cats
    BY <1>1
  <2>2. CASE e = c
    <3>1. parent'[e] = par /\ par \in Cats
      BY <2>1, <2>2 DEF Tree
    <3>2. par \in Line(par) /\ c \notin Line(par)
      BY <3>1, LineSelf DEF Branch
    <3> QED
      BY <2>2, <3>1, <3>2
  <2>3. CASE e # c
    <3>1. parent'[e] = parent[e]
      BY <2>1, <2>3 DEF Tree
    <3> QED
      BY <3>1, LineParent
  <2> QED
    BY <2>2, <2>3
<1> HIDE DEF S
<1>3. Line(d)' \subseteq S
  BY <1>1, <1>2 DEF Line
<1> QED
  BY <1>3 DEF S

\* If a name is taken on a line, the line inherits it from somewhere: one of its
\* holders is nearest to the root (get_inherited_attributes).
LEMMA SomeInherited ==
  ASSUME Tree, IsFiniteSet(Cats), NEW n, NEW p \in Cats, NEW h \in Holders(n, Line(p))
  PROVE  Inherited(n, p) # {}
<1> DEFINE H == Holders(n, Line(p))
<1> DEFINE Bad == {Line(attribute[b].category) : b \in H}
<1>1. \A b \in H : attribute[b].category \in Line(p)
  BY DEF Holders
<1>2. \A b \in H : IsFiniteSet(Line(attribute[b].category))
  BY LineType, FS_Subset
<1>3. Bad \subseteq FiniteSubsetsOf(Cats)
  BY <1>2, LineType DEF FiniteSubsetsOf
<1>4. PICK s \in Bad : \A t \in SUBSET s : t # s => t \notin Bad
  <2>1. Bad # {}
    OBVIOUS
  <2> HIDE DEF Bad
  <2> QED
    BY <1>3, <2>1, SmallestSet
<1>5. PICK a \in H : s = Line(attribute[a].category)
  OBVIOUS
<1>6. ASSUME NEW b \in H PROVE attribute[a].category \in Line(attribute[b].category)
  <2> DEFINE x == attribute[a].category
             y == attribute[b].category
  <2>1. x \in Line(p) /\ y \in Line(p) /\ x \in Cats /\ y \in Cats
    BY <1>1, <1>6, LineType
  <2>2. CASE y \in Line(x)
    <3>1. Line(y) \subseteq Line(x)
      BY <2>2, LineOfAncestor
    <3>2. Line(y) \in Bad
      BY <1>6
    <3>3. Line(y) = Line(x)
      BY <1>4, <1>5, <3>1, <3>2
    <3> QED
      BY <2>1, <3>3, LineSelf
  <2> QED
    BY <2>1, <2>2, LineIsChain
<1> QED
  BY <1>5, <1>6 DEF Inherited

-----------------------------------------------------------------------------
(* Catalogs.                                                               *)

\* Of the active catalogs no two have one name.
OneCatalogPerName == \A n \in Names : \A k, m \in Named(n) : k = m

\* What a request about catalogs, or an attribute that creates or reuses one,
\* leaves of them.
CatalogsKept ==
  /\ catalog' \in [Catalogs -> Catalog \cup {Nil}]
  /\ shown' \in [Catalogs -> [Strings -> 0..MaxRows]]
  /\ hidden' \in [Catalogs -> [Strings -> 0..MaxRows]]
  /\ OneCatalogPerName => OneCatalogPerName'
  /\ \A k \in Catalogs : OnSale(k) /\ UsersOf(k) # {} => OnSale(k)'

\* A new catalog of a free name.
LEMMA NewCatalogKeeps ==
  ASSUME TypeOK, NEW k \in Catalogs, NEW n \in Names, catalog[k] = Nil, Named(n) = {},
         catalog' = [catalog EXCEPT ![k] = NewCatalog(n)]
  PROVE  /\ catalog' \in [Catalogs -> Catalog \cup {Nil}] /\ OnSale(k)'
         /\ OneCatalogPerName => OneCatalogPerName'
         /\ \A m \in Catalogs : OnSale(m) => OnSale(m)'
<1>1. NewCatalog(n) \in Catalog /\ NewCatalog(n).active = TRUE /\ NewCatalog(n).name = n
  BY DEF NewCatalog, Catalog
<1>2. NewCatalog(n) # Nil
  BY <1>1
<1>3. /\ catalog'[k] = NewCatalog(n) /\ catalog' \in [Catalogs -> Catalog \cup {Nil}]
      /\ \A m \in Catalogs : m # k => catalog'[m] = catalog[m]
  BY <1>1 DEF TypeOK
<1>4. OnSale(k)' /\ \A m \in Catalogs : m # k => (OnSale(m)' <=> OnSale(m))
  BY <1>1, <1>2, <1>3 DEF OnSale
<1>5. ~OnSale(k)
  BY DEF OnSale
<1>6. ASSUME OneCatalogPerName, NEW o \in Names, NEW x \in Named(o)', NEW y \in Named(o)'
      PROVE  x = y
  <2>1. \A z \in Catalogs : z \in Named(o)' /\ z # k => z \in Named(o)
    BY <1>3, <1>4 DEF Named
  <2>2. k \in Named(o)' => o = n
    BY <1>1, <1>3 DEF Named
  <2>3. x \in Catalogs /\ y \in Catalogs
    BY DEF Named
  <2>4. CASE k \in Named(o)'
    BY <2>1, <2>2, <2>3, <2>4, <1>6
  <2>5. CASE k \notin Named(o)'
    BY <2>1, <2>3, <2>5, <1>6 DEF OneCatalogPerName
  <2> QED
    BY <2>4, <2>5
<1>7. OneCatalogPerName => OneCatalogPerName'
  BY <1>6 DEF OneCatalogPerName
<1> QED
  BY <1>3, <1>4, <1>5, <1>7

\* Creating a catalog or reusing the one of that name (_resolve_or_create_catalog).
LEMMA ResolveOrCreateKeeps ==
  ASSUME TypeOK, NEW k \in Catalogs, NEW n \in Names, NEW seeds, ResolveOrCreate(k, n, seeds)
  PROVE  CatalogsKept /\ OnSale(k)'
<1>1. /\ shown' \in [Catalogs -> [Strings -> 0..MaxRows]]
      /\ hidden' \in [Catalogs -> [Strings -> 0..MaxRows]]
  <2>1. 1 \in 0..MaxRows
    OBVIOUS
  <2>2. [s \in Strings |-> IF s \in seeds /\ shown[k][s] + hidden[k][s] = 0 THEN 1 ELSE shown[k][s]]
        \in [Strings -> 0..MaxRows]
    BY <2>1 DEF TypeOK
  <2> QED
    BY <2>2 DEF TypeOK, ResolveOrCreate
<1>2. CASE Named(n) # {}
  <2>1. k \in Named(n) /\ catalog' = catalog
    BY <1>2 DEF ResolveOrCreate
  <2>2. OneCatalogPerName => OneCatalogPerName'
    BY <2>1 DEF OneCatalogPerName, Named, OnSale
  <2> QED
    BY <1>1, <2>1, <2>2 DEF CatalogsKept, TypeOK, Named, OnSale
<1>3. CASE Named(n) = {}
  <2>1. catalog[k] = Nil /\ catalog' = [catalog EXCEPT ![k] = NewCatalog(n)]
    BY <1>3 DEF ResolveOrCreate
  <2> QED
    BY <1>1, <1>3, <2>1, NewCatalogKeeps DEF CatalogsKept
<1> QED
  BY <1>2, <1>3

\* The endpoints under /catalogs change catalogs and nothing else.
LEMMA CatalogSteps ==
  ASSUME TypeOK, CatalogRequests
  PROVE  CatalogsKept /\ Serve /\ OnlyCatalogs
<1>1. ASSUME NEW k \in Catalogs, NEW n \in Names, CreateCatalog(k, n)
      PROVE  CatalogsKept /\ Serve /\ OnlyCatalogs
  BY <1>1, NewCatalogKeeps DEF CreateCatalog, CatalogsKept, TypeOK
<1>2. ASSUME NEW k \in Catalogs, NEW n \in Names, UpdateCatalog(k, n)
      PROVE  CatalogsKept /\ Serve /\ OnlyCatalogs
  <2>1. catalog[k] \in Catalog /\ catalog[k] # Nil /\ Named(n) \subseteq {k}
    BY <1>2 DEF UpdateCatalog, OnSale, TypeOK
  <2>2. catalog'[k] = [name |-> n, active |-> catalog[k].active]
    BY <1>2, <2>1 DEF UpdateCatalog, TypeOK, Catalog
  <2>3. catalog'[k] \in Catalog
    BY <2>1, <2>2 DEF Catalog
  <2>4. \A m \in Catalogs : m # k => catalog'[m] = catalog[m]
    BY <1>2 DEF UpdateCatalog, TypeOK
  <2>5. catalog' \in [Catalogs -> Catalog \cup {Nil}]
    <3>1. catalog' = [m \in Catalogs |-> catalog'[m]]
      BY <1>2 DEF UpdateCatalog, TypeOK
    <3> QED
      BY <2>3, <2>4, <3>1 DEF TypeOK
  <2>6. \A m \in Catalogs : OnSale(m)' <=> OnSale(m)
    <3>1. catalog'[k] # Nil /\ catalog'[k].active = catalog[k].active
      BY <2>2, <2>3
    <3> QED
      BY <2>1, <2>4, <3>1 DEF OnSale
  <2>7. ASSUME OneCatalogPerName, NEW o \in Names, NEW x \in Named(o)', NEW y \in Named(o)'
        PROVE  x = y
    <3>1. x \in Catalogs /\ y \in Catalogs
      BY DEF Named
    <3>2. \A z \in Catalogs : z \in Named(o)' /\ z # k => z \in Named(o)
      BY <2>4, <2>6 DEF Named
    <3>3. k \in Named(o)' => o = n
      BY <2>2 DEF Named
    <3> QED
      BY <2>1, <2>7, <3>1, <3>2, <3>3 DEF OneCatalogPerName
  <2>8. OneCatalogPerName => OneCatalogPerName'
    BY ONLY <2>7 DEF OneCatalogPerName
  <2>9. /\ shown' \in [Catalogs -> [Strings -> 0..MaxRows]]
        /\ hidden' \in [Catalogs -> [Strings -> 0..MaxRows]]
    BY <1>2 DEF UpdateCatalog, TypeOK
  <2> QED
    BY <1>2, <2>5, <2>6, <2>8, <2>9 DEF CatalogsKept, UpdateCatalog
<1>3. ASSUME NEW k \in Catalogs, DeleteCatalog(k)
      PROVE  CatalogsKept /\ Serve /\ OnlyCatalogs
  <2>1. catalog[k] \in Catalog /\ catalog[k] # Nil /\ UsersOf(k) = {}
    BY <1>3 DEF DeleteCatalog, OnSale, TypeOK
  <2>2. catalog'[k] \in Catalog /\ catalog'[k].active = FALSE
    <3>1. catalog'[k] = [catalog[k] EXCEPT !.active = FALSE]
      BY <1>3 DEF DeleteCatalog, TypeOK
    <3> QED
      BY ONLY <2>1, <3>1 DEF Catalog
  <2>3. \A m \in Catalogs : m # k => catalog'[m] = catalog[m]
    BY <1>3 DEF DeleteCatalog, TypeOK
  <2>4. catalog' \in [Catalogs -> Catalog \cup {Nil}]
    <3>1. catalog' = [m \in Catalogs |-> catalog'[m]]
      BY <1>3 DEF DeleteCatalog, TypeOK
    <3> QED
      BY <2>2, <2>3, <3>1 DEF TypeOK
  <2>5. ~OnSale(k)' /\ \A m \in Catalogs : m # k => (OnSale(m)' <=> OnSale(m))
    BY <2>2, <2>3 DEF OnSale
  <2>6. \A o \in Names : Named(o)' \subseteq Named(o)
    BY <2>3, <2>5 DEF Named
  <2>7. OneCatalogPerName => OneCatalogPerName'
    BY <2>6 DEF OneCatalogPerName
  <2> QED
    BY <1>3, <2>1, <2>4, <2>5, <2>7 DEF CatalogsKept, DeleteCatalog, TypeOK
<1>4. ASSUME UNCHANGED catalog, shown' \in [Catalogs -> [Strings -> 0..MaxRows]],
             hidden' \in [Catalogs -> [Strings -> 0..MaxRows]]
      PROVE  CatalogsKept
  BY <1>4 DEF CatalogsKept, TypeOK, OneCatalogPerName, Named, OnSale
<1>5. ASSUME NEW k \in Catalogs, NEW s \in Strings, AddValue(k, s)
      PROVE  CatalogsKept /\ Serve /\ OnlyCatalogs
  <2>1. 1 \in 0..MaxRows
    OBVIOUS
  <2>2. shown' \in [Catalogs -> [Strings -> 0..MaxRows]]
    BY <1>5, <2>1 DEF AddValue, TypeOK
  <2> QED
    BY <1>4, <1>5, <2>2 DEF AddValue, TypeOK
<1>6. ASSUME NEW k \in Catalogs, NEW s \in Strings, DeactivateValue(k, s)
      PROVE  CatalogsKept /\ Serve /\ OnlyCatalogs
  <2>1. shown[k][s] - 1 \in 0..MaxRows /\ hidden[k][s] + 1 \in 0..MaxRows
    BY <1>6 DEF DeactivateValue, TypeOK
  <2>2. /\ shown' \in [Catalogs -> [Strings -> 0..MaxRows]]
        /\ hidden' \in [Catalogs -> [Strings -> 0..MaxRows]]
    BY <1>6, <2>1 DEF DeactivateValue, TypeOK
  <2> QED
    BY <1>4, <1>6, <2>2 DEF DeactivateValue
<1>7. ASSUME NEW k \in Catalogs, NEW s \in Strings, ReactivateValue(k, s)
      PROVE  CatalogsKept /\ Serve /\ OnlyCatalogs
  <2>1. shown[k][s] + 1 \in 0..MaxRows /\ hidden[k][s] - 1 \in 0..MaxRows
    BY <1>7 DEF ReactivateValue, TypeOK
  <2>2. /\ shown' \in [Catalogs -> [Strings -> 0..MaxRows]]
        /\ hidden' \in [Catalogs -> [Strings -> 0..MaxRows]]
    BY <1>7, <2>1 DEF ReactivateValue, TypeOK
  <2> QED
    BY <1>4, <1>7, <2>2 DEF ReactivateValue
<1>8. ASSUME NEW k \in Catalogs, NEW s \in Strings, NEW t \in Strings, UpdateValue(k, s, t)
      PROVE  CatalogsKept /\ Serve /\ OnlyCatalogs
  <2>1. CASE shown[k][s] > 0 /\ shown' = [shown EXCEPT ![k][s] = @ - 1, ![k][t] = 1] /\ UNCHANGED hidden
    <3>1. shown[k][s] - 1 \in 0..MaxRows /\ 1 \in 0..MaxRows
      BY <2>1 DEF TypeOK
    <3>2. shown' \in [Catalogs -> [Strings -> 0..MaxRows]]
      BY <2>1, <3>1 DEF TypeOK
    <3> QED
      BY <1>4, <1>8, <2>1, <3>2 DEF UpdateValue, TypeOK
  <2>2. CASE /\ hidden[k][s] > 0 /\ hidden' = [hidden EXCEPT ![k][s] = @ - 1, ![k][t] = @ + 1]
             /\ UNCHANGED shown
    <3>1. hidden[k][s] - 1 \in 0..MaxRows /\ hidden[k][t] + 1 \in 0..MaxRows /\ s # t
      BY <1>8, <2>2 DEF TypeOK, UpdateValue
    <3>2. hidden' \in [Catalogs -> [Strings -> 0..MaxRows]]
      BY <2>2, <3>1 DEF TypeOK
    <3> QED
      BY <1>4, <1>8, <2>2, <3>2 DEF UpdateValue, TypeOK
  <2> QED
    BY <1>8, <2>1, <2>2 DEF UpdateValue
<1> QED
  BY <1>1, <1>2, <1>3, <1>5, <1>6, <1>7, <1>8 DEF CatalogRequests

-----------------------------------------------------------------------------
(* Values.                                                                 *)

\* What a product holds is a version of what was entered; null was not entered.
Means(v, e) == IF v = Empty THEN e = Nil ELSE e # Nil /\ Kept(v.str, e)

Faithful ==
  \A p \in Products, n \in Names : custom[p][n] # Nil => Means(custom[p][n], entered[p][n])

\* A value that waits in the queue, a version of what was entered.
Waits(p, n) ==
  \E r \in Row : /\ queue[r] > 0 /\ r.product = p /\ r.name = n
                 /\ Kept(r.old, entered[p][n])

\* The queue asks about attributes that exist (ON DELETE CASCADE).
Asked == \A r \in Row : queue[r] > 0 => Exists(r.attribute)

\* The inductive invariant of the values.
VInv == TypeOK /\ Asked /\ Faithful /\ NothingLost

\* A value is null or a text, a number or a boolean with its text.
LEMMA ValueIs ==
  /\ Empty \in Value
  /\ \A v \in Value : v # Empty => v.str \in Strings
  /\ \A v : v = Empty => v.json = "null"
  /\ \A s \in Strings : [json |-> "string", str |-> s] \in Value
  /\ \A s \in Strings : [json |-> "number", str |-> s] \in Value
  /\ \A s \in Strings \cap {"True", "False"} : [json |-> "boolean", str |-> s] \in Value
<1>1. \A v : v = Empty => v.json = "null"
  BY DEF Empty
<1> QED
  BY <1>1 DEF Value

\* A text is a version of itself.
LEMMA KeptItself == ASSUME NEW s \in Strings PROVE Kept(s, s)
BY DEF Kept, Versions

\* What a type in use makes of a version is a version.
LEMMA KeptRead ==
  ASSUME NEW s \in Strings, NEW t \in Strings, Kept(t, s), NEW type \in Types \cap Parsed,
         Reading[type][t] # Nil
  PROVE  Kept(Reading[type][t], s)
<1>1. Reading[type][t] \in Strings
  OBVIOUS
<1>2. ASSUME NEW S \in SUBSET Strings, s \in S, Closed(S) PROVE Reading[type][t] \in S
  <2>1. t \in S
    BY <1>2 DEF Kept, Versions
  <2> QED
    BY <1>2, <2>1 DEF Closed
<1> QED
  BY <1>1, <1>2 DEF Kept, Versions

\* A conversion gives a version of the value or none (_cast_attribute_value).
LEMMA CastIs ==
  ASSUME NEW v \in Value, NEW type \in Types, NEW list
  PROVE  /\ Cast(v, type, list) \in Value \cup {Nil}
         /\ v = Empty => Cast(v, type, list) = Empty
         /\ v # Empty => Cast(v, type, list) = Nil \/
              (/\ Cast(v, type, list) # Empty
               /\ \A e \in Strings : Kept(v.str, e) => Kept(Cast(v, type, list).str, e))
<1>1. CASE v = Empty
  BY <1>1, ValueIs DEF Cast
<1>2. CASE v # Empty
  <2> DEFINE w == Cast(v, type, list)
  <2>1. v.str \in Strings
    BY <1>2, ValueIs
  <2>2. CASE type \notin Parsed
    <3>1. w = Nil \/ w = [json |-> "string", str |-> v.str]
      BY <1>2, <2>2 DEF Cast
    <3>2. w # Nil => w # Empty /\ w.str = v.str /\ w \in Value
      BY <2>1, <3>1, ValueIs
    <3> QED
      BY <1>2, <3>2
  <2>3. CASE type \in Parsed
    <3>1. PICK t \in Strings \cup {Nil} : t = Reading[type][v.str] /\ t = Read(v, type)
      BY <1>2, <2>1, <2>3 DEF Read
    <3>2. CASE t = Nil
      <4>1. w = Nil
        BY <1>2, <2>3, <3>1, <3>2 DEF Cast
      <4> QED
        BY <1>2, <4>1
    <3>3. CASE t # Nil
      <4>1. w = [json |-> JsonOf(type), str |-> t]
        BY <1>2, <2>3, <3>1, <3>3 DEF Cast
      <4>2. type = "boolean" => t \in {"True", "False"}
        BY <2>1, <3>1, <3>3
      <4>3. JsonOf(type) \in {"string", "number"} \/ (JsonOf(type) = "boolean" /\ type = "boolean")
        BY DEF JsonOf
      <4>4. w \in Value
        BY <3>1, <3>3, <4>1, <4>2, <4>3, ValueIs
      <4>5. w # Empty /\ w.str = t /\ w # Nil
        BY <4>1, <4>3, <4>4, ValueIs, NilIsNone
      <4>6. \A e \in Strings : Kept(v.str, e) => Kept(t, e)
        <5> SUFFICES ASSUME NEW e \in Strings, Kept(v.str, e) PROVE Kept(t, e)
          OBVIOUS
        <5>1. PICK s \in Strings : s = v.str
          BY <2>1
        <5>2. Kept(s, e) /\ t = Reading[type][s] /\ type \in Types \cap Parsed
          BY <2>3, <3>1, <5>1
        <5>3. Reading[type][s] # Nil
          BY <3>3, <5>2
        <5>4. Kept(Reading[type][s], e)
          BY ONLY <5>2, <5>3, KeptRead
        <5> QED
          BY <5>2, <5>4
      <4> QED
        BY <1>2, <4>4, <4>5, <4>6
    <3> QED
      BY <3>2, <3>3
  <2> QED
    BY <2>2, <2>3
<1> QED
  BY <1>1, <1>2

\* Nothing is lost where something is held that means what was entered.
LEMMA HeldIsKept ==
  ASSUME Faithful, NEW p \in Products, NEW n \in Names, entered[p][n] # Nil, custom[p][n] # Nil
  PROVE  custom[p][n] # Empty /\ Kept(custom[p][n].str, entered[p][n])
BY DEF Faithful, Means

\* What was entered is held or waits.
LEMMA LostMeans ==
  NothingLost <=> \A p \in Products, n \in Names : entered[p][n] # Nil =>
    \/ custom[p][n] # Nil /\ Kept(custom[p][n].str, entered[p][n])
    \/ Waits(p, n)
BY DEF NothingLost, Waits

\* What a change of type leaves of a value in its product.
Converted(v, type, list) ==
  IF Cast(v, type, list) = Nil THEN Nil ELSE Stored(Cast(v, type, list))

\* It means the same, and is there unless it could not be converted.
LEMMA ConvertedIs ==
  ASSUME NEW v \in Value, NEW type \in Types, NEW list, NEW e \in Strings \cup {Nil},
         Means(v, e)
  PROVE  /\ Converted(v, type, list) \in Value \cup {Nil}
         /\ Converted(v, type, list) # Nil => Means(Converted(v, type, list), e)
         /\ e # Nil /\ Cast(v, type, list) # Nil => Converted(v, type, list) # Nil
<1> DEFINE w == Cast(v, type, list)
<1>1. w \in Value \cup {Nil} /\ (v = Empty => w = Empty)
      /\ (v # Empty => w = Nil \/ (w # Empty /\ \A s \in Strings : Kept(v.str, s) => Kept(w.str, s)))
  BY CastIs
<1> HIDE DEF w
<1>2. Stored(w) \in Value \cup {Nil} /\ (w # Nil /\ Stored(w) # Nil => Means(Stored(w), e))
      /\ (e # Nil /\ w # Nil => Stored(w) # Nil)
  BY <1>1, NilIsNone DEF Stored, Means
<1> QED
  BY <1>2 DEF Converted, w

\* A change of type, value by value.
LEMMA MigrateWrites ==
  ASSUME TypeOK, NEW a \in Attrs, NEW n \in Names, n = attribute[a].name,
         NEW type, NEW list, Migrate(a, type, list)
  PROVE  /\ custom' = [p \in Products |-> custom'[p]]
         /\ \A p \in Products : custom'[p] = [m \in Names |-> custom'[p][m]]
         /\ \A p \in Products, m \in Names : custom'[p][m] =
              IF p \in Affected(a) /\ m = n THEN Converted(custom[p][n], type, list) ELSE custom[p][m]
         /\ queue' \in [Row -> 0..MaxRows]
         /\ \A r \in Row : queue[r] > 0 => queue'[r] > 0
         /\ \A r \in Row : queue'[r] > 0 => queue[r] > 0 \/ r.attribute = a
         /\ \A p \in Lost(a, type, list) : RowOf(p, a) \in Row => queue'[RowOf(p, a)] > 0
<1> DEFINE rows == {RowOf(p, a) : p \in Queued(a, type, list)}
<1>1. /\ \A r \in rows : queue[r] < MaxRows
      /\ queue' = [r \in Row |-> IF r \in rows THEN queue[r] + 1 ELSE queue[r]]
  BY DEF Migrate
<1>2. custom' = [p \in Products |-> IF p \notin Affected(a) THEN custom[p]
                   ELSE [custom[p] EXCEPT ![n] = Converted(custom[p][n], type, list)]]
  BY DEF Migrate, Converted
<1>3. \A p \in Products : custom[p] \in [Names -> Value \cup {Nil}]
  BY DEF TypeOK
<1>4. ASSUME NEW p \in Products
      PROVE  /\ custom'[p] = [m \in Names |-> custom'[p][m]]
             /\ \A m \in Names : custom'[p][m] =
                  IF p \in Affected(a) /\ m = n THEN Converted(custom[p][n], type, list) ELSE custom[p][m]
  <2>1. CASE p \notin Affected(a)
    BY ONLY <1>2, <1>3, <2>1
  <2>2. CASE p \in Affected(a)
    <3> DEFINE x == Converted(custom[p][n], type, list)
    <3>1. custom'[p] = [custom[p] EXCEPT ![n] = x]
      BY <1>2, <2>2
    <3> HIDE DEF x
    <3>2. custom'[p] = [m \in Names |-> custom'[p][m]]
          /\ \A m \in Names : custom'[p][m] = IF m = n THEN x ELSE custom[p][m]
      BY ONLY <1>3, <3>1, p \in Products, n \in Names
    <3> QED
      BY ONLY <2>2, <3>2 DEF x
  <2> QED
    BY <2>1, <2>2
<1>5. custom' = [p \in Products |-> custom'[p]]
  BY <1>2
<1>6. \A r \in rows : r.attribute = a
  BY DEF RowOf
<1>7. \A p \in Lost(a, type, list) : RowOf(p, a) \in rows
  BY DEF Queued
<1>8. queue \in [Row -> 0..MaxRows]
  BY DEF TypeOK
<1> HIDE DEF rows
<1>9. /\ queue' \in [Row -> 0..MaxRows]
      /\ \A r \in Row : queue[r] > 0 => queue'[r] > 0
      /\ \A r \in Row : r \in rows => queue'[r] > 0
      /\ \A r \in Row : queue'[r] > 0 => queue[r] > 0 \/ r \in rows
  BY <1>1, <1>8
<1> QED
  BY <1>4, <1>5, <1>6, <1>7, <1>9

\* A change of type moves what it cannot convert to the queue (_migrate_attribute_type).
LEMMA MigrateKeeps ==
  ASSUME VInv, NEW a \in Attrs, Exists(a), NEW type \in Types, NEW list,
         Migrate(a, type, list), UNCHANGED entered
  PROVE  /\ custom' \in [Products -> [Names -> Value \cup {Nil}]]
         /\ queue' \in [Row -> 0..MaxRows]
         /\ \A r \in Row : queue'[r] > 0 => queue[r] > 0 \/ r.attribute = a
         /\ Faithful' /\ NothingLost'
<1>1. attribute[a].name \in Names
  BY NilIsNone DEF VInv, TypeOK, Exists, Attribute
<1>2. PICK n \in Names : n = attribute[a].name
  BY <1>1
<1> DEFINE To(v) == Converted(v, type, list)
<1>3. /\ custom' = [p \in Products |-> custom'[p]]
      /\ \A p \in Products : custom'[p] = [m \in Names |-> custom'[p][m]]
      /\ \A p \in Products, m \in Names : custom'[p][m] =
           IF p \in Affected(a) /\ m = n THEN To(custom[p][n]) ELSE custom[p][m]
      /\ queue' \in [Row -> 0..MaxRows]
      /\ \A r \in Row : queue[r] > 0 => queue'[r] > 0
      /\ \A r \in Row : queue'[r] > 0 => queue[r] > 0 \/ r.attribute = a
      /\ \A p \in Lost(a, type, list) : RowOf(p, a) \in Row => queue'[RowOf(p, a)] > 0
  BY <1>2, MigrateWrites DEF VInv
<1>4. /\ \A p \in Products, m \in Names : custom[p][m] \in Value \cup {Nil}
      /\ \A p \in Products, m \in Names : entered[p][m] \in Strings \cup {Nil}
  BY DEF VInv, TypeOK
<1>5. ASSUME NEW p \in Products, p \in Affected(a)
      PROVE  /\ custom[p][n] \in Value /\ custom[p][n] # Nil /\ To(custom[p][n]) \in Value \cup {Nil}
             /\ To(custom[p][n]) # Nil => Means(To(custom[p][n]), entered[p][n])
             /\ entered[p][n] # Nil /\ p \notin Lost(a, type, list) => To(custom[p][n]) # Nil
  <2>1. custom[p][n] \in Value /\ custom[p][n] # Nil
    BY <1>2, <1>4, <1>5 DEF Affected
  <2>2. Means(custom[p][n], entered[p][n])
    BY <2>1 DEF VInv, Faithful
  <2>3. p \notin Lost(a, type, list) => Cast(custom[p][n], type, list) # Nil
    BY <1>2, <1>5 DEF Lost
  <2> QED
    <3>1. PICK v \in Value : v = custom[p][n]
      BY <2>1
    <3>2. PICK e \in Strings \cup {Nil} : e = entered[p][n]
      BY <1>4
    <3>3. Means(v, e)
      BY <2>2, <3>1, <3>2
    <3>4. /\ Converted(v, type, list) \in Value \cup {Nil}
          /\ Converted(v, type, list) # Nil => Means(Converted(v, type, list), e)
          /\ e # Nil /\ Cast(v, type, list) # Nil => Converted(v, type, list) # Nil
      BY <3>3, ConvertedIs
    <3> QED
      BY <2>1, <2>3, <3>1, <3>2, <3>4
<1> HIDE DEF To
<1>6. custom' \in [Products -> [Names -> Value \cup {Nil}]]
  <2>1. \A p \in Products, m \in Names : custom'[p][m] \in Value \cup {Nil}
    BY <1>3, <1>4, <1>5
  <2>2. \A p \in Products : custom'[p] \in [Names -> Value \cup {Nil}]
    BY <1>3, <2>1
  <2> QED
    BY <1>3, <2>2
<1>7. ASSUME NEW p \in Products, NEW m \in Names, custom'[p][m] # Nil
      PROVE  Means(custom'[p][m], entered'[p][m])
  <2>1. CASE p \notin Affected(a) \/ m # n
    BY <1>3, <1>7, <2>1 DEF VInv, Faithful
  <2>2. CASE p \in Affected(a) /\ m = n
    BY <1>3, <1>5, <1>7, <2>2
  <2> QED
    BY <2>1, <2>2
<1>8. ASSUME NEW p \in Products, NEW m \in Names, entered'[p][m] # Nil
      PROVE  \/ custom'[p][m] # Nil /\ Kept(custom'[p][m].str, entered'[p][m])
             \/ Waits(p, m)'
  <2>1. entered[p][m] # Nil
    BY <1>8
  <2>2. Waits(p, m) => Waits(p, m)'
    BY <1>3 DEF Waits
  <2>3. CASE p \notin Affected(a) \/ m # n
    <3>1. custom'[p][m] = custom[p][m]
      BY <1>3, <2>3
    <3> QED
      BY <2>1, <2>2, <3>1, LostMeans DEF VInv
  <2>4. CASE p \in Affected(a) /\ m = n /\ p \notin Lost(a, type, list)
    <3>1. custom'[p][n] = To(custom[p][n])
      BY <1>3, <2>4
    <3>2. To(custom[p][n]) # Nil /\ Means(To(custom[p][n]), entered[p][n])
      BY <1>5, <2>1, <2>4
    <3> QED
      BY <2>1, <2>4, <3>1, <3>2 DEF Means
  <2>5. CASE p \in Affected(a) /\ m = n /\ p \in Lost(a, type, list)
    <3>1. custom[p][n] \in Value /\ custom[p][n] # Nil
      BY <1>5, <2>5
    <3>2. custom[p][n] # Empty /\ Kept(custom[p][n].str, entered[p][n])
      BY <2>1, <2>5, <3>1, HeldIsKept DEF VInv
    <3> DEFINE r == RowOf(p, a)
    <3>3. r \in Row /\ r.product = p /\ r.name = n /\ r.old = custom[p][n].str
      BY <1>2, <3>1, <3>2, ValueIs DEF RowOf, Row
    <3>4. queue'[r] > 0
      BY <1>3, <2>5, <3>3
    <3> HIDE DEF r
    <3>5. Kept(r.old, entered'[p][m])
      BY <2>5, <3>2, <3>3
    <3> QED
      BY <2>5, <3>3, <3>4, <3>5 DEF Waits
  <2> QED
    BY <2>3, <2>4, <2>5
<1>9. Faithful'
  BY <1>7 DEF Faithful
<1>10. NothingLost'
  BY <1>8 DEF NothingLost, Waits
<1> QED
  BY <1>3, <1>6, <1>9, <1>10

-----------------------------------------------------------------------------
(* Steps, from the values' side.                                           *)

\* The history of requests stays within its bound.
LEMMA ServeType == ASSUME TypeOK, Serve PROVE served' \in 0..MaxRequests
BY DEF TypeOK, Serve

\* A step that leaves the values, the queue and the attributes asked about.
LEMMA ValuesStay ==
  ASSUME VInv, TypeOK', UNCHANGED <<custom, queue, entered>>,
         \A a \in Attrs : Exists(a) => Exists(a)'
  PROVE  VInv'
<1>1. Asked'
  BY DEF VInv, Asked, Row
<1>2. Faithful' /\ NothingLost'
  BY DEF VInv, Faithful, NothingLost
<1> QED
  BY <1>1, <1>2 DEF VInv

\* Before the first request nothing has been entered.
LEMMA InitValues == Init => VInv
<1> SUFFICES ASSUME Init PROVE VInv
  OBVIOUS
<1>1. TypeOK
  <2>1. 0 \in 0..MaxRows /\ 0 \in 0..MaxRequests
    OBVIOUS
  <2> QED
    BY <2>1 DEF Init, TypeOK
<1>2. Asked
  BY DEF Init, Asked
<1>3. Faithful /\ NothingLost
  BY DEF Init, Faithful, NothingLost
<1> QED
  BY <1>1, <1>2, <1>3 DEF VInv

\* What an attribute may be written as.
AttributeKept(a) ==
  /\ attribute' \in [Attrs -> Attribute \cup {Nil}] /\ Exists(a)'
  /\ \A b \in Attrs : b # a => attribute'[b] = attribute[b]

\* One attribute is written, the others stay.
LEMMA WriteAttribute ==
  ASSUME TypeOK, NEW a \in Attrs, NEW row \in Attribute,
         attribute' = [attribute EXCEPT ![a] = row]
  PROVE  AttributeKept(a) /\ attribute'[a] = row
BY DEF TypeOK, AttributeKept, Exists

\* add_attribute writes one new attribute, in force, and perhaps a catalog.
LEMMA AddWrites ==
  ASSUME TypeOK, NEW a \in Attrs, NEW c \in Cats, NEW n \in Names, NEW type \in Types,
         NEW required \in BOOLEAN, NEW options \in OptionsFor(type), NEW chosen \in ChoiceFor(type),
         AddAttribute(a, c, n, type, required, options, chosen)
  PROVE  /\ AttributeKept(a) /\ CatalogsKept
         /\ attribute'[a].category = c /\ attribute'[a].name = n /\ attribute'[a].type = type
         /\ type = "catalog" => attribute'[a].catalog \in Catalogs /\ OnSale(attribute[a].catalog)'
<1>1. PICK k \in Catalogs \cup {Nil} :
        /\ IF type # "catalog" THEN k = Nil /\ UNCHANGED catalogs
           ELSE IF chosen # Nil THEN k = chosen /\ OnSale(k) /\ UNCHANGED catalogs
           ELSE k \in Catalogs /\ ResolveOrCreate(k, n, {})
        /\ attribute' = [attribute EXCEPT ![a] =
             [category |-> c, name |-> n, type |-> type, required |-> required,
              options |-> IF options = Nil THEN {} ELSE options, catalog |-> k, active |-> TRUE]]
  BY DEF AddAttribute
<1> DEFINE row == [category |-> c, name |-> n, type |-> type, required |-> required,
                   options |-> IF options = Nil THEN {} ELSE options, catalog |-> k, active |-> TRUE]
<1>2. (IF options = Nil THEN {} ELSE options) \in SUBSET Strings
  BY DEF OptionsFor
<1>3. row \in Attribute
  BY <1>2 DEF Attribute
<1>4. AttributeKept(a) /\ attribute'[a] = row
  BY <1>1, <1>3, WriteAttribute
<1>5. UNCHANGED catalogs => CatalogsKept /\ \A m \in Catalogs : OnSale(m) => OnSale(m)'
  BY DEF catalogs, CatalogsKept, TypeOK, OneCatalogPerName, Named, OnSale
<1>6. CatalogsKept /\ (type = "catalog" => k \in Catalogs /\ OnSale(k)')
  <2>1. CASE type # "catalog"
    BY <1>1, <1>5, <2>1
  <2>2. CASE type = "catalog" /\ chosen # Nil
    <3>1. k = chosen /\ OnSale(k) /\ UNCHANGED catalogs /\ k \in Catalogs
      BY <1>1, <2>2 DEF ChoiceFor
    <3> QED
      BY <1>5, <3>1
  <2>3. CASE type = "catalog" /\ chosen = Nil
    BY <1>1, <2>3, ResolveOrCreateKeeps
  <2> QED
    BY <2>1, <2>2, <2>3
<1> QED
  BY <1>4, <1>6

\* The values go over to a new type, or the type stays.
Migrated(a, type) == UNCHANGED <<custom, queue>> \/ \E list : Migrate(a, type, list)

\* update_attribute writes one attribute that exists; an attribute of type catalog
\* gets one on sale.
LEMMA UpdateWrites ==
  ASSUME TypeOK, NEW a \in Attrs, NEW n \in Names, NEW type \in Types, NEW required \in BOOLEAN,
         NEW options \in OptionsFor(type) \cup {Nil}, NEW chosen \in ChoiceFor(type),
         UpdateAttribute(a, n, type, required, options, chosen)
  PROVE  /\ Exists(a) /\ AttributeKept(a) /\ CatalogsKept
         /\ attribute'[a].category = attribute[a].category /\ attribute'[a].name = n
         /\ attribute'[a].type = type /\ attribute'[a].active = attribute[a].active
         /\ type = "catalog" => attribute'[a].catalog # Nil /\ OnSale(attribute[a].catalog)'
         /\ Migrated(a, type)
<1> DEFINE old == attribute[a]
           given == IF options = Nil THEN old.options ELSE options
<1>1. PICK k \in Catalogs \cup {Nil} :
        /\ IF type # old.type /\ type = "catalog" /\ chosen = Nil
           THEN k \in Catalogs /\ ResolveOrCreate(k, old.name, IF old.type = "select" THEN old.options ELSE {})
           ELSE k = (IF chosen # Nil THEN chosen ELSE old.catalog) /\ UNCHANGED catalogs
        /\ type = "catalog" => k # Nil /\ (OnSale(k))'
        /\ IF type = old.type THEN UNCHANGED <<custom, queue>>
           ELSE \E list \in {IF type = "catalog" THEN (Active(k))' ELSE ListOf(type, given, Nil)} :
                  Migrate(a, type, list)
        /\ attribute' = [attribute EXCEPT ![a] =
             [old EXCEPT !.name = n, !.type = type, !.required = required,
                         !.options = IF type = "catalog" THEN {} ELSE given,
                         !.catalog = IF type = "catalog" THEN k ELSE Nil]]
  BY DEF UpdateAttribute
<1>2. Exists(a) /\ old \in Attribute
  BY DEF UpdateAttribute, Exists, TypeOK
<1>3. given \in SUBSET Strings
  BY <1>2 DEF OptionsFor, Attribute
<1> DEFINE row == [old EXCEPT !.name = n, !.type = type, !.required = required,
                         !.options = IF type = "catalog" THEN {} ELSE given,
                         !.catalog = IF type = "catalog" THEN k ELSE Nil]
<1>4. /\ row \in Attribute /\ row.category = old.category /\ row.name = n /\ row.type = type
      /\ row.active = old.active /\ (type = "catalog" => row.catalog = k)
  <2> HIDE DEF given
  <2>1. (IF type = "catalog" THEN {} ELSE given) \in SUBSET Strings
    BY <1>3
  <2>2. (IF type = "catalog" THEN k ELSE Nil) \in Catalogs \cup {Nil}
    OBVIOUS
  <2> HIDE DEF old
  <2> QED
    BY <1>2, <2>1, <2>2 DEF Attribute
<1>5. attribute' = [attribute EXCEPT ![a] = row]
  BY <1>1
<1>6. AttributeKept(a) /\ attribute'[a] = row
  <2> HIDE DEF row
  <2> QED
    BY <1>4, <1>5, WriteAttribute
<1>7. CatalogsKept
  <2>1. CASE type # old.type /\ type = "catalog" /\ chosen = Nil
    <3>1. old.name \in Names
      BY <1>2 DEF Attribute
    <3> QED
      BY <1>1, <2>1, <3>1, ResolveOrCreateKeeps
  <2>2. CASE ~(type # old.type /\ type = "catalog" /\ chosen = Nil)
    <3>1. UNCHANGED catalogs
      BY <1>1, <2>2
    <3> QED
      BY <3>1 DEF catalogs, CatalogsKept, TypeOK, OneCatalogPerName, Named, OnSale
  <2> QED
    BY <2>1, <2>2
<1>8. Migrated(a, type)
  BY <1>1 DEF Migrated
<1> HIDE DEF row
<1> QED
  BY <1>1, <1>2, <1>4, <1>6, <1>7, <1>8

\* Deactivating and reactivating write one flag.
LEMMA FlagWrites ==
  ASSUME TypeOK, NEW a \in Attrs, NEW flag \in BOOLEAN, Exists(a),
         attribute' = [attribute EXCEPT ![a].active = flag]
  PROVE  /\ AttributeKept(a)
         /\ attribute'[a].category = attribute[a].category /\ attribute'[a].name = attribute[a].name
         /\ attribute'[a].type = attribute[a].type /\ attribute'[a].catalog = attribute[a].catalog
         /\ attribute'[a].active = flag
<1> DEFINE old == attribute[a]
           row == [old EXCEPT !.active = flag]
<1>1. old \in Attribute
  BY DEF Exists, TypeOK
<1>2. attribute' = [attribute EXCEPT ![a] = row]
  OBVIOUS
<1>3. /\ row \in Attribute /\ row.category = old.category /\ row.name = old.name
      /\ row.type = old.type /\ row.catalog = old.catalog /\ row.active = flag
  <2> HIDE DEF old
  <2> QED
    BY <1>1 DEF Attribute
<1> HIDE DEF row
<1>4. AttributeKept(a) /\ attribute'[a] = row
  BY <1>2, <1>3, WriteAttribute
<1> QED
  BY <1>3, <1>4

\* add_attribute and update_attribute keep the values.
LEMMA AddValues ==
  ASSUME VInv, NEW a \in Attrs, NEW c \in Cats, NEW n \in Names, NEW type \in Types,
         NEW required \in BOOLEAN, NEW options \in OptionsFor(type), NEW chosen \in ChoiceFor(type),
         AddAttribute(a, c, n, type, required, options, chosen)
  PROVE  VInv'
<1>1. AttributeKept(a) /\ CatalogsKept /\ served' \in 0..MaxRequests
  BY AddWrites, ServeType DEF VInv, AddAttribute
<1>2. UNCHANGED <<parent, home, custom, queue, entered, unchecked>>
  BY DEF AddAttribute
<1>3. TypeOK'
  BY <1>1, <1>2 DEF VInv, TypeOK, AttributeKept, CatalogsKept
<1>4. \A b \in Attrs : Exists(b) => Exists(b)'
  BY <1>1 DEF AttributeKept, Exists
<1> QED
  BY <1>2, <1>3, <1>4, ValuesStay

LEMMA UpdateValues ==
  ASSUME VInv, NEW a \in Attrs, NEW n \in Names, NEW type \in Types, NEW required \in BOOLEAN,
         NEW options \in OptionsFor(type) \cup {Nil}, NEW chosen \in ChoiceFor(type),
         UpdateAttribute(a, n, type, required, options, chosen)
  PROVE  VInv'
<1>1. Exists(a) /\ AttributeKept(a) /\ CatalogsKept /\ Migrated(a, type)
  <2>1. TypeOK
    BY DEF VInv
  <2> QED
    BY <2>1, UpdateWrites
<1>2. UNCHANGED <<parent, home, entered, unchecked>> /\ served' \in 0..MaxRequests
  BY ServeType DEF VInv, UpdateAttribute
<1>3. \A b \in Attrs : Exists(b) => Exists(b)'
  BY <1>1 DEF AttributeKept, Exists
<1>4. CASE UNCHANGED <<custom, queue>>
  <2>1. TypeOK'
    BY <1>1, <1>2, <1>4 DEF VInv, TypeOK, AttributeKept, CatalogsKept
  <2> QED
    BY <1>2, <1>3, <1>4, <2>1, ValuesStay
<1>5. ASSUME NEW list, Migrate(a, type, list) PROVE VInv'
  <2>1. /\ custom' \in [Products -> [Names -> Value \cup {Nil}]]
        /\ queue' \in [Row -> 0..MaxRows]
        /\ \A r \in Row : queue'[r] > 0 => queue[r] > 0 \/ r.attribute = a
        /\ Faithful' /\ NothingLost'
    BY <1>1, <1>2, <1>5, MigrateKeeps
  <2>2. TypeOK'
    BY <1>1, <1>2, <2>1 DEF VInv, TypeOK, AttributeKept, CatalogsKept
  <2>3. Asked'
    BY <1>1, <1>3, <2>1 DEF VInv, Asked, Row
  <2> QED
    BY <2>1, <2>2, <2>3 DEF VInv
<1> QED
  BY <1>1, <1>4, <1>5 DEF Migrated

\* delete_attribute takes its questions along, and with them what was entered and
\* waits only there.
LEMMA DeleteValues ==
  ASSUME VInv, NEW a \in Attrs, DeleteAttribute(a) PROVE VInv'
<1>1. /\ attribute' = [attribute EXCEPT ![a] = Nil]
      /\ queue' = [r \in Row |-> IF r.attribute = a THEN 0 ELSE queue[r]]
      /\ entered' = [p \in Products |-> [n \in Names |->
                       IF Forgotten(p, n, RowsOf(a)) THEN Nil ELSE entered[p][n]]]
      /\ unchecked' = unchecked \ {a}
      /\ UNCHANGED <<parent, home, catalogs, custom>> /\ served' \in 0..MaxRequests
  BY ServeType DEF VInv, DeleteAttribute
<1>2. TypeOK'
  <2>1. 0 \in 0..MaxRows
    OBVIOUS
  <2>2. queue' \in [Row -> 0..MaxRows]
    BY <1>1, <2>1 DEF VInv, TypeOK
  <2>3. entered' \in [Products -> [Names -> Strings \cup {Nil}]]
    BY <1>1 DEF VInv, TypeOK
  <2>4. attribute' \in [Attrs -> Attribute \cup {Nil}]
    BY <1>1 DEF VInv, TypeOK
  <2> QED
    BY <1>1, <2>2, <2>3, <2>4 DEF VInv, TypeOK, catalogs
<1>3. Asked'
  <2> SUFFICES ASSUME NEW r \in Row, queue'[r] > 0 PROVE attribute'[r.attribute] # Nil
    BY DEF Asked, Exists
  <2>1. r.attribute # a /\ queue[r] > 0 /\ r.attribute \in Attrs
    BY <1>1 DEF Row
  <2> QED
    BY <1>1, <2>1 DEF VInv, Asked, Exists, TypeOK
<1>4. ASSUME NEW p \in Products, NEW n \in Names
      PROVE  /\ custom'[p][n] = custom[p][n]
             /\ custom[p][n] # Nil => entered'[p][n] = entered[p][n]
             /\ entered'[p][n] # Nil => entered'[p][n] = entered[p][n] /\ ~Forgotten(p, n, RowsOf(a))
  BY <1>1 DEF Forgotten
<1>5. Faithful'
  BY <1>4 DEF VInv, Faithful
<1>6. ASSUME NEW p \in Products, NEW n \in Names, entered'[p][n] # Nil
      PROVE  \/ custom'[p][n] # Nil /\ Kept(custom'[p][n].str, entered'[p][n])
             \/ Waits(p, n)'
  <2>1. entered[p][n] # Nil /\ ~Forgotten(p, n, RowsOf(a)) /\ entered'[p][n] = entered[p][n]
    BY <1>4, <1>6
  <2>2. CASE custom[p][n] # Nil
    <3>1. Kept(custom[p][n].str, entered[p][n])
      BY <2>1, <2>2, HeldIsKept DEF VInv
    <3> QED
      BY <1>4, <2>1, <2>2, <3>1
  <2>3. CASE custom[p][n] = Nil
    <3>1. Waits(p, n)
      BY <2>1, <2>3, LostMeans DEF VInv
    <3>2. PICK r \in Row : /\ queue[r] > 0 /\ r.product = p /\ r.name = n
                           /\ Kept(r.old, entered[p][n])
      BY <3>1 DEF Waits
    <3>3. r.attribute # a
      BY <2>1, <2>3, <3>2 DEF Forgotten, RowsOf
    <3>4. queue'[r] > 0
      BY <1>1, <3>2, <3>3
    <3> QED
      BY <2>1, <3>2, <3>4 DEF Waits
  <2> QED
    BY <2>2, <2>3
<1>7. NothingLost'
  BY <1>6 DEF NothingLost, Waits
<1> QED
  BY <1>2, <1>3, <1>5, <1>7 DEF VInv

\* update_category with a reset takes the values of the branch back.
LEMMA MoveValues ==
  ASSUME VInv, NEW c \in Cats, NEW par \in Cats \cup {Nil}, NEW reset \in BOOLEAN,
         MoveCategory(c, par, reset)
  PROVE  VInv'
<1> DEFINE cleared == {p \in Products : reset /\ home[p] \in Branch(c)}
           below == {a \in Attrs : InForce(a) /\ attribute[a].category \in Branch(c)}
<1>1. /\ parent' = [parent EXCEPT ![c] = par]
      /\ custom' = [p \in Products |-> IF p \in cleared THEN [n \in Names |-> Nil] ELSE custom[p]]
      /\ entered' = [p \in Products |-> IF p \in cleared THEN [n \in Names |-> Nil] ELSE entered[p]]
      /\ unchecked' \in {unchecked, unchecked \cup below}
      /\ UNCHANGED <<home, attribute, catalogs, queue>> /\ served' \in 0..MaxRequests
  BY ServeType DEF VInv, MoveCategory
<1> HIDE DEF cleared
<1>2. TypeOK'
  <2>1. custom' \in [Products -> [Names -> Value \cup {Nil}]]
    BY <1>1 DEF VInv, TypeOK
  <2>2. entered' \in [Products -> [Names -> Strings \cup {Nil}]]
    BY <1>1 DEF VInv, TypeOK
  <2>3. parent' \in [Cats -> Cats \cup {Nil}] /\ unchecked' \subseteq Attrs
    BY <1>1 DEF VInv, TypeOK
  <2> QED
    BY <1>1, <2>1, <2>2, <2>3 DEF VInv, TypeOK, catalogs
<1>3. Asked'
  BY <1>1 DEF VInv, Asked, Exists
<1>4. ASSUME NEW p \in Products, NEW n \in Names
      PROVE  \/ custom'[p][n] = Nil /\ entered'[p][n] = Nil
             \/ custom'[p][n] = custom[p][n] /\ entered'[p][n] = entered[p][n]
  BY <1>1
<1>5. Faithful'
  BY <1>4 DEF VInv, Faithful
<1>6. NothingLost'
  <2> SUFFICES ASSUME NEW p \in Products, NEW n \in Names, entered'[p][n] # Nil
               PROVE  \/ custom'[p][n] # Nil /\ Kept(custom'[p][n].str, entered'[p][n])
                      \/ Waits(p, n)'
    BY DEF NothingLost, Waits
  <2>1. custom'[p][n] = custom[p][n] /\ entered'[p][n] = entered[p][n]
    BY <1>4
  <2>2. Waits(p, n) => Waits(p, n)'
    BY <1>1, <2>1 DEF Waits
  <2> QED
    BY <2>1, <2>2, LostMeans DEF VInv
<1> QED
  BY <1>2, <1>3, <1>5, <1>6 DEF VInv

\* update_product replaces all the values of a product (custom_attributes).
LEMMA ProductValues ==
  ASSUME VInv, NEW p \in Products, NEW given \in [Names -> Values \cup {Nil}], UpdateProduct(p, given)
  PROVE  VInv'
<1>1. /\ custom' = [custom EXCEPT ![p] = given]
      /\ entered' = [entered EXCEPT ![p] = [n \in Names |-> Said(given[n])]]
      /\ UNCHANGED <<parent, home, attribute, catalogs, queue, unchecked>> /\ served' \in 0..MaxRequests
  BY ServeType DEF VInv, UpdateProduct
<1>2. \A n \in Names : Said(given[n]) \in Strings \cup {Nil}
  BY ValueIs DEF Said
<1>3. TypeOK'
  <2>1. given \in [Names -> Value \cup {Nil}]
    OBVIOUS
  <2>2. custom' \in [Products -> [Names -> Value \cup {Nil}]]
    BY <1>1, <2>1 DEF VInv, TypeOK
  <2>3. [n \in Names |-> Said(given[n])] \in [Names -> Strings \cup {Nil}]
    BY <1>2
  <2>4. entered' \in [Products -> [Names -> Strings \cup {Nil}]]
    BY <1>1, <2>3 DEF VInv, TypeOK
  <2> QED
    BY <1>1, <2>2, <2>4 DEF VInv, TypeOK, catalogs
<1>4. Asked'
  BY <1>1 DEF VInv, Asked, Exists
<1>5. ASSUME NEW q \in Products, NEW n \in Names
      PROVE  IF q = p THEN custom'[q][n] = given[n] /\ entered'[q][n] = Said(given[n])
             ELSE custom'[q][n] = custom[q][n] /\ entered'[q][n] = entered[q][n]
  BY <1>1 DEF VInv, TypeOK
<1>6. ASSUME NEW n \in Names, given[n] # Nil PROVE Means(given[n], Said(given[n]))
  <2>1. given[n] \in Value
    BY <1>6
  <2>2. given[n] # Empty => given[n].str \in Strings
    BY <2>1, ValueIs
  <2> QED
    BY <1>6, <2>2, KeptItself DEF Means, Said
<1>7. Faithful'
  BY <1>5, <1>6 DEF VInv, Faithful
<1>8. NothingLost'
  <2> SUFFICES ASSUME NEW q \in Products, NEW n \in Names, entered'[q][n] # Nil
               PROVE  \/ custom'[q][n] # Nil /\ Kept(custom'[q][n].str, entered'[q][n])
                      \/ Waits(q, n)'
    BY DEF NothingLost, Waits
  <2>1. CASE q = p
    <3>1. custom'[q][n] = given[n] /\ entered'[q][n] = Said(given[n]) /\ given[n] # Nil
      BY <1>5, <2>1 DEF Said
    <3>2. given[n] # Empty /\ given[n] \in Value /\ entered'[q][n] = given[n].str
      BY <3>1, <1>5, <2>1 DEF Said
    <3>3. Kept(given[n].str, given[n].str)
      BY <3>2, ValueIs, KeptItself
    <3> QED
      BY <3>1, <3>2, <3>3
  <2>2. CASE q # p
    <3>1. custom'[q][n] = custom[q][n] /\ entered'[q][n] = entered[q][n]
      BY <1>5, <2>2
    <3>2. Waits(q, n) => Waits(q, n)'
      BY <1>1, <3>1 DEF Waits
    <3> QED
      BY <3>1, <3>2, LostMeans DEF VInv
  <2> QED
    BY <2>1, <2>2
<1> QED
  BY <1>3, <1>4, <1>7, <1>8 DEF VInv

\* A table with a row for each p and an entry for each m.
Table(P, N, f) == f = [p \in P |-> f[p]] /\ \A p \in P : f[p] = [m \in N |-> f[p][m]]

\* One entry is written.
Wrote(f, g, q, o, w) == g = [f EXCEPT ![q][o] = w]

EntryOf(P, N, f, g, q, o, w) ==
  \A p \in P, m \in N : g[p][m] = IF p = q /\ m = o THEN w ELSE f[p][m]

\* Writing one entry leaves the others.
LEMMA WriteEntry ==
  ASSUME NEW P, NEW N, NEW f, NEW g, NEW q, NEW o, NEW w, q \in P, o \in N,
         Table(P, N, f), Wrote(f, g, q, o, w)
  PROVE  Table(P, N, g) /\ EntryOf(P, N, f, g, q, o, w)
<1>0. /\ f = [p \in P |-> f[p]] /\ \A p \in P : f[p] = [m \in N |-> f[p][m]]
      /\ g = [f EXCEPT ![q][o] = w]
  BY DEF Table, Wrote
<1>1. g = [p \in P |-> g[p]]
  BY <1>0
<1>2. ASSUME NEW p \in P
      PROVE  g[p] = [m \in N |-> g[p][m]] /\ \A m \in N : g[p][m] = IF p = q /\ m = o THEN w ELSE f[p][m]
  <2>1. CASE p = q
    <3>1. PICK h : h = f[q]
      OBVIOUS
    <3>2. g[p] = [h EXCEPT ![o] = w]
      BY <1>0, <2>1, <3>1
    <3>3. h = [m \in N |-> h[m]]
      BY <1>0, <3>1
    <3>4. g[p] = [m \in N |-> g[p][m]] /\ \A m \in N : g[p][m] = IF m = o THEN w ELSE h[m]
      BY ONLY <3>2, <3>3, o \in N
    <3> QED
      BY ONLY <2>1, <3>1, <3>4
  <2>2. CASE p # q
    <3>1. g[p] = f[p]
      BY <1>0, <2>2
    <3> QED
      BY <1>0, <2>2, <3>1
  <2> QED
    BY <2>1, <2>2
<1> QED
  BY <1>1, <1>2 DEF Table, EntryOf

\* An answer takes one question from the queue and writes at most one value.
LEMMA ResolveWrites ==
  ASSUME TypeOK, NEW r \in Row, NEW v \in Values, Resolve(r, v),
         NEW n \in Names, n = attribute[r.attribute].name,
         NEW type, type = attribute[r.attribute].type,
         NEW list, list = ListOf(attribute[r.attribute].type, attribute[r.attribute].options,
                                 attribute[r.attribute].catalog)
  PROVE  /\ Cast(v, type, list) # Nil
         /\ queue' = [queue EXCEPT ![r] = queue[r] - 1] /\ queue[r] > 0
         /\ Table(Products, Names, custom)' /\ Table(Products, Names, entered)'
         /\ \A p \in Products, m \in Names : custom'[p][m] =
              IF v # Empty /\ p = r.product /\ m = n THEN Cast(v, type, list) ELSE custom[p][m]
         /\ \A p \in Products, m \in Names : entered'[p][m] =
              IF v # Empty /\ p = r.product /\ m = n THEN v.str
              ELSE IF p = r.product /\ m = r.name /\ custom[p][m] = Nil THEN Nil ELSE entered[p][m]
<1>1. PICK cast, q, o, said, was :
        /\ cast = Cast(v, type, list) /\ q = r.product /\ o = r.name /\ said = v.str
        /\ was = IF custom[q][o] = Nil THEN Nil ELSE entered[q][o]
  OBVIOUS
<1>2. q \in Products /\ o \in Names
  BY <1>1 DEF Row
<1>3. PICK answered : answered = [entered EXCEPT ![q][o] = was]
  OBVIOUS
<1>4. /\ cast # Nil /\ queue' = [queue EXCEPT ![r] = queue[r] - 1] /\ queue[r] > 0
      /\ custom' = IF v = Empty THEN custom ELSE [custom EXCEPT ![q][n] = cast]
      /\ entered' = IF v = Empty THEN answered
                    ELSE [entered EXCEPT ![q] = [[entered[q] EXCEPT ![o] = was] EXCEPT ![n] = said]]
  BY <1>1, <1>2, <1>3 DEF Resolve, TypeOK
<1>5. Table(Products, Names, custom) /\ Table(Products, Names, entered)
  BY DEF TypeOK, Table
<1>6. Table(Products, Names, answered) /\ EntryOf(Products, Names, entered, answered, q, o, was)
  <2>1. Wrote(entered, answered, q, o, was)
    BY <1>3 DEF Wrote
  <2> QED
    BY ONLY <1>2, <1>5, <2>1, WriteEntry
<1>7. \A p \in Products, m \in Names : answered[p][m] =
        IF p = q /\ m = o /\ custom[p][m] = Nil THEN Nil ELSE entered[p][m]
  BY ONLY <1>1, <1>6 DEF EntryOf
<1>8. CASE v = Empty
  <2>1. custom' = custom /\ entered' = answered
    BY <1>4, <1>8
  <2>2. Table(Products, Names, custom)' /\ Table(Products, Names, entered)'
    BY <1>5, <1>6, <2>1 DEF Table
  <2>3. \A p \in Products, m \in Names : custom'[p][m] =
          IF v # Empty /\ p = r.product /\ m = n THEN Cast(v, type, list) ELSE custom[p][m]
    BY ONLY <1>8, <2>1
  <2>4. \A p \in Products, m \in Names : entered'[p][m] =
          IF v # Empty /\ p = r.product /\ m = n THEN v.str
          ELSE IF p = r.product /\ m = r.name /\ custom[p][m] = Nil THEN Nil ELSE entered[p][m]
    BY ONLY <1>1, <1>7, <1>8, <2>1
  <2>5. /\ Cast(v, type, list) # Nil
        /\ queue' = [queue EXCEPT ![r] = queue[r] - 1] /\ queue[r] > 0
    BY ONLY <1>1, <1>4
  <2> QED
    BY ONLY <2>2, <2>3, <2>4, <2>5
<1>9. CASE v # Empty
  <2>1. Wrote(custom, custom', q, n, cast)
    BY <1>4, <1>9 DEF Wrote
  <2>2. entered' = [answered EXCEPT ![q][n] = said]
    <3>1. answered = [entered EXCEPT ![q] = [entered[q] EXCEPT ![o] = was]]
      BY <1>3
    <3>2. entered' = [entered EXCEPT ![q] = [[entered[q] EXCEPT ![o] = was] EXCEPT ![n] = said]]
      BY <1>4, <1>9
    <3>3. PICK f, g : f = [entered[q] EXCEPT ![o] = was] /\ g = [f EXCEPT ![n] = said]
      OBVIOUS
    <3>4. answered = [entered EXCEPT ![q] = f] /\ entered' = [entered EXCEPT ![q] = g]
      BY <3>1, <3>2, <3>3
    <3>5. entered = [p \in Products |-> entered[p]]
      BY <1>5 DEF Table
    <3>6. answered[q] = f
      BY ONLY <1>2, <3>4, <3>5
    <3>7. [answered EXCEPT ![q] = g] = [entered EXCEPT ![q] = g]
      BY ONLY <3>4, <3>5
    <3> QED
      BY <3>3, <3>4, <3>6, <3>7
  <2>3. /\ Table(Products, Names, custom)'
        /\ \A p \in Products, m \in Names : custom'[p][m] = IF p = q /\ m = n THEN cast ELSE custom[p][m]
    <3>1. PICK g : g = custom'
      OBVIOUS
    <3>2. Wrote(custom, g, q, n, cast)
      BY ONLY <2>1, <3>1
    <3>3. Table(Products, Names, g) /\ EntryOf(Products, Names, custom, g, q, n, cast)
      BY ONLY <1>2, <1>5, <3>2, n \in Names, WriteEntry
    <3> QED
      BY ONLY <3>1, <3>3 DEF Table, EntryOf
  <2>4. /\ Table(Products, Names, entered)'
        /\ \A p \in Products, m \in Names : entered'[p][m] = IF p = q /\ m = n THEN said ELSE answered[p][m]
    <3>1. PICK g : g = entered'
      OBVIOUS
    <3>2. Wrote(answered, g, q, n, said)
      BY ONLY <2>2, <3>1 DEF Wrote
    <3>3. Table(Products, Names, g) /\ EntryOf(Products, Names, answered, g, q, n, said)
      BY ONLY <1>2, <1>6, <3>2, n \in Names, WriteEntry
    <3> QED
      BY ONLY <3>1, <3>3 DEF Table, EntryOf
  <2>5. \A p \in Products, m \in Names : entered'[p][m] =
          IF p = q /\ m = n THEN said
          ELSE IF p = q /\ m = o /\ custom[p][m] = Nil THEN Nil ELSE entered[p][m]
    BY ONLY <1>7, <2>4
  <2>6. \A p \in Products, m \in Names : custom'[p][m] =
          IF v # Empty /\ p = r.product /\ m = n THEN Cast(v, type, list) ELSE custom[p][m]
    BY ONLY <1>1, <1>9, <2>3
  <2>7. \A p \in Products, m \in Names : entered'[p][m] =
          IF v # Empty /\ p = r.product /\ m = n THEN v.str
          ELSE IF p = r.product /\ m = r.name /\ custom[p][m] = Nil THEN Nil ELSE entered[p][m]
    BY ONLY <1>1, <1>9, <2>5
  <2>8. /\ Cast(v, type, list) # Nil
        /\ queue' = [queue EXCEPT ![r] = queue[r] - 1] /\ queue[r] > 0
    BY ONLY <1>1, <1>4
  <2> QED
    BY ONLY <2>3, <2>4, <2>6, <2>7, <2>8
<1> QED
  BY <1>8, <1>9

\* An answer from the queue is what was entered last (RemapService.resolve).
LEMMA ResolveValues ==
  ASSUME VInv, NEW r \in Row, NEW v \in Values, Resolve(r, v) PROVE VInv'
<1>1. queue[r] > 0 /\ r.attribute \in Attrs /\ r.product \in Products /\ r.name \in Names
  BY DEF Resolve, Row
<1>2. attribute[r.attribute] \in Attribute
  BY <1>1 DEF VInv, Asked, Exists, TypeOK
<1>3. attribute[r.attribute].name \in Names /\ attribute[r.attribute].type \in Types
  BY <1>2 DEF Attribute
<1>4. PICK n \in Names, type \in Types :
        n = attribute[r.attribute].name /\ type = attribute[r.attribute].type
  BY <1>3
<1>0. PICK list : list = ListOf(attribute[r.attribute].type, attribute[r.attribute].options,
                                attribute[r.attribute].catalog)
  OBVIOUS
<1>5.    /\ Cast(v, type, list) # Nil
         /\ queue' = [queue EXCEPT ![r] = queue[r] - 1] /\ queue[r] > 0
         /\ Table(Products, Names, custom)' /\ Table(Products, Names, entered)'
         /\ \A p \in Products, m \in Names : custom'[p][m] =
              IF v # Empty /\ p = r.product /\ m = n THEN Cast(v, type, list) ELSE custom[p][m]
         /\ \A p \in Products, m \in Names : entered'[p][m] =
              IF v # Empty /\ p = r.product /\ m = n THEN v.str
              ELSE IF p = r.product /\ m = r.name /\ custom[p][m] = Nil THEN Nil ELSE entered[p][m]
  BY <1>0, <1>4, ResolveWrites DEF VInv
<1> DEFINE cast == Cast(v, type, list)
<1>6. /\ cast \in Value /\ cast # Nil
      /\ v # Empty => v.str \in Strings /\ cast # Empty /\ Kept(cast.str, v.str)
  BY <1>5, CastIs, ValueIs, KeptItself
<1> HIDE DEF cast
<1>7. /\ UNCHANGED <<parent, home, attribute, catalogs, unchecked>> /\ served' \in 0..MaxRequests
  BY ServeType DEF VInv, Resolve
<1>8. /\ \A p \in Products, m \in Names : custom[p][m] \in Value \cup {Nil}
      /\ \A p \in Products, m \in Names : entered[p][m] \in Strings \cup {Nil}
  BY DEF VInv, TypeOK
<1>9. TypeOK'
  <2>1. \A p \in Products, m \in Names : custom'[p][m] \in Value \cup {Nil}
    BY <1>5, <1>6, <1>8 DEF cast
  <2>2. \A p \in Products : custom'[p] \in [Names -> Value \cup {Nil}]
    BY <1>5, <2>1 DEF Table
  <2>3. custom' \in [Products -> [Names -> Value \cup {Nil}]]
    BY <1>5, <2>2 DEF Table
  <2>4. \A p \in Products, m \in Names : entered'[p][m] \in Strings \cup {Nil}
    BY <1>5, <1>6, <1>8
  <2>5. \A p \in Products : entered'[p] \in [Names -> Strings \cup {Nil}]
    BY <1>5, <2>4 DEF Table
  <2>6. entered' \in [Products -> [Names -> Strings \cup {Nil}]]
    BY <1>5, <2>5 DEF Table
  <2>7. queue' \in [Row -> 0..MaxRows]
    BY <1>5 DEF VInv, TypeOK
  <2> QED
    BY <1>7, <2>3, <2>6, <2>7 DEF VInv, TypeOK, catalogs
<1>10. \A s \in Row : (queue'[s] > 0 => queue[s] > 0) /\ (s # r => queue'[s] = queue[s])
  BY <1>5 DEF VInv, TypeOK
<1>11. Asked'
  BY <1>7, <1>10 DEF VInv, Asked, Exists
<1>12. ASSUME NEW p \in Products, NEW m \in Names, custom'[p][m] # Nil
       PROVE  Means(custom'[p][m], entered'[p][m])
  <2>1. CASE v # Empty /\ p = r.product /\ m = n
    <3>1. custom'[p][m] = cast /\ entered'[p][m] = v.str
      BY <1>5, <2>1 DEF cast
    <3> QED
      BY <1>6, <2>1, <3>1, NilIsNone DEF Means
  <2>2. CASE ~(v # Empty /\ p = r.product /\ m = n)
    <3>1. custom'[p][m] = custom[p][m] /\ entered'[p][m] = entered[p][m]
      BY <1>5, <1>12, <2>2
    <3> QED
      BY <1>12, <3>1 DEF VInv, Faithful
  <2> QED
    BY <2>1, <2>2
<1>13. ASSUME NEW p \in Products, NEW m \in Names, entered'[p][m] # Nil
       PROVE  \/ custom'[p][m] # Nil /\ Kept(custom'[p][m].str, entered'[p][m])
              \/ Waits(p, m)'
  <2>1. CASE v # Empty /\ p = r.product /\ m = n
    <3>1. custom'[p][m] = cast /\ entered'[p][m] = v.str
      BY <1>5, <2>1 DEF cast
    <3> QED
      BY <1>6, <2>1, <3>1
  <2>2. CASE ~(v # Empty /\ p = r.product /\ m = n)
    <3>1. custom'[p][m] = custom[p][m] /\ entered'[p][m] = entered[p][m]
      BY <1>5, <1>13, <2>2
    <3>2. CASE custom[p][m] # Nil
      BY <1>13, <3>1, <3>2, HeldIsKept DEF VInv
    <3>3. CASE custom[p][m] = Nil
      <4>1. ~(p = r.product /\ m = r.name)
        BY <1>5, <1>13, <2>2, <3>3
      <4>2. Waits(p, m)
        BY <1>13, <3>1, <3>3, LostMeans DEF VInv
      <4>3. PICK s \in Row : /\ queue[s] > 0 /\ s.product = p /\ s.name = m
                             /\ Kept(s.old, entered[p][m])
        BY <4>2 DEF Waits
      <4>4. queue'[s] > 0
        BY <1>10, <4>1, <4>3
      <4> QED
        BY <3>1, <4>3, <4>4 DEF Waits
    <3> QED
      BY <3>2, <3>3
  <2> QED
    BY <2>1, <2>2
<1>14. Faithful'
  BY <1>12 DEF Faithful
<1>15. NothingLost'
  BY <1>13 DEF NothingLost, Waits
<1> QED
  BY <1>9, <1>11, <1>14, <1>15 DEF VInv

\* Catalogs and flags are not values.
LEMMA QuietValues ==
  ASSUME VInv, CatalogRequests \/ (\E a \in Attrs : DeactivateAttribute(a) \/ ReactivateAttribute(a))
  PROVE  VInv'
<1>1. CASE CatalogRequests
  <2>1. CatalogsKept /\ served' \in 0..MaxRequests /\ OnlyCatalogs
    BY <1>1, CatalogSteps, ServeType DEF VInv
  <2>2. TypeOK'
    BY <2>1 DEF VInv, TypeOK, CatalogsKept, OnlyCatalogs
  <2>3. \A b \in Attrs : Exists(b) => Exists(b)'
    BY <2>1 DEF OnlyCatalogs, Exists
  <2> QED
    BY <2>1, <2>2, <2>3, ValuesStay DEF OnlyCatalogs
<1>2. ASSUME NEW a \in Attrs, DeactivateAttribute(a) \/ ReactivateAttribute(a) PROVE VInv'
  <2>1. AttributeKept(a)
    <3>1. PICK flag \in BOOLEAN : attribute' = [attribute EXCEPT ![a].active = flag]
      BY <1>2 DEF DeactivateAttribute, ReactivateAttribute
    <3> QED
      BY <1>2, <3>1, FlagWrites DEF DeactivateAttribute, ReactivateAttribute, InForce, VInv
  <2>2. /\ UNCHANGED <<parent, home, catalogs, custom, queue, entered>>
        /\ unchecked' \in {unchecked, unchecked \cup {a}} /\ served' \in 0..MaxRequests
    BY <1>2, ServeType DEF DeactivateAttribute, ReactivateAttribute, VInv
  <2>3. TypeOK'
    BY <2>1, <2>2 DEF VInv, TypeOK, AttributeKept, catalogs
  <2>4. \A b \in Attrs : Exists(b) => Exists(b)'
    BY <2>1 DEF AttributeKept, Exists
  <2> QED
    BY <2>2, <2>3, <2>4, ValuesStay
<1> QED
  BY <1>1, <1>2

\* Every step keeps the values.
LEMMA NextValues == VInv /\ [Next]_vars => VInv'
<1> SUFFICES ASSUME VInv, [Next]_vars PROVE VInv'
  OBVIOUS
<1>1. CASE CatalogRequests
  BY <1>1, QuietValues
<1>2. CASE AttributeRequests
  <2>1. ASSUME NEW a \in Attrs, NEW c \in Cats, NEW n \in Names, NEW type \in Types,
               NEW required \in BOOLEAN, NEW options \in OptionsFor(type),
               NEW chosen \in ChoiceFor(type),
               AddAttribute(a, c, n, type, required, options, chosen)
        PROVE  VInv'
    BY <2>1, AddValues
  <2>2. ASSUME NEW a \in Attrs, NEW n \in Names, NEW type \in Types, NEW required \in BOOLEAN,
               NEW options \in OptionsFor(type) \cup {Nil}, NEW chosen \in ChoiceFor(type),
               UpdateAttribute(a, n, type, required, options, chosen)
        PROVE  VInv'
    BY <2>2, UpdateValues
  <2>3. ASSUME NEW a \in Attrs, DeactivateAttribute(a) \/ ReactivateAttribute(a) PROVE VInv'
    BY <2>3, QuietValues
  <2>4. ASSUME NEW a \in Attrs, DeleteAttribute(a) PROVE VInv'
    BY <2>4, DeleteValues
  <2>5. ASSUME NEW c \in Cats, NEW par \in Cats \cup {Nil}, NEW reset \in BOOLEAN,
               MoveCategory(c, par, reset)
        PROVE  VInv'
    BY <2>5, MoveValues
  <2> QED
    BY ONLY <1>2, <2>1, <2>2, <2>3, <2>4, <2>5 DEF AttributeRequests
<1>3. ASSUME NEW p \in Products, NEW given \in [Names -> Values \cup {Nil}], UpdateProduct(p, given)
      PROVE  VInv'
  BY <1>3, ProductValues
<1>4. ASSUME NEW r \in Row, NEW v \in Values, Resolve(r, v) PROVE VInv'
  BY <1>4, ResolveValues
<1>5. CASE UNCHANGED vars
  BY <1>5 DEF vars, catalogs, VInv, TypeOK, Asked, Faithful, NothingLost, Exists
<1> QED
  BY <1>1, <1>2, <1>3, <1>4, <1>5 DEF Next

\* The values' invariant holds.
THEOREM ValueInvariance == Spec => []VInv
BY InitValues, NextValues, PTL DEF Spec

\* Every variable keeps its type; what products hold are values, what waits is a text.
THEOREM TypeCorrect == Spec => []TypeOK
<1>1. VInv => TypeOK
  BY DEF VInv
<1> QED
  BY <1>1, ValueInvariance, PTL

\* What a person entered is in the product or waits in the queue, as the types it
\* went through read it, after whatever changes of type, of name and of place
\* (_migrate_attribute_type, resolve).
THEOREM NothingEnteredIsLost == Spec => []NothingLost
<1>1. VInv => NothingLost
  BY DEF VInv
<1> QED
  BY <1>1, ValueInvariance, PTL

-----------------------------------------------------------------------------
(* Names and catalogs.                                                     *)

\* Two attributes in force of one name, one inherited where the other is.
Clash(a, b) ==
  /\ a # b /\ InForce(a) /\ InForce(b) /\ attribute[a].name = attribute[b].name
  /\ attribute[a].category \in Line(attribute[b].category)

\* Names and catalogs, as an inductive invariant.
NInv == TypeOK /\ OneAttributePerName /\ OneCatalogPerName /\ CatalogsInForce

\* An attribute in force is a row with a category of the tree.
LEMMA InForceIs ==
  ASSUME TypeOK, NEW a \in Attrs, InForce(a)
  PROVE  attribute[a] \in Attribute /\ attribute[a].category \in Cats /\ attribute[a].name \in Names
BY NilIsNone DEF TypeOK, InForce, Exists, Attribute

\* Unique names, told by clashes.
LEMMA NamesByClash ==
  OneAttributePerName <=> \A a, b \in Attrs : Clash(a, b) => {a, b} \cap unchecked # {}
BY DEF OneAttributePerName, Clash

\* A name that is free clashes with nothing (DUPLICATE_ATTRIBUTE_IN_HIERARCHY and
\* _IN_DESCENDANTS ask of both sides of the branch).
LEMMA FreeNameNoClash ==
  ASSUME TypeOK, NEW c \in Cats, NEW n \in Names, NEW self, NameFree(n, c, self),
         NEW b \in Attrs, InForce(b), attribute[b].name = n, b # self
  PROVE  attribute[b].category \notin Line(c) /\ c \notin Line(attribute[b].category)
<1>1. attribute[b].category \in Cats
  BY InForceIs
<1>2. attribute[b].category \in Branch(c) <=> c \in Line(attribute[b].category)
  BY <1>1 DEF Branch
<1>3. attribute[b].category \notin Line(c) \cup Branch(c)
  BY DEF NameFree, Holders
<1> QED
  BY <1>2, <1>3

\* Writing one attribute clashes only if it comes into force under a new name.
LEMMA WriteNames ==
  ASSUME NInv, NEW a \in Attrs, AttributeKept(a), UNCHANGED parent, unchecked \subseteq unchecked',
         \/ ~InForce(a)' \/ a \in unchecked'
         \/ /\ InForce(a) /\ attribute'[a].name = attribute[a].name
            /\ attribute'[a].category = attribute[a].category
         \/ /\ attribute'[a].category \in Cats /\ attribute'[a].name \in Names
            /\ \E self : /\ NameFree(attribute'[a].name, attribute'[a].category, self)
                         /\ \A b \in Attrs : b # a => b # self
  PROVE  OneAttributePerName'
<1> SUFFICES ASSUME NEW x \in Attrs, NEW y \in Attrs, Clash(x, y)', {x, y} \cap unchecked' = {}
             PROVE  FALSE
  BY DEF OneAttributePerName, Clash
<1>1. \A d : Line(d)' = Line(d)
  BY DEF Line
<1>2. \A b \in Attrs : b # a => (InForce(b)' <=> InForce(b)) /\ attribute'[b] = attribute[b]
  BY DEF AttributeKept, InForce, Exists
<1>3. /\ x # y /\ InForce(x)' /\ InForce(y)' /\ attribute'[x].name = attribute'[y].name
      /\ attribute'[x].category \in Line(attribute'[y].category)
  BY <1>1 DEF Clash
<1>4. ~Clash(x, y)
  BY NamesByClash DEF NInv
<1>5. CASE x # a /\ y # a
  BY <1>2, <1>3, <1>4, <1>5 DEF Clash
<1>6. CASE x = a \/ y = a
  <2>1. InForce(a)' /\ a \notin unchecked'
    BY <1>3, <1>6
  <2>2. CASE /\ InForce(a) /\ attribute'[a].name = attribute[a].name
             /\ attribute'[a].category = attribute[a].category
    BY <1>2, <1>3, <1>4, <1>6, <2>2 DEF Clash
  <2>3. CASE /\ attribute'[a].category \in Cats /\ attribute'[a].name \in Names
             /\ \E self : /\ NameFree(attribute'[a].name, attribute'[a].category, self)
                          /\ \A b \in Attrs : b # a => b # self
    <3>0. PICK self : /\ NameFree(attribute'[a].name, attribute'[a].category, self)
                      /\ \A b \in Attrs : b # a => b # self
      BY <2>3
    <3>1. PICK c \in Cats, n \in Names :
            c = attribute'[a].category /\ n = attribute'[a].name /\ NameFree(n, c, self)
      BY <2>3, <3>0
    <3>2. ASSUME NEW b \in Attrs, b # a, InForce(b), attribute[b].name = n
          PROVE  attribute[b].category \notin Line(c) /\ c \notin Line(attribute[b].category)
      BY <3>0, <3>1, <3>2, FreeNameNoClash DEF NInv
    <3> QED
      BY <1>2, <1>3, <1>6, <3>1, <3>2
  <2> QED
    BY <2>1, <2>2, <2>3
<1> QED
  BY <1>5, <1>6

\* Writing one attribute keeps the catalogs of the others; its own must be on sale.
LEMMA WriteCatalogs ==
  ASSUME NInv, NEW a \in Attrs, AttributeKept(a), CatalogsKept, unchecked \subseteq unchecked',
         \/ ~InForce(a)' \/ a \in unchecked'
         \/ attribute'[a].type = "catalog" =>
              attribute'[a].catalog # Nil /\ OnSale(attribute[a].catalog)'
  PROVE  CatalogsInForce'
<1> SUFFICES ASSUME NEW x \in Attrs, x \notin unchecked', InForce(x)', attribute'[x].type = "catalog"
             PROVE  attribute'[x].catalog # Nil /\ OnSale(attribute[x].catalog)'
  BY DEF CatalogsInForce
<1>1. CASE x = a
  BY <1>1
<1>2. CASE x # a
  <2>1. attribute'[x] = attribute[x] /\ InForce(x)
    BY <1>2 DEF AttributeKept, InForce, Exists
  <2>2. attribute[x].catalog # Nil /\ OnSale(attribute[x].catalog)
    BY <2>1 DEF NInv, CatalogsInForce
  <2>3. attribute[x].catalog \in Catalogs
    BY <2>1, <2>2, InForceIs DEF NInv, Attribute
  <2>4. UsersOf(attribute[x].catalog) # {}
    BY <2>1 DEF UsersOf
  <2>5. PICK k \in Catalogs : k = attribute[x].catalog
    BY <2>3
  <2>6. OnSale(k)'
    BY <2>2, <2>4, <2>5 DEF CatalogsKept
  <2> QED
    BY <2>1, <2>2, <2>5, <2>6 DEF OnSale
<1> QED
  BY <1>1, <1>2

\* A move adds the line of the new parent, whose names were compared
\* (_validate_move), or whose branch is unchecked from then on.
LEMMA MoveNames ==
  ASSUME NInv, IsFiniteSet(Cats), NEW c \in Cats, NEW par \in Cats \cup {Nil}, NEW reset \in BOOLEAN,
         MoveCategory(c, par, reset)
  PROVE  OneAttributePerName'
<1> DEFINE below == {a \in Attrs : InForce(a) /\ attribute[a].category \in Branch(c)}
<1>1. /\ parent' = [parent EXCEPT ![c] = par] /\ par \notin Branch(c) /\ attribute' = attribute
      /\ reset \/ par = Nil \/ \A a \in below : Inherited(attribute[a].name, par) = {}
      /\ unchecked' = IF reset /\ par # Nil THEN unchecked \cup below ELSE unchecked
  BY DEF MoveCategory
<1> SUFFICES ASSUME NEW x \in Attrs, NEW y \in Attrs, Clash(x, y)', {x, y} \cap unchecked' = {}
             PROVE  FALSE
  BY DEF OneAttributePerName, Clash
<1>2. /\ x # y /\ InForce(x) /\ InForce(y) /\ attribute[x].name = attribute[y].name
      /\ attribute'[x].category \in Line(attribute[y].category)'
  BY <1>1 DEF Clash, InForce, Exists
<1>3. attribute[x].category \in Cats /\ attribute[y].category \in Cats
  BY <1>2, InForceIs DEF NInv
<1>4. PICK d \in Cats, e \in Cats : d = attribute[x].category /\ e = attribute[y].category
  BY <1>3
<1>5. d \in Line(e)'
  BY <1>1, <1>2, <1>4 DEF Line
<1>6. d \in Line(e) \/ (c \in Line(e) /\ par # Nil /\ d \in Line(par))
  BY <1>1, <1>5, LineMoved DEF NInv, TypeOK, Tree
<1>7. ~Clash(x, y)
  BY <1>1, NamesByClash DEF NInv
<1>8. c \in Line(e) /\ par # Nil /\ d \in Line(par)
  BY <1>2, <1>4, <1>6, <1>7 DEF Clash
<1>9. y \in below
  BY <1>2, <1>4, <1>8 DEF Branch
<1>10. ~reset
  BY <1>1, <1>8, <1>9
<1>11. PICK n : n = attribute[y].name
  OBVIOUS
<1>12. Inherited(n, par) = {}
  BY <1>1, <1>8, <1>9, <1>10, <1>11
<1>13. x \in Holders(n, Line(par)) /\ par \in Cats
  BY <1>2, <1>4, <1>8, <1>11 DEF Holders
<1> QED
  BY <1>12, <1>13, SomeInherited DEF NInv, TypeOK, Tree

\* What leaves the attributes, the tree and the unchecked leaves the names.
LEMMA NamesStay ==
  ASSUME NInv, UNCHANGED <<parent, attribute, unchecked>> PROVE OneAttributePerName'
BY DEF NInv, OneAttributePerName, InForce, Exists, Line

\* Attributes stay and catalogs in use, too.
LEMMA CatalogsStay ==
  ASSUME NInv, CatalogsKept, UNCHANGED attribute, unchecked \subseteq unchecked' PROVE CatalogsInForce'
<1> SUFFICES ASSUME NEW x \in Attrs, x \notin unchecked', InForce(x), attribute[x].type = "catalog"
             PROVE  attribute[x].catalog # Nil /\ catalog'[attribute[x].catalog] # Nil
                    /\ catalog'[attribute[x].catalog].active
  BY DEF CatalogsInForce, OnSale, InForce, Exists
<1>1. attribute[x].catalog # Nil /\ OnSale(attribute[x].catalog)
  BY DEF NInv, CatalogsInForce
<1>2. attribute[x].catalog \in Catalogs
  BY <1>1, InForceIs DEF NInv, Attribute
<1>3. PICK k \in Catalogs : k = attribute[x].catalog
  BY <1>2
<1>4. UsersOf(k) # {}
  BY <1>3 DEF UsersOf
<1>5. OnSale(k)'
  BY <1>1, <1>3, <1>4 DEF CatalogsKept
<1> QED
  BY <1>1, <1>3, <1>5 DEF OnSale

\* Catalogs that stay are kept.
LEMMA SameCatalogs ==
  ASSUME TypeOK, UNCHANGED catalogs PROVE CatalogsKept
BY DEF catalogs, CatalogsKept, TypeOK, OneCatalogPerName, Named, OnSale

\* Before the first attribute there is nothing to clash or to draw from.
LEMMA InitNames == Init => NInv
<1> SUFFICES ASSUME Init PROVE NInv
  OBVIOUS
<1>1. TypeOK
  BY InitValues DEF VInv
<1>2. OneAttributePerName /\ CatalogsInForce
  BY DEF Init, OneAttributePerName, CatalogsInForce, InForce, Exists
<1>3. OneCatalogPerName
  BY DEF Init, OneCatalogPerName, Named, OnSale
<1> QED
  BY <1>1, <1>2, <1>3 DEF NInv

\* What a request about attributes writes keeps names and catalogs.
LEMMA AttributeNames ==
  ASSUME NInv, IsFiniteSet(Cats), AttributeRequests
  PROVE  OneAttributePerName' /\ CatalogsKept /\ CatalogsInForce'
<1> DEFINE Good == OneAttributePerName' /\ CatalogsKept /\ CatalogsInForce'
<1>0. TypeOK
  BY DEF NInv
<1>1. ASSUME NEW a \in Attrs, NEW c \in Cats, NEW n \in Names, NEW type \in Types,
             NEW required \in BOOLEAN, NEW options \in OptionsFor(type), NEW chosen \in ChoiceFor(type),
             AddAttribute(a, c, n, type, required, options, chosen)
      PROVE  Good
  <2>1. /\ AttributeKept(a) /\ CatalogsKept
        /\ attribute'[a].category = c /\ attribute'[a].name = n /\ attribute'[a].type = type
        /\ type = "catalog" => attribute'[a].catalog \in Catalogs /\ OnSale(attribute[a].catalog)'
    BY <1>0, <1>1, AddWrites
  <2>2. UNCHANGED <<parent, unchecked>> /\ NameFree(n, c, Nil)
    BY <1>1 DEF AddAttribute
  <2>3. \A b \in Attrs : b # Nil
    BY NilIsNone
  <2>4. OneAttributePerName'
    BY <2>1, <2>2, <2>3, WriteNames
  <2>5. CatalogsInForce'
    BY <2>1, <2>2, NilIsNone, WriteCatalogs
  <2> QED
    BY <2>1, <2>4, <2>5
<1>2. ASSUME NEW a \in Attrs, NEW n \in Names, NEW type \in Types, NEW required \in BOOLEAN,
             NEW options \in OptionsFor(type) \cup {Nil}, NEW chosen \in ChoiceFor(type),
             UpdateAttribute(a, n, type, required, options, chosen)
      PROVE  Good
  <2>1. /\ Exists(a) /\ AttributeKept(a) /\ CatalogsKept
        /\ attribute'[a].category = attribute[a].category /\ attribute'[a].name = n
        /\ attribute'[a].type = type /\ attribute'[a].active = attribute[a].active
        /\ type = "catalog" => attribute'[a].catalog # Nil /\ OnSale(attribute[a].catalog)'
    BY <1>0, <1>2, UpdateWrites
  <2>2. /\ UNCHANGED <<parent, unchecked>>
        /\ n = attribute[a].name \/ NameFree(n, attribute[a].category, a)
    BY <1>2 DEF UpdateAttribute
  <2>3. InForce(a)' => InForce(a)
    BY <2>1 DEF InForce
  <2>4. attribute[a].category \in Cats
    BY <1>0, <2>1, NilIsNone DEF TypeOK, Exists, Attribute
  <2>5. OneAttributePerName'
    <3>1. CASE n = attribute[a].name
      BY <2>1, <2>2, <2>3, <3>1, WriteNames
    <3>2. CASE NameFree(n, attribute[a].category, a)
      <4>1. NameFree(attribute'[a].name, attribute'[a].category, a)
        BY <2>1, <3>2
      <4> QED
        BY <2>1, <2>2, <2>4, <4>1, WriteNames
    <3> QED
      BY <2>2, <3>1, <3>2
  <2>6. CatalogsInForce'
    BY <2>1, <2>2, WriteCatalogs
  <2> QED
    BY <2>1, <2>5, <2>6
<1>3. ASSUME NEW a \in Attrs, DeactivateAttribute(a)
      PROVE  Good
  <2>1. /\ Exists(a) /\ attribute' = [attribute EXCEPT ![a].active = FALSE]
        /\ UNCHANGED <<parent, catalogs, unchecked>>
    BY <1>3 DEF DeactivateAttribute, InForce
  <2>2. AttributeKept(a) /\ attribute'[a].active = FALSE
    BY <1>0, <2>1, FlagWrites
  <2>3. ~InForce(a)'
    BY <2>2 DEF InForce
  <2>4. CatalogsKept
    BY <1>0, <2>1, SameCatalogs
  <2> QED
    BY <2>1, <2>2, <2>3, <2>4, WriteNames, WriteCatalogs
<1>4. ASSUME NEW a \in Attrs, ReactivateAttribute(a)
      PROVE  Good
  <2>1. /\ Exists(a) /\ attribute' = [attribute EXCEPT ![a].active = TRUE]
        /\ UNCHANGED <<parent, catalogs>> /\ unchecked' = unchecked \cup {a}
    BY <1>4 DEF ReactivateAttribute
  <2>2. AttributeKept(a)
    BY <1>0, <2>1, FlagWrites
  <2>3. CatalogsKept /\ a \in unchecked' /\ unchecked \subseteq unchecked'
    BY <1>0, <2>1, SameCatalogs
  <2> QED
    BY <2>1, <2>2, <2>3, WriteNames, WriteCatalogs
<1>5. ASSUME NEW a \in Attrs, DeleteAttribute(a)
      PROVE  Good
  <2>1. /\ attribute' = [attribute EXCEPT ![a] = Nil] /\ unchecked' = unchecked \ {a}
        /\ UNCHANGED <<parent, catalogs>>
    BY <1>5 DEF DeleteAttribute
  <2>2. ~InForce(a)' /\ \A b \in Attrs : b # a => attribute'[b] = attribute[b] /\ (InForce(b)' <=> InForce(b))
    BY <1>0, <2>1 DEF TypeOK, InForce, Exists
  <2>3. \A d : Line(d)' = Line(d)
    BY <2>1 DEF Line
  <2>4. OneAttributePerName'
    <3> SUFFICES ASSUME NEW x \in Attrs, NEW y \in Attrs, Clash(x, y)', {x, y} \cap unchecked' = {}
                 PROVE  FALSE
      BY DEF OneAttributePerName, Clash
    <3>1. x # a /\ y # a
      BY <2>2 DEF Clash
    <3>2. /\ x # y /\ InForce(x)' /\ InForce(y)' /\ attribute'[x].name = attribute'[y].name
          /\ attribute'[x].category \in Line(attribute'[y].category)
      BY <2>3 DEF Clash
    <3>3. Clash(x, y)
      BY <2>2, <3>1, <3>2 DEF Clash
    <3>4. {x, y} \cap unchecked # {}
      BY <3>3, NamesByClash DEF NInv
    <3> QED
      BY <2>1, <3>1, <3>4
  <2>5. \A k : OnSale(k)' <=> OnSale(k)
    BY <2>1 DEF catalogs, OnSale
  <2>6. CatalogsInForce'
    <3> SUFFICES ASSUME NEW x \in Attrs, x \notin unchecked', InForce(x)', attribute'[x].type = "catalog"
                 PROVE  attribute'[x].catalog # Nil /\ OnSale(attribute[x].catalog)'
      BY DEF CatalogsInForce
    <3>1. x # a /\ attribute'[x] = attribute[x] /\ InForce(x) /\ x \notin unchecked
      BY <2>1, <2>2
    <3>2. attribute[x].catalog # Nil /\ OnSale(attribute[x].catalog)
      BY <3>1 DEF NInv, CatalogsInForce
    <3> QED
      BY <2>1, <3>1, <3>2 DEF OnSale, catalogs
  <2> QED
    BY <1>0, <2>1, <2>4, <2>6, SameCatalogs
<1>6. ASSUME NEW c \in Cats, NEW par \in Cats \cup {Nil}, NEW reset \in BOOLEAN,
             MoveCategory(c, par, reset)
      PROVE  Good
  <2>1. UNCHANGED <<attribute, catalogs>> /\ unchecked \subseteq unchecked'
    BY <1>6 DEF MoveCategory
  <2>2. CatalogsKept
    BY <1>0, <2>1, SameCatalogs
  <2> QED
    BY <1>6, <2>1, <2>2, MoveNames, CatalogsStay
<1> HIDE DEF Good
<1>7. Good
  <2>1. CASE \E a \in Attrs, c \in Cats, n \in Names, type \in Types, required \in BOOLEAN :
               \E options \in OptionsFor(type), chosen \in ChoiceFor(type) :
                 AddAttribute(a, c, n, type, required, options, chosen)
    BY ONLY <2>1, <1>1
  <2>2. CASE \E a \in Attrs, n \in Names, type \in Types, required \in BOOLEAN :
               \E options \in OptionsFor(type) \cup {Nil}, chosen \in ChoiceFor(type) :
                 UpdateAttribute(a, n, type, required, options, chosen)
    BY ONLY <2>2, <1>2
  <2>3. CASE \E a \in Attrs : DeactivateAttribute(a) \/ ReactivateAttribute(a) \/ DeleteAttribute(a)
    BY ONLY <2>3, <1>3, <1>4, <1>5
  <2>4. CASE \E c \in Cats, par \in Cats \cup {Nil}, reset \in BOOLEAN : MoveCategory(c, par, reset)
    BY ONLY <2>4, <1>6
  <2> QED
    BY ONLY <2>1, <2>2, <2>3, <2>4, AttributeRequests DEF AttributeRequests
<1> QED
  BY <1>7 DEF Good

\* Every step keeps names and catalogs.
LEMMA NextNames == ASSUME IsFiniteSet(Cats) PROVE NInv /\ TypeOK' /\ [Next]_vars => NInv'
<1> SUFFICES ASSUME NInv, TypeOK', [Next]_vars PROVE NInv'
  OBVIOUS
<1>0. TypeOK
  BY DEF NInv
<1>1. CASE CatalogRequests
  <2>1. CatalogsKept /\ UNCHANGED <<parent, attribute, unchecked>>
    BY <1>0, <1>1, CatalogSteps DEF OnlyCatalogs
  <2> QED
    BY <2>1, NamesStay, CatalogsStay DEF NInv, CatalogsKept
<1>2. CASE AttributeRequests
  BY <1>2, AttributeNames DEF NInv, CatalogsKept
<1>3. ASSUME UNCHANGED <<parent, attribute, catalogs, unchecked>> PROVE NInv'
  <2>1. CatalogsKept
    BY <1>0, <1>3, SameCatalogs
  <2> QED
    BY <1>3, <2>1, NamesStay, CatalogsStay DEF NInv, CatalogsKept
<1>4. CASE (\E p \in Products, given \in [Names -> Values \cup {Nil}] : UpdateProduct(p, given))
  BY <1>3, <1>4 DEF UpdateProduct
<1>5. CASE (\E r \in Row, v \in Values : Resolve(r, v))
  BY <1>3, <1>5 DEF Resolve
<1>6. CASE UNCHANGED vars
  BY <1>3, <1>6 DEF vars
<1> QED
  BY <1>1, <1>2, <1>4, <1>5, <1>6 DEF Next

\* The names' and catalogs' invariant holds in every finite tree.
THEOREM NameInvariance == ASSUME IsFiniteSet(Cats) PROVE Spec => []NInv
<1>1. Init => NInv
  BY InitNames
<1>2. NInv /\ TypeOK' /\ [Next]_vars => NInv'
  BY NextNames
<1> QED
  BY <1>1, <1>2, TypeCorrect, PTL DEF Spec

\* A name finds one attribute on a branch, however the branch came together, and
\* one active catalog.
THEOREM NamesStayUnique == ASSUME IsFiniteSet(Cats) PROVE Spec => []NamesUnique
<1>1. ASSUME NInv PROVE NamesUnique
  <2>1. ASSUME NEW n \in Names PROVE Cardinality(Named(n)) <= 1
    <3>1. \A k, m \in Named(n) : k = m
      BY <1>1 DEF NInv, OneCatalogPerName
    <3>2. CASE Named(n) = {}
      <4>1. Cardinality({}) = 0
        BY ONLY FS_EmptySet
      <4> QED
        BY ONLY <3>2, <4>1
    <3>3. CASE Named(n) # {}
      <4>1. PICK k : k \in Named(n)
        BY <3>3
      <4>2. Named(n) = {k}
        BY <3>1, <4>1
      <4>3. Cardinality({k}) = 1
        BY ONLY FS_Singleton
      <4> QED
        BY ONLY <4>2, <4>3
    <3> QED
      BY <3>2, <3>3
  <2> QED
    BY <1>1, <2>1 DEF NInv, NamesUnique, CatalogNamesUnique
<1> QED
  BY <1>1, NameInvariance, PTL

\* The catalog that an attribute in force draws from is on sale (CATALOG_IN_USE).
THEOREM CatalogsStayInForce == ASSUME IsFiniteSet(Cats) PROVE Spec => []CatalogsInForce
<1>1. NInv => CatalogsInForce
  BY DEF NInv
<1> QED
  BY <1>1, NameInvariance, PTL
=============================================================================
