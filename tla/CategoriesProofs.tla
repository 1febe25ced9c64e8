--------------------------- MODULE CategoriesProofs ---------------------------
(***************************************************************************)
(* The tree of categories, for any categories, products and requests, as   *)
(* long as no two requests touch one category: it never has a cycle,       *)
(* nothing active hangs below what is not, and products arrive at leaves,  *)
(* whatever documents do to the stock meanwhile.                           *)
(*                                                                         *)
(* A request decides on what it read and writes later.  The proof says     *)
(* what must still be true of the tree when it writes (Hung, Placed, Kept, *)
(* AtLeaves) and that the commits of others, which touch other categories, *)
(* keep it so.                                                             *)
(***************************************************************************)
EXTENDS Categories, TLAPS

USE CategoriesAssumption DEF CategoriesAssumption

\* The part of the tree that the writes of t move, B, is cut off from the rest:
\* nothing outside hangs from it, and its new parents are outside.
Apart(t) ==
  \E B \in SUBSET t.touched :
    Closed(B) /\ DOMAIN t.parent \subseteq B /\ \A c \in DOMAIN t.parent : t.parent[c] \notin B

\* A category that gets a status exists, or is created with its parent.
Hung(t) ==
  /\ \A c \in DOMAIN t.status : /\ t.status[c] # Absent
                                /\ status[c] # Absent \/ c \in DOMAIN t.parent
  /\ \A c \in DOMAIN t.parent :
       t.parent[c] # Nil => t.parent[c] \in t.touched /\ status[t.parent[c]] # Absent
  /\ Apart(t)

\* Products are moved from a touched category or created.
Placed(t) ==
  /\ \A p \in DOMAIN t.shelf : /\ t.shelf[p] # Absent
                               /\ home[p] # Nil \/ p \in DOMAIN t.home
  /\ \A p \in DOMAIN t.home : IF home[p] = Nil THEN p \in DOMAIN t.shelf
                                              ELSE home[p] \in t.touched

\* The status of a category when t has been written.
After(t, c) == IF c \in DOMAIN t.status THEN t.status[c] ELSE status[c]

\* Everything t brings or activates is below an active category, and whatever is
\* active below a category that t closes goes elsewhere or with it.
Kept(t) ==
  /\ \A c \in DOMAIN t.status : /\ c \in t.touched
                                /\ t.status[c] = "active" => c \in DOMAIN t.parent
  /\ \A c \in DOMAIN t.parent : t.parent[c] # Nil => After(t, t.parent[c]) = "active"
  /\ \A p \in DOMAIN t.home : t.home[p] \in t.touched /\ After(t, t.home[p]) = "active"
  /\ \A p \in DOMAIN t.shelf \ DOMAIN t.home :
       home[p] \in t.touched /\ (t.shelf[p] = "active" => After(t, home[p]) = "active")
  /\ \A c \in DOMAIN t.status : t.status[c] = "inactive" =>
       /\ c \notin bucket => ActiveChildren(c) = {}
       /\ \A p \in Direct(c) : p \in DOMAIN t.home \/ (p \in DOMAIN t.shelf /\ t.shelf[p] = "inactive")

\* Products go to a leaf or from a category to its default child, and all of them
\* go when t gives their category a child.
AtLeaves(t) ==
  /\ \A p \in DOMAIN t.home :
       IF t.home[p] \in bucket \cup t.bucket
       THEN home[p] = IF t.home[p] \in DOMAIN t.parent THEN t.parent[t.home[p]] ELSE parent[t.home[p]]
       ELSE ActiveChildren(t.home[p]) = {} /\ DOMAIN t.parent = {}
  /\ \A c \in DOMAIN t.parent : (c \in DOMAIN t.status /\ t.parent[c] # Nil) =>
       /\ DOMAIN t.shelf = {}
       /\ Direct(t.parent[c]) \subseteq DOMAIN t.home
       /\ \A p \in DOMAIN t.home : t.home[p] # t.parent[c]

\* A product exists in a category, and a category below an existing one.
Filed == \A p \in Products : shelf[p] = Absent <=> home[p] = Nil

ParentsExist ==
  \A c \in Cats : (status[c] # Absent /\ parent[c] # Nil) => status[parent[c]] # Absent

\* Pending requests touch different categories and create different products.
Disjoint ==
  \A q, r \in Requests : (q # r /\ task[q] # Nil /\ task[r] # Nil) =>
    /\ task[q].touched \cap task[r].touched = {}
    /\ \A p \in DOMAIN task[q].home \cap DOMAIN task[r].home : home[p] # Nil

TInv ==
  /\ TypeOK /\ Filed /\ ParentsExist /\ Acyclic /\ NothingStranded /\ Disjoint
  /\ \A r \in Requests : task[r] # Nil => /\ Hung(task[r]) /\ Placed(task[r])
                                         /\ Kept(task[r]) /\ AtLeaves(task[r])

-----------------------------------------------------------------------------

\* Nothing is written to a column that a request leaves alone.
LEMMA Empty == DOMAIN <<>> = {}
OBVIOUS

\* The writes of a request, with every column.
Columns(s, pa, b, h, sh, T) ==
  [status |-> s, parent |-> pa, bucket |-> b, home |-> h, shelf |-> sh, touched |-> T]

\* A request starts from no writes, and the next lemmas follow the columns it fills in:
LEMMA WritesNone == ASSUME NEW T PROVE Writes(T) = Columns(<<>>, <<>>, {}, <<>>, <<>>, T)
BY DEF Writes, Columns

\* ... a new branch,
LEMMA WritesBranch ==
  ASSUME NEW T, NEW s, NEW pa
  PROVE  [Writes(T) EXCEPT !.status = s, !.parent = pa] = Columns(s, pa, {}, <<>>, <<>>, T)
<1>0. PICK w : w = Writes(T)
  OBVIOUS
<1>1. PICK x1 : x1 = [w EXCEPT !.status = s]
  OBVIOUS
<1>2. PICK x2 : x2 = [x1 EXCEPT !.parent = pa]
  OBVIOUS
<1>3. x1 = Columns(s, <<>>, {}, <<>>, <<>>, T)
  BY <1>1, <1>0, WritesNone DEF Columns
<1>4. x2 = Columns(s, pa, {}, <<>>, <<>>, T)
  BY <1>2, <1>3 DEF Columns
<1> QED
  BY <1>0, <1>1, <1>2, <1>4, Zenon

\* ... a new branch, with the products that go to the default child,
LEMMA WritesMoving ==
  ASSUME NEW T, NEW s, NEW pa, NEW h
  PROVE  [Writes(T) EXCEPT !.status = s, !.parent = pa, !.home = h]
           = Columns(s, pa, {}, h, <<>>, T)
<1>0. PICK w : w = Writes(T)
  OBVIOUS
<1>1. PICK x1 : x1 = [w EXCEPT !.status = s]
  OBVIOUS
<1>2. PICK x2 : x2 = [x1 EXCEPT !.parent = pa]
  OBVIOUS
<1>3. PICK x3 : x3 = [x2 EXCEPT !.home = h]
  OBVIOUS
<1>4. x1 = Columns(s, <<>>, {}, <<>>, <<>>, T)
  BY <1>1, <1>0, WritesNone DEF Columns
<1>5. x2 = Columns(s, pa, {}, <<>>, <<>>, T)
  BY <1>2, <1>4 DEF Columns
<1>6. x3 = Columns(s, pa, {}, h, <<>>, T)
  BY <1>3, <1>5 DEF Columns
<1> QED
  BY <1>0, <1>1, <1>2, <1>3, <1>6, Zenon

\* ... a new branch with a new default child,
LEMMA WritesBucket ==
  ASSUME NEW T, NEW s, NEW pa, NEW b, NEW h
  PROVE  [Writes(T) EXCEPT !.status = s, !.parent = pa, !.bucket = b, !.home = h]
           = Columns(s, pa, b, h, <<>>, T)
<1>0. PICK w : w = Writes(T)
  OBVIOUS
<1>1. PICK x1 : x1 = [w EXCEPT !.status = s]
  OBVIOUS
<1>2. PICK x2 : x2 = [x1 EXCEPT !.parent = pa]
  OBVIOUS
<1>3. PICK x3 : x3 = [x2 EXCEPT !.bucket = b]
  OBVIOUS
<1>4. PICK x4 : x4 = [x3 EXCEPT !.home = h]
  OBVIOUS
<1>5. x1 = Columns(s, <<>>, {}, <<>>, <<>>, T)
  BY <1>1, <1>0, WritesNone DEF Columns
<1>6. x2 = Columns(s, pa, {}, <<>>, <<>>, T)
  BY <1>2, <1>5 DEF Columns
<1>7. x3 = Columns(s, pa, b, <<>>, <<>>, T)
  BY <1>3, <1>6 DEF Columns
<1>8. x4 = Columns(s, pa, b, h, <<>>, T)
  BY <1>4, <1>7 DEF Columns
<1> QED
  BY <1>0, <1>1, <1>2, <1>3, <1>4, <1>8, Zenon

\* ... another parent,
LEMMA WritesParent ==
  ASSUME NEW T, NEW pa
  PROVE  [Writes(T) EXCEPT !.parent = pa] = Columns(<<>>, pa, {}, <<>>, <<>>, T)
<1>0. PICK w : w = Writes(T)
  OBVIOUS
<1>1. PICK x1 : x1 = [w EXCEPT !.parent = pa]
  OBVIOUS
<1>2. x1 = Columns(<<>>, pa, {}, <<>>, <<>>, T)
  BY <1>1, <1>0, WritesNone DEF Columns
<1> QED
  BY <1>0, <1>1, <1>2, Zenon

\* ... a deleted category with its products,
LEMMA WritesDeletion ==
  ASSUME NEW T, NEW s, NEW sh
  PROVE  [Writes(T) EXCEPT !.status = s, !.shelf = sh] = Columns(s, <<>>, {}, <<>>, sh, T)
<1>0. PICK w : w = Writes(T)
  OBVIOUS
<1>1. PICK x1 : x1 = [w EXCEPT !.status = s]
  OBVIOUS
<1>2. PICK x2 : x2 = [x1 EXCEPT !.shelf = sh]
  OBVIOUS
<1>3. x1 = Columns(s, <<>>, {}, <<>>, <<>>, T)
  BY <1>1, <1>0, WritesNone DEF Columns
<1>4. x2 = Columns(s, <<>>, {}, <<>>, sh, T)
  BY <1>2, <1>3 DEF Columns
<1> QED
  BY <1>0, <1>1, <1>2, <1>4, Zenon

\* ... a product that comes to life in a category,
LEMMA WritesArrival ==
  ASSUME NEW T, NEW h, NEW sh
  PROVE  [Writes(T) EXCEPT !.home = h, !.shelf = sh] = Columns(<<>>, <<>>, {}, h, sh, T)
<1>0. PICK w : w = Writes(T)
  OBVIOUS
<1>1. PICK x1 : x1 = [w EXCEPT !.home = h]
  OBVIOUS
<1>2. PICK x2 : x2 = [x1 EXCEPT !.shelf = sh]
  OBVIOUS
<1>3. x1 = Columns(<<>>, <<>>, {}, h, <<>>, T)
  BY <1>1, <1>0, WritesNone DEF Columns
<1>4. x2 = Columns(<<>>, <<>>, {}, h, sh, T)
  BY <1>2, <1>3 DEF Columns
<1> QED
  BY <1>0, <1>1, <1>2, <1>4, Zenon

\* ... products that leave, with the default children they empty,
LEMMA WritesDeparture ==
  ASSUME NEW T, NEW h, NEW s
  PROVE  [Writes(T) EXCEPT !.home = h, !.status = s] = Columns(s, <<>>, {}, h, <<>>, T)
<1>0. PICK w : w = Writes(T)
  OBVIOUS
<1>1. PICK x1 : x1 = [w EXCEPT !.home = h]
  OBVIOUS
<1>2. PICK x2 : x2 = [x1 EXCEPT !.status = s]
  OBVIOUS
<1>3. x1 = Columns(<<>>, <<>>, {}, h, <<>>, T)
  BY <1>1, <1>0, WritesNone DEF Columns
<1>4. x2 = Columns(s, <<>>, {}, h, <<>>, T)
  BY <1>2, <1>3 DEF Columns
<1> QED
  BY <1>0, <1>1, <1>2, <1>4, Zenon

\* ... the status of a product.
LEMMA WritesShelf ==
  ASSUME NEW T, NEW sh
  PROVE  [Writes(T) EXCEPT !.shelf = sh] = Columns(<<>>, <<>>, {}, <<>>, sh, T)
<1>0. PICK w : w = Writes(T)
  OBVIOUS
<1>1. PICK x1 : x1 = [w EXCEPT !.shelf = sh]
  OBVIOUS
<1>2. x1 = Columns(<<>>, <<>>, {}, <<>>, sh, T)
  BY <1>1, <1>0, WritesNone DEF Columns
<1> QED
  BY <1>0, <1>1, <1>2, Zenon

\* An empty tree.
LEMMA InitTInv == Init => TInv
<1> SUFFICES ASSUME Init PROVE TInv
  OBVIOUS
<1> USE DEF Init
<1>1. TypeOK
  BY DEF TypeOK, Statuses
<1>2. Filed /\ ParentsExist
  BY DEF Filed, ParentsExist
<1>3. Acyclic
  BY DEF Acyclic, Existing
<1>4. Disjoint
  BY DEF Disjoint
<1>5. NothingStranded
  BY DEF NothingStranded, ActiveParents, ProductsReachable, Active, Absent
<1> QED
  BY <1>1, <1>2, <1>3, <1>4, <1>5 DEF TInv

\* A request that has decided waits with writes that fit the tree.
LEMMA StartInv ==
  ASSUME ~SameCategory, TInv, NEW r \in Requests, NEW t, Start(r, t),
         IsTask(t), Hung(t), Placed(t), Kept(t), AtLeaves(t),
         \A p \in DOMAIN t.home : home[p] = Nil =>
           \A q \in Requests : task[q] # Nil => p \notin DOMAIN task[q].home
  PROVE  TInv'
<1>1. UNCHANGED <<tree, products>> /\ task[r] = Nil /\ task' = [task EXCEPT ![r] = t]
  BY DEF Start
<1>2. task'[r] = t /\ \A q \in Requests \ {r} : task'[q] = task[q]
  BY <1>1 DEF TInv, TypeOK
<1>3. TypeOK'
  BY <1>1, <1>2 DEF TInv, TypeOK, tree, products, IsTask
<1>4. Filed' /\ ParentsExist' /\ Acyclic' /\ NothingStranded'
  BY <1>1 DEF TInv, tree, products, Filed, ParentsExist, Acyclic, Existing, NothingStranded,
              ActiveParents, ProductsReachable, Active
<1>5. Disjoint'
  <2>1. \A q \in Requests : task[q] # Nil => task[q].touched \cap t.touched = {}
    BY DEF Start
  <2> QED
    BY <1>1, <1>2, <2>1 DEF TInv, Disjoint, products
<1>6. \A q \in Requests : task'[q] # Nil =>
        Hung(task'[q]) /\ Placed(task'[q]) /\ Kept(task'[q]) /\ AtLeaves(task'[q])
  BY <1>2 DEF TInv
<1>7. \A q \in Requests : task'[q] # Nil => Hung(task[q])' /\ Placed(task[q])'
  BY <1>1, <1>6 DEF Hung, Placed, Apart, Closed, tree, products
<1>8. \A q \in Requests : task'[q] # Nil => Kept(task[q])' /\ AtLeaves(task[q])'
  BY <1>1, <1>6 DEF Kept, AtLeaves, After, ActiveChildren, Direct, Active, tree, products
<1> QED
  BY <1>3, <1>4, <1>5, <1>7, <1>8 DEF TInv

-----------------------------------------------------------------------------
(* Committing.                                                             *)

\* The columns after a commit.
LEMMA Written ==
  ASSUME TInv, NEW r \in Requests, Commit(r), NEW t, t = task[r]
  PROVE  /\ IsTask(t) /\ Hung(t) /\ Placed(t) /\ Kept(t) /\ AtLeaves(t)
         /\ \A c \in Cats : status'[c] = IF c \in DOMAIN t.status THEN t.status[c] ELSE status[c]
         /\ \A c \in Cats : parent'[c] = IF c \in DOMAIN t.parent THEN t.parent[c] ELSE parent[c]
         /\ \A p \in Products : home'[p] = IF p \in DOMAIN t.home THEN t.home[p] ELSE home[p]
         /\ \A p \in Products : shelf'[p] = IF p \in DOMAIN t.shelf THEN t.shelf[p] ELSE shelf[p]
         /\ task'[r] = Nil /\ \A q \in Requests \ {r} : task'[q] = task[q]
         /\ \A c \in Cats : status[c] # Absent => status'[c] # Absent
<1>1. IsTask(t) /\ Hung(t) /\ Placed(t) /\ Kept(t) /\ AtLeaves(t)
  BY DEF Commit, TInv, TypeOK
<1>2. \A c \in Cats : status'[c] = IF c \in DOMAIN t.status THEN t.status[c] ELSE status[c]
  BY DEF Commit, Overwrite, TInv, TypeOK
<1>3. \A c \in Cats : parent'[c] = IF c \in DOMAIN t.parent THEN t.parent[c] ELSE parent[c]
  BY DEF Commit, Overwrite, TInv, TypeOK
<1>4. \A p \in Products : home'[p] = IF p \in DOMAIN t.home THEN t.home[p] ELSE home[p]
  BY DEF Commit, Overwrite, TInv, TypeOK
<1>5. \A p \in Products : shelf'[p] = IF p \in DOMAIN t.shelf THEN t.shelf[p] ELSE shelf[p]
  BY DEF Commit, Overwrite, TInv, TypeOK
<1>6. task'[r] = Nil /\ \A q \in Requests \ {r} : task'[q] = task[q]
  BY DEF Commit, TInv, TypeOK
<1>7. \A c \in Cats : status[c] # Absent => status'[c] # Absent
  BY <1>1, <1>2 DEF Hung
<1> QED
  BY <1>1, <1>2, <1>3, <1>4, <1>5, <1>6, <1>7

\* Categories that hang together after a commit without a way out would have
\* done so before: those of them outside B.
LEMMA CommitAcyclic ==
  ASSUME TInv, NEW r \in Requests, Commit(r)
  PROVE  Acyclic'
<1>0. PICK t : t = task[r]
  OBVIOUS
<1>1. /\ IsTask(t) /\ Hung(t)
      /\ \A c \in Cats : status'[c] = IF c \in DOMAIN t.status THEN t.status[c] ELSE status[c]
      /\ \A c \in Cats : parent'[c] = IF c \in DOMAIN t.parent THEN t.parent[c] ELSE parent[c]
  BY <1>0, Written
<1> SUFFICES ASSUME NEW S \in SUBSET Cats, S # {}, \A c \in S : status'[c] # Absent,
                    \A c \in S : parent'[c] \in S
             PROVE  FALSE
  BY DEF Acyclic, Existing
<1>2. PICK B \in SUBSET t.touched :
        Closed(B) /\ DOMAIN t.parent \subseteq B /\ \A c \in DOMAIN t.parent : t.parent[c] \notin B
  BY <1>1 DEF Hung, Apart
<1>3. PICK T \in SUBSET S : T = S \ B
  OBVIOUS
<1>4. \A c \in T : status[c] # Absent /\ parent'[c] = parent[c]
  BY <1>1, <1>2, <1>3 DEF Hung
<1>5. \A c \in T : parent[c] \in T
  BY <1>2, <1>3, <1>4 DEF Closed
<1>6. T # {}
  <2>1. CASE S \cap DOMAIN t.parent = {}
    <3>1. \A c \in S : status[c] # Absent /\ parent[c] \in S
      BY <1>1, <2>1 DEF Hung
    <3> QED
      BY <3>1 DEF TInv, Acyclic, Existing
  <2>2. CASE S \cap DOMAIN t.parent # {}
    BY <1>1, <1>2, <1>3, <2>2
  <2> QED
    BY <2>1, <2>2
<1> QED
  BY <1>4, <1>5, <1>6 DEF TInv, Acyclic, Existing

\* What one request waits to write still fits after another's commit.
LEMMA OthersFit ==
  ASSUME TInv, NEW r \in Requests, Commit(r), NEW q \in Requests, q # r, task[q] # Nil
  PROVE  Hung(task[q])' /\ Placed(task[q])'
<1>0. PICK t, u : t = task[r] /\ u = task[q]
  OBVIOUS
<1>1. /\ IsTask(t) /\ Hung(t) /\ Placed(t)
      /\ \A c \in Cats : parent'[c] = IF c \in DOMAIN t.parent THEN t.parent[c] ELSE parent[c]
      /\ \A c \in Cats : status'[c] = IF c \in DOMAIN t.status THEN t.status[c] ELSE status[c]
      /\ \A p \in Products : home'[p] = IF p \in DOMAIN t.home THEN t.home[p] ELSE home[p]
      /\ \A c \in Cats : status[c] # Absent => status'[c] # Absent
  BY <1>0, Written
<1>2. IsTask(u) /\ Hung(u) /\ Placed(u) /\ task'[q] = u
  BY <1>0, Written DEF TInv, TypeOK
<1>3. t.touched \cap u.touched = {} /\ \A p \in DOMAIN t.home \cap DOMAIN u.home : home[p] # Nil
  BY <1>0 DEF TInv, Disjoint, Commit
<1>4. \A p \in Products : (p \in DOMAIN t.home /\ home[p] # Nil) => home[p] \in t.touched
  BY <1>1 DEF Placed
<1>5. \A p \in Products : home[p] \in u.touched => home'[p] = home[p]
  BY <1>1, <1>2, <1>3, <1>4 DEF IsTask
<1>6. \A p \in Products : home[p] \in Cats => home'[p] \in Cats
  BY <1>1 DEF IsTask, Assigns
<1>7. Apart(u)'
  <2>1. PICK B \in SUBSET u.touched :
          Closed(B) /\ DOMAIN u.parent \subseteq B /\ \A c \in DOMAIN u.parent : u.parent[c] \notin B
    BY <1>2 DEF Hung, Apart
  <2>2. Closed(B)'
    <3> SUFFICES ASSUME NEW d \in Cats, status'[d] # Absent, parent'[d] \in B PROVE d \in B
      BY DEF Closed
    <3>1. d \notin DOMAIN t.parent
      BY <1>1, <1>2, <1>3, <2>1 DEF Hung, IsTask
    <3>2. status[d] # Absent /\ parent'[d] = parent[d]
      BY <1>1, <3>1 DEF Hung
    <3> QED
      BY <2>1, <3>2 DEF Closed
  <2> QED
    BY <2>1, <2>2 DEF Apart
<1>8. Hung(u)'
  BY <1>1, <1>2, <1>7 DEF Hung, IsTask, Assigns
<1>9. Placed(u)'
  <2>1. \A p \in DOMAIN u.shelf : home'[p] # Nil \/ p \in DOMAIN u.home
    BY <1>2, <1>6 DEF Placed, IsTask, Assigns, TInv, TypeOK
  <2>2. \A p \in DOMAIN u.home : IF home'[p] = Nil THEN p \in DOMAIN u.shelf
                                                ELSE home'[p] \in u.touched
    <3> SUFFICES ASSUME NEW p \in DOMAIN u.home
                 PROVE  IF home'[p] = Nil THEN p \in DOMAIN u.shelf ELSE home'[p] \in u.touched
      OBVIOUS
    <3>1. p \in Products
      BY <1>2 DEF IsTask, Assigns
    <3>2. CASE home[p] # Nil
      BY <1>2, <1>5, <3>1, <3>2 DEF Placed, IsTask
    <3>3. CASE home[p] = Nil
      BY <1>1, <1>2, <1>3, <3>1, <3>3 DEF Placed
    <3> QED
      BY <3>2, <3>3
  <2>3. stocked' = stocked
    BY DEF Commit
  <2> QED
    BY <1>2, <1>5, <2>1, <2>2, <2>3 DEF Placed, IsTask, Assigns
<1> QED
  BY <1>2, <1>8, <1>9

\* A commit brings nothing below an inactive category and leaves nothing below one it closes.
LEMMA CommitStrandsNothing ==
  ASSUME TInv, NEW r \in Requests, Commit(r)
  PROVE  NothingStranded'
<1>0. PICK t : t = task[r]
  OBVIOUS
<1>1. /\ IsTask(t) /\ Hung(t) /\ Placed(t) /\ Kept(t)
      /\ \A c \in Cats : parent'[c] = IF c \in DOMAIN t.parent THEN t.parent[c] ELSE parent[c]
      /\ \A p \in Products : home'[p] = IF p \in DOMAIN t.home THEN t.home[p] ELSE home[p]
      /\ \A p \in Products : shelf'[p] = IF p \in DOMAIN t.shelf THEN t.shelf[p] ELSE shelf[p]
  BY <1>0, Written
<1>2. \A c \in Cats : status'[c] = After(t, c)
  BY <1>0, Written DEF After
<1>3. bucket \subseteq bucket'
  BY DEF Commit
<1>4. \A c \in DOMAIN t.status : t.status[c] \in {"active", "inactive"}
  BY <1>1 DEF Hung, IsTask, Assigns, Statuses
<1>5. ASSUME NEW c \in Cats, NEW par \in Cats, status'[c] = "active", parent'[c] = par,
             par \notin bucket'
      PROVE  status'[par] = "active"
  <2>1. CASE c \in DOMAIN t.parent
    BY <1>1, <1>2, <1>5, <2>1 DEF Kept
  <2>2. CASE c \notin DOMAIN t.parent
    <3>1. status[c] = "active" /\ parent[c] = par
      BY <1>1, <1>2, <1>4, <1>5, <2>2 DEF Kept, After
    <3>2. status[par] = "active"
      BY <1>3, <1>5, <3>1 DEF TInv, NothingStranded, ActiveParents, Active
    <3>3. c \in ActiveChildren(par)
      BY <3>1 DEF ActiveChildren, Active
    <3> QED
      BY <1>1, <1>2, <1>3, <1>4, <1>5, <3>2, <3>3 DEF Kept, After
  <2> QED
    BY <2>1, <2>2
<1>6. ASSUME NEW p \in Products, shelf'[p] = "active"
      PROVE  home'[p] \in Cats /\ status'[home'[p]] = "active"
  <2>1. CASE p \in DOMAIN t.home
    BY <1>1, <1>2, <2>1 DEF Kept, IsTask, Assigns
  <2>2. CASE p \in DOMAIN t.shelf \ DOMAIN t.home
    BY <1>1, <1>2, <1>6, <2>2 DEF Kept, IsTask
  <2>3. CASE p \notin DOMAIN t.shelf /\ p \notin DOMAIN t.home
    <3>1. shelf[p] = "active" /\ home'[p] = home[p]
      BY <1>1, <1>6, <2>3
    <3>2. home[p] \in Cats /\ status[home[p]] = "active"
      BY <3>1 DEF TInv, NothingStranded, ProductsReachable, Active
    <3>3. p \in Direct(home[p])
      BY <3>1 DEF Direct
    <3> QED
      BY <1>1, <1>2, <1>4, <2>3, <3>1, <3>2, <3>3 DEF Kept, After
  <2> QED
    BY <2>1, <2>2, <2>3
<1> QED
  BY <1>5, <1>6 DEF NothingStranded, ActiveParents, ProductsReachable, Active

\* What one request waits to write still keeps everything reachable, and puts it at
\* leaves, after another's commit.
LEMMA OthersKept ==
  ASSUME TInv, NEW r \in Requests, Commit(r), NEW q \in Requests, q # r, task[q] # Nil
  PROVE  Kept(task[q])' /\ AtLeaves(task[q])'
<1>0. PICK t, u : t = task[r] /\ u = task[q]
  OBVIOUS
<1>1. /\ IsTask(t) /\ Hung(t) /\ Placed(t) /\ Kept(t)
      /\ \A c \in Cats : status'[c] = IF c \in DOMAIN t.status THEN t.status[c] ELSE status[c]
      /\ \A c \in Cats : parent'[c] = IF c \in DOMAIN t.parent THEN t.parent[c] ELSE parent[c]
      /\ \A p \in Products : home'[p] = IF p \in DOMAIN t.home THEN t.home[p] ELSE home[p]
      /\ \A p \in Products : shelf'[p] = IF p \in DOMAIN t.shelf THEN t.shelf[p] ELSE shelf[p]
  BY <1>0, Written
<1>2. IsTask(u) /\ Hung(u) /\ Placed(u) /\ Kept(u) /\ AtLeaves(u) /\ task'[q] = u
  BY <1>0, Written DEF TInv, TypeOK
<1>3. t.touched \cap u.touched = {} /\ \A p \in DOMAIN t.home \cap DOMAIN u.home : home[p] # Nil
  BY <1>0 DEF TInv, Disjoint, Commit
\* the categories that u touches are as they were, with what is in them
<1>4. \A c \in u.touched : c \in Cats /\ status'[c] = status[c] /\ parent'[c] = parent[c]
  <2>1. \A c \in DOMAIN t.status \cup DOMAIN t.parent : c \in t.touched
    BY <1>1 DEF Kept, Hung, Apart
  <2> QED
    BY <1>1, <1>2, <1>3, <2>1 DEF IsTask
<1>5. \A c \in u.touched : c \in bucket' <=> c \in bucket
  BY <1>0, <1>1, <1>3 DEF Commit, IsTask
<1>6. \A c \in u.touched : Direct(c)' \subseteq Direct(c)
  <2> SUFFICES ASSUME NEW c \in u.touched, NEW p \in Products, shelf'[p] = "active", home'[p] = c
               PROVE  shelf[p] = "active" /\ home[p] = c
    BY DEF Direct
  <2>1. p \notin DOMAIN t.home
    BY <1>1, <1>3 DEF Kept
  <2>2. p \notin DOMAIN t.shelf
    BY <1>1, <1>3, <2>1 DEF Kept
  <2> QED
    BY <1>1, <2>1, <2>2
<1>7. \A c \in u.touched : ActiveChildren(c)' \subseteq ActiveChildren(c)
  <2> SUFFICES ASSUME NEW c \in u.touched, NEW d \in Cats, status'[d] = "active", parent'[d] = c
               PROVE  status[d] = "active" /\ parent[d] = c
    BY DEF ActiveChildren, Active
  <2>1. d \notin DOMAIN t.parent
    BY <1>1, <1>2, <1>3 DEF Hung, IsTask
  <2> QED
    BY <1>1, <2>1 DEF Kept
<1>8. \A p \in Products : home[p] \in u.touched => home'[p] = home[p]
  BY <1>1, <1>2, <1>3 DEF IsTask, Placed
<1>9. Kept(u)'
  <2>1. \A c \in u.touched : After(u, c)' = After(u, c)
    BY <1>4 DEF After
  <2>2. \A c \in DOMAIN u.parent : u.parent[c] # Nil => After(u, u.parent[c])' = "active"
    BY <1>2, <2>1 DEF Kept, Hung
  <2>3. \A p \in DOMAIN u.home : u.home[p] \in u.touched /\ After(u, u.home[p])' = "active"
    BY <1>2, <2>1 DEF Kept
  <2>4. \A p \in DOMAIN u.shelf \ DOMAIN u.home :
          home'[p] \in u.touched /\ (u.shelf[p] = "active" => After(u, home[p])' = "active")
    BY <1>2, <1>8, <2>1 DEF Kept, IsTask, Assigns
  <2>5. \A c \in DOMAIN u.status : u.status[c] = "inactive" =>
          /\ c \notin bucket' => ActiveChildren(c)' = {}
          /\ \A p \in Direct(c)' : p \in DOMAIN u.home \/ (p \in DOMAIN u.shelf /\ u.shelf[p] = "inactive")
    BY <1>2, <1>5, <1>6, <1>7 DEF Kept
  <2> QED
    BY <1>2, <2>2, <2>3, <2>4, <2>5 DEF Kept
<1>10. AtLeaves(u)'
  <2>1. ASSUME NEW p \in DOMAIN u.home
        PROVE  IF u.home[p] \in bucket' \cup u.bucket
               THEN home'[p] = IF u.home[p] \in DOMAIN u.parent THEN u.parent[u.home[p]]
                                                              ELSE parent'[u.home[p]]
               ELSE ActiveChildren(u.home[p])' = {} /\ DOMAIN u.parent = {}
    <3>1. p \in Products /\ u.home[p] \in u.touched
      BY <1>2 DEF IsTask, Assigns, Kept
    <3>2. home'[p] = home[p]
      BY <1>1, <1>2, <1>3, <1>8, <3>1 DEF Placed
    <3> QED
      BY <1>2, <1>4, <1>5, <1>7, <3>1, <3>2 DEF AtLeaves
  <2>2. \A c \in DOMAIN u.parent : (c \in DOMAIN u.status /\ u.parent[c] # Nil) =>
          /\ DOMAIN u.shelf = {}
          /\ Direct(u.parent[c])' \subseteq DOMAIN u.home
          /\ \A p \in DOMAIN u.home : u.home[p] # u.parent[c]
    BY <1>2, <1>6 DEF AtLeaves, Hung
  <2> QED
    BY <2>1, <2>2 DEF AtLeaves
<1> QED
  BY <1>2, <1>9, <1>10

\* A commit keeps the tree and what others wait to write in order.
LEMMA CommitInv ==
  ASSUME TInv, NEW r \in Requests, Commit(r)
  PROVE  TInv'
<1>0. PICK t : t = task[r]
  OBVIOUS
<1>1. /\ IsTask(t) /\ Hung(t) /\ Placed(t)
      /\ \A c \in Cats : status'[c] = IF c \in DOMAIN t.status THEN t.status[c] ELSE status[c]
      /\ \A c \in Cats : parent'[c] = IF c \in DOMAIN t.parent THEN t.parent[c] ELSE parent[c]
      /\ \A p \in Products : home'[p] = IF p \in DOMAIN t.home THEN t.home[p] ELSE home[p]
      /\ \A p \in Products : shelf'[p] = IF p \in DOMAIN t.shelf THEN t.shelf[p] ELSE shelf[p]
      /\ task'[r] = Nil /\ \A q \in Requests \ {r} : task'[q] = task[q]
      /\ \A c \in Cats : status[c] # Absent => status'[c] # Absent
  BY <1>0, Written
<1>2. TypeOK'
  <2>1. status' \in [Cats -> Statuses] /\ parent' \in [Cats -> Cats \cup {Nil}]
    BY <1>0, <1>1 DEF Commit, Overwrite, TInv, TypeOK, IsTask, Assigns
  <2>2. home' \in [Products -> Cats \cup {Nil}] /\ shelf' \in [Products -> Statuses]
    BY <1>0, <1>1 DEF Commit, Overwrite, TInv, TypeOK, IsTask, Assigns
  <2>3. bucket' \subseteq Cats
    BY <1>0, <1>1 DEF Commit, TInv, TypeOK, IsTask
  <2>4. stocked' \subseteq Products /\ DOMAIN task' = Requests
    BY DEF Commit, TInv, TypeOK
  <2>5. \A q \in Requests : task'[q] = Nil \/ IsTask(task'[q])
    BY <1>1 DEF TInv, TypeOK
  <2> QED
    BY <2>1, <2>2, <2>3, <2>4, <2>5 DEF TypeOK, IsTask
<1>3. Filed'
  BY <1>1 DEF TInv, TypeOK, Filed, Placed, IsTask, Assigns
<1>4. ParentsExist'
  <2> SUFFICES ASSUME NEW c \in Cats, status'[c] # Absent, parent'[c] # Nil
               PROVE  status'[parent'[c]] # Absent
    BY DEF ParentsExist
  <2>1. parent'[c] \in Cats /\ status[parent'[c]] # Absent
    BY <1>1 DEF Hung, TInv, ParentsExist, IsTask, Assigns, TypeOK
  <2> QED
    BY <1>1, <2>1
<1>5. Acyclic'
  BY CommitAcyclic
<1>6. Disjoint'
  <2> SUFFICES ASSUME NEW q \in Requests, NEW s \in Requests, q # s, task'[q] # Nil, task'[s] # Nil,
                      NEW p \in DOMAIN task[q].home \cap DOMAIN task[s].home
               PROVE  home'[p] # Nil
    BY <1>1 DEF TInv, Disjoint
  <2>1. q # r /\ s # r /\ IsTask(task[q])
    BY <1>1 DEF TInv, TypeOK
  <2>2. p \in Products /\ home[p] # Nil
    BY <1>1, <2>1 DEF TInv, Disjoint, IsTask, Assigns
  <2> QED
    BY <1>1, <2>2 DEF IsTask, Assigns
<1>7. \A q \in Requests : task'[q] # Nil => Hung(task[q])' /\ Placed(task[q])'
  BY <1>1, OthersFit
<1>8. \A q \in Requests : task'[q] # Nil => Kept(task[q])' /\ AtLeaves(task[q])'
  BY <1>1, OthersKept
<1>9. NothingStranded'
  BY CommitStrandsNothing
<1> QED
  BY <1>2, <1>3, <1>4, <1>5, <1>6, <1>7, <1>8, <1>9 DEF TInv

-----------------------------------------------------------------------------
(* Deciding: what each request wants to write fits the tree it has read.   *)

\* A request that writes no parent cuts nothing off.
LEMMA SameTree ==
  ASSUME NEW t, DOMAIN t.parent = {}, \A c \in DOMAIN t.status : t.status[c] # Absent /\ status[c] # Absent
  PROVE  Hung(t)
BY DEF Hung, Apart, Closed

\* Creating C below par, where nothing hangs from categories that do not exist.
LEMMA NewBranch ==
  ASSUME TInv, NEW t, NEW C \in SUBSET Cats, \A c \in C : status[c] = Absent,
         NEW par \in Cats \cup {Nil}, par # Nil => status[par] # Absent /\ par \in t.touched,
         C \subseteq t.touched, t.parent = All(C, par), t.status = All(C, New)
  PROVE  Hung(t)
<1>1. par \notin C
  OBVIOUS
<1>2. Closed(C)
  BY DEF Closed, TInv, ParentsExist
<1>3. Apart(t)
  BY <1>1, <1>2 DEF Apart, All
<1> QED
  BY <1>3 DEF Hung, All, New, Absent

\* A branch is what is below its top, the top included.
LEMMA BranchCut ==
  ASSUME NEW c \in Cats
  PROVE  Branch(c) \subseteq Cats /\ c \in Branch(c) /\ Closed(Branch(c))
BY DEF Branch, Closed

\* Deciding in a request on categories, one after the other.
LEMMA CategoryInv ==
  ASSUME ~SameCategory, TInv, NEW r \in Requests, CategoryRequests(r)
  PROVE  TInv'
<1> USE Empty
<1>1. ASSUME NEW c \in Free, CreateRoot(r, c)
      PROVE  TInv'
  <2>0. PICK t : t = Columns(All({c}, New), All({c}, Nil), {}, <<>>, <<>>, {c})
    OBVIOUS
  <2>1. Start(r, t)
    <3>1. t = [Writes({c}) EXCEPT !.status = All({c}, New), !.parent = All({c}, Nil)]
      BY <2>0, WritesBranch, Zenon
    <3> QED
      BY <1>1, <3>1, Zenon DEF CreateRoot
  <2>2. c \in Cats /\ status[c] = Absent
    BY <1>1 DEF Free
  <2>3. IsTask(t)
    BY <2>0, <2>2 DEF IsTask, Columns, Writes, Assigns, All, New, Statuses
  <2>4. Hung(t)
    BY <2>0, <2>2, NewBranch DEF Columns
  <2>5. Placed(t)
    BY <2>0 DEF Columns, Placed
  <2>6. Kept(t) /\ AtLeaves(t)
    BY <2>0 DEF Columns, Kept, AtLeaves, All, New
  <2> QED
    BY <2>0, <2>1, <2>3, <2>4, <2>5, <2>6, StartInv DEF Columns
<1>2. ASSUME NEW c \in Free, NEW par \in Cats, CreateCategory(r, c, par)
      PROVE  TInv'
  <2>1. c \in Cats /\ status[c] = Absent /\ status[par] = "active"
    BY <1>2 DEF Free, CreateCategory, Active
  <2>2. \A b \in DefaultChildren(par) :
          b \in Cats /\ b \in bucket /\ status[b] = "active" /\ parent[b] = par
    BY DEF DefaultChildren, ActiveChildren, Active
  <2>3. \A p \in Direct(par) : p \in Products /\ home[p] = par
    BY DEF Direct
  \* whichever it writes, a new default child or not, products moved or not
  <2>4. ASSUME NEW C \in SUBSET Cats, NEW T \in SUBSET Cats, NEW B \in SUBSET C, NEW h,
               C \subseteq T, par \in T, \A d \in C : status[d] = Absent, DOMAIN h = Direct(par),
               \A p \in DOMAIN h :
                 h[p] \in T /\ (h[p] \in B \/ h[p] \in DefaultChildren(par)),
               Start(r, Columns(All(C, New), All(C, par), B, h, <<>>, T))
        PROVE  TInv'
    <3>0. PICK t : t = Columns(All(C, New), All(C, par), B, h, <<>>, T)
      OBVIOUS
    <3>1. Start(r, t)
      BY <2>4, <3>0
    <3>2. IsTask(t)
      BY <2>3, <2>4, <3>0 DEF IsTask, Columns, Writes, Assigns, All, New, Statuses
    <3>3. Hung(t)
      BY <2>1, <2>4, <3>0, NewBranch DEF Columns, Absent
    <3>4. Placed(t)
      BY <2>3, <2>4, <3>0 DEF Columns, Placed, All, New
    <3>5. \A p \in DOMAIN t.home : home[p] # Nil
      BY <2>3, <2>4, <3>0 DEF Columns
    <3>6. \A d \in Cats : After(t, d) = IF d \in C THEN "active" ELSE status[d]
      BY <3>0 DEF Columns, After, All, New
    <3>7. par \notin C /\ \A d \in DefaultChildren(par) : d \notin C
      BY <2>1, <2>2, <2>4 DEF Absent
    <3>8. parent[par] # par
      <4>1. {par} \in SUBSET Existing /\ {par} # {}
        BY <2>1 DEF Existing, Absent
      <4> QED
        BY <4>1 DEF TInv, Acyclic
    <3>9. Kept(t)
      BY <2>1, <2>2, <2>4, <3>0, <3>6, <3>7 DEF Columns, Kept, All, New
    <3>10. AtLeaves(t)
      <4>1. \A p \in DOMAIN h : h[p] \in bucket \cup B
                               /\ home[p] = IF h[p] \in C THEN par ELSE parent[h[p]]
        BY <2>2, <2>3, <2>4
      <4>2. \A p \in DOMAIN h : h[p] # par
        BY <2>2, <2>4, <3>7, <3>8
      <4>3. t.home = h /\ t.bucket = B /\ DOMAIN t.shelf = {} /\ DOMAIN t.parent = C
            /\ DOMAIN t.status = C /\ \A d \in C : t.parent[d] = par
        BY <3>0 DEF Columns, All
      <4> QED
        BY <2>4, <4>1, <4>2, <4>3 DEF AtLeaves
    <3> QED
      BY <3>1, <3>2, <3>3, <3>4, <3>5, <3>9, <3>10, StartInv
  <2>5. CASE Direct(par) = {}
    <3>1. Start(r, Columns(All({c}, New), All({c}, par), {}, <<>>, <<>>, {c, par}))
      <4>1. Start(r, [Writes({c, par}) EXCEPT !.status = All({c}, New), !.parent = All({c}, par)])
        BY <1>2, <2>5, Zenon DEF CreateCategory
      <4> QED
        BY <4>1, WritesBranch, Zenon
    <3> QED
      BY <2>1, <2>4, <2>5, <3>1
  <2>6. CASE Direct(par) # {} /\ DefaultChildren(par) # {}
    <3>1. PICK b \in DefaultChildren(par) :
            Start(r, [Writes({c, par, b}) EXCEPT !.status = All({c}, New), !.parent = All({c}, par),
                                                 !.home = All(Moved(par), b)])
      BY <1>2, <2>6, Zenon DEF CreateCategory
    <3>2. PICK C, T, h : C = {c} /\ T = {c, par, b} /\ h = All(Moved(par), b)
      OBVIOUS
    <3>3. Start(r, Columns(All(C, New), All(C, par), {}, h, <<>>, T))
      BY <3>1, <3>2, WritesMoving, Zenon
    <3>4. DOMAIN h = Direct(par)
          /\ \A p \in DOMAIN h : h[p] \in T /\ h[p] \in DefaultChildren(par)
      BY <3>2 DEF All, Moved
    <3>5. C \in SUBSET Cats /\ T \in SUBSET Cats /\ C \subseteq T /\ par \in T
          /\ \A d \in C : status[d] = Absent
      BY <2>1, <2>2, <3>2
    <3> QED
      BY <2>4, <3>3, <3>4, <3>5
  <2>7. CASE Direct(par) # {} /\ DefaultChildren(par) = {}
    <3>1. PICK b \in Free \ {c} :
            Start(r, [Writes({c, par, b}) EXCEPT !.status = All({c, b}, New),
                                                 !.parent = All({c, b}, par),
                                                 !.bucket = {b}, !.home = All(Moved(par), b)])
      BY <1>2, <2>7, Zenon DEF CreateCategory
    <3>2. PICK C, T, B, h : C = {c, b} /\ T = {c, par, b} /\ B = {b} /\ h = All(Moved(par), b)
      OBVIOUS
    <3>3. Start(r, Columns(All(C, New), All(C, par), B, h, <<>>, T))
      <4>1. [Writes(T) EXCEPT !.status = All(C, New), !.parent = All(C, par),
                              !.bucket = B, !.home = h]
              = Columns(All(C, New), All(C, par), B, h, <<>>, T)
        BY WritesBucket, Zenon
      <4>2. Start(r, [Writes(T) EXCEPT !.status = All(C, New), !.parent = All(C, par),
                                       !.bucket = B, !.home = h])
        BY <3>1, <3>2, Zenon
      <4> QED
        BY <4>1, <4>2, Zenon
    <3>4. DOMAIN h = Direct(par) /\ \A p \in DOMAIN h : h[p] \in T /\ h[p] \in B
      BY <3>2 DEF All, Moved
    <3>5. C \in SUBSET Cats /\ T \in SUBSET Cats /\ B \in SUBSET C /\ C \subseteq T /\ par \in T
          /\ \A d \in C : status[d] = Absent
      BY <2>1, <3>2 DEF Free
    <3> QED
      BY <2>4, <3>3, <3>4, <3>5
  <2> QED
    BY <2>5, <2>6, <2>7
<1>3. ASSUME NEW c \in Cats, NEW par \in Cats \cup {Nil}, MoveCategory(r, c, par)
      PROVE  TInv'
  <2>0. PICK t : t = Columns(<<>>, All({c}, par), {}, <<>>, <<>>, Branch(c) \cup ({par} \ {Nil}))
    OBVIOUS
  <2>1. Start(r, t)
    BY <1>3, <2>0, WritesParent DEF MoveCategory
  <2>2. IsTask(t)
    BY <2>0, BranchCut DEF IsTask, Columns, Writes, Assigns, All
  <2>3. par # Nil => status[par] = "active" /\ par \notin Branch(c)
    BY <1>3 DEF MoveCategory, Movable, Active
  <2>4. Apart(t)
    <3>1. par \notin Branch(c)
      BY <2>3, BranchCut
    <3> QED
      BY <2>0, <3>1, BranchCut DEF Columns, Apart, All
  <2>5. Hung(t)
    BY <2>0, <2>3, <2>4 DEF Columns, Hung, All, Absent
  <2>6. Placed(t)
    BY <2>0 DEF Columns, Placed
  <2>7. Kept(t) /\ AtLeaves(t)
    BY <2>0, <2>3 DEF Columns, Kept, AtLeaves, After, All
  <2> QED
    BY <2>0, <2>1, <2>2, <2>5, <2>6, <2>7, StartInv DEF Columns
<1>4. ASSUME NEW c \in Cats, NEW withProducts, DeleteCategory(r, c, withProducts)
      PROVE  TInv'
  <2>0. PICK t : t = Columns(All({c}, "inactive"), <<>>, {}, <<>>, All(Direct(c), "inactive"), {c})
    OBVIOUS
  <2>1. Start(r, t) /\ status[c] # Absent /\ ActiveChildren(c) = {}
    <3>1. t = [Writes({c}) EXCEPT !.status = All({c}, "inactive"),
                                  !.shelf = All(Direct(c), "inactive")]
      BY <2>0, WritesDeletion, Zenon
    <3>2. Start(r, t)
      BY <1>4, <3>1, Zenon DEF DeleteCategory
    <3> QED
      BY <1>4, <3>2 DEF DeleteCategory, Deletable, Active, Absent
  <2>2. IsTask(t)
    BY <2>0 DEF IsTask, Columns, Writes, Assigns, All, Statuses, Direct
  <2>3. Hung(t)
    BY <2>0, <2>1, SameTree DEF Columns, All, Absent
  <2>4. Placed(t)
    BY <2>0, <2>1 DEF Columns, Placed, All, Direct, Absent
  <2>5. Kept(t) /\ AtLeaves(t)
    BY <2>0, <2>1 DEF Columns, Kept, AtLeaves, All, Direct
  <2> QED
    BY <2>0, <2>1, <2>2, <2>3, <2>4, <2>5, StartInv DEF Columns
<1> QED
  BY <1>1, <1>2, <1>3, <1>4 DEF CategoryRequests

\* Deciding in a request on products.
LEMMA ProductInv ==
  ASSUME ~SameCategory, TInv, NEW r \in Requests, ProductRequests(r)
  PROVE  TInv'
<1> USE Empty
\* products that exist, moved to assignable categories, and emptied ones closed
<1>1. ASSUME NEW h, NEW S, NEW T \in SUBSET Cats, Assigns(h, Products, T),
             \A p \in DOMAIN h : home[p] \in T,
             \A p \in DOMAIN h : Assignable(h[p]),
             S \in SUBSET (T \cap bucket), \A c \in S : status[c] # Absent /\ Direct(c) \subseteq DOMAIN h,
             Start(r, Columns(All(S, "inactive"), <<>>, {}, h, <<>>, T))
      PROVE  TInv'
  <2>0. PICK t : t = Columns(All(S, "inactive"), <<>>, {}, h, <<>>, T)
    OBVIOUS
  <2>1. IsTask(t)
    BY <1>1, <2>0 DEF IsTask, Columns, Writes, Assigns, All, Statuses
  <2>2. Hung(t)
    BY <1>1, <2>0, SameTree DEF Columns, All, Absent
  <2>3. Placed(t)
    BY <1>1, <2>0 DEF Columns, Placed
  <2>4. \A p \in DOMAIN t.home : home[p] # Nil
    BY <1>1, <2>0 DEF Columns, Assigns
  <2>5. \A p \in DOMAIN h : /\ h[p] \in T /\ status[h[p]] = "active" /\ h[p] \notin S
                           /\ h[p] \notin bucket /\ ActiveChildren(h[p]) = {}
    BY <1>1 DEF Assigns, Assignable, Active
  <2>6. Kept(t)
    BY <1>1, <2>0, <2>5 DEF Columns, Kept, After, All
  <2>7. AtLeaves(t)
    BY <2>0, <2>5 DEF Columns, AtLeaves
  <2> QED
    BY <1>1, <2>0, <2>1, <2>2, <2>3, <2>4, <2>6, <2>7, StartInv
\* a product that comes to life, where it is or in an assignable category
<1>2. ASSUME NEW p \in Products, NEW c \in Cats, NEW T \in SUBSET Cats, c \in T, Assignable(c),
             home[p] # Nil => home[p] \in T,
             home[p] = Nil => \A q \in Requests : task[q] # Nil => p \notin DOMAIN task[q].home,
             Start(r, Columns(<<>>, <<>>, {}, All({p}, c), All({p}, New), T))
      PROVE  TInv'
  <2>0. PICK t : t = Columns(<<>>, <<>>, {}, All({p}, c), All({p}, New), T)
    OBVIOUS
  <2>1. IsTask(t)
    BY <1>2, <2>0 DEF IsTask, Columns, Writes, Assigns, All, New, Statuses
  <2>2. Hung(t)
    BY <2>0, SameTree DEF Columns
  <2>3. Placed(t)
    BY <1>2, <2>0 DEF Columns, Placed, All, New, Absent
  <2>4. DOMAIN t.home = {p}
    BY <2>0 DEF Columns, All
  <2>5. Kept(t) /\ AtLeaves(t)
    BY <1>2, <2>0 DEF Columns, Kept, AtLeaves, After, All, Assignable, Active
  <2> QED
    BY <1>2, <2>0, <2>1, <2>2, <2>3, <2>4, <2>5, StartInv
<1>3. ASSUME NEW p \in Products, NEW s \in {"active", "inactive"}, home[p] \in Cats,
             s = "active" => Active(home[p]),
             Start(r, Columns(<<>>, <<>>, {}, <<>>, All({p}, s), {home[p]}))
      PROVE  TInv'
  <2>0. PICK t : t = Columns(<<>>, <<>>, {}, <<>>, All({p}, s), {home[p]})
    OBVIOUS
  <2>1. IsTask(t)
    BY <1>3, <2>0 DEF IsTask, Columns, Writes, Assigns, All, Statuses
  <2>2. Hung(t)
    BY <2>0, SameTree DEF Columns
  <2>3. Placed(t)
    BY <1>3, <2>0 DEF Columns, Placed, All, Absent
  <2>4. DOMAIN t.home = {}
    BY <2>0 DEF Columns
  <2>5. Kept(t) /\ AtLeaves(t)
    BY <1>3, <2>0 DEF Columns, Kept, AtLeaves, After, All, Active
  <2> QED
    BY <1>3, <2>0, <2>1, <2>2, <2>3, <2>4, <2>5, StartInv
<1>4. ASSUME NEW p \in Products, NEW c \in Cats, CreateProduct(r, p, c)
      PROVE  TInv'
  <2>1. Start(r, Columns(<<>>, <<>>, {}, All({p}, c), All({p}, New), {c}))
    BY <1>4, WritesArrival, Zenon DEF CreateProduct
  <2> QED
    BY <1>2, <1>4, <2>1 DEF CreateProduct, TInv, Filed
<1>5. ASSUME NEW p \in Products, NEW c \in Cats, MoveProduct(r, p, c)
      PROVE  TInv'
  <2>1. PICK h, S, T : h = All({p}, c) /\ S = Emptied(home[p], Direct(home[p])) /\ T = {home[p], c}
    OBVIOUS
  <2>2. Start(r, Columns(All(S, "inactive"), <<>>, {}, h, <<>>, T))
    <3>1. [Writes(T) EXCEPT !.home = h, !.status = All(S, "inactive")]
            = Columns(All(S, "inactive"), <<>>, {}, h, <<>>, T)
      BY WritesDeparture, Zenon
    <3>2. Start(r, [Writes(T) EXCEPT !.home = h, !.status = All(S, "inactive")])
      BY <1>5, <2>1, Zenon DEF MoveProduct
    <3> QED
      BY <3>1, <3>2, Zenon
  <2>3. home[p] \in Cats
    BY <1>5 DEF MoveProduct, TInv, TypeOK, Filed
  <2>4. T \in SUBSET Cats /\ S \in SUBSET (T \cap bucket)
        /\ \A d \in S : status[d] # Absent /\ Direct(d) \subseteq DOMAIN h
    BY <2>1, <2>3 DEF Emptied, Active, Absent
  <2>5. Assigns(h, Products, T) /\ \A q \in DOMAIN h : home[q] \in T /\ Assignable(h[q])
    BY <1>5, <2>1 DEF Assigns, All, MoveProduct
  <2> QED
    BY <1>1, <2>1, <2>2, <2>3, <2>4, <2>5
<1>6. ASSUME NEW p \in Products, NEW c \in Cats, ReactivateElsewhere(r, p, c)
      PROVE  TInv'
  <2>1. Start(r, Columns(<<>>, <<>>, {}, All({p}, c), All({p}, "active"), {home[p], c}))
    BY <1>6, WritesArrival, Zenon DEF ReactivateElsewhere
  <2>2. home[p] \in Cats /\ "active" = New /\ Assignable(c)
    BY <1>6 DEF ReactivateElsewhere, TInv, TypeOK, Filed, Absent, New
  <2> QED
    BY <1>2, <2>1, <2>2
<1>7. ASSUME NEW p \in Products, SetInactive(r, p) \/ Reactivate(r, p)
      PROVE  TInv'
  <2>1. PICK s \in {"active", "inactive"} : /\ s = "active" => Active(home[p])
                                           /\ Start(r, [Writes({home[p]}) EXCEPT !.shelf = All({p}, s)])
    <3>1. CASE SetInactive(r, p)
      BY <3>1, "inactive" # "active", Zenon DEF SetInactive
    <3>2. CASE Reactivate(r, p)
      BY <3>2, Zenon DEF Reactivate, ReactivatedInPlace
    <3> QED
      BY <1>7, <3>1, <3>2
  <2>2. Start(r, Columns(<<>>, <<>>, {}, <<>>, All({p}, s), {home[p]}))
    BY <2>1, WritesShelf, Zenon
  <2>3. home[p] \in Cats
    BY <1>7 DEF SetInactive, Reactivate, TInv, TypeOK, Filed, Absent
  <2> QED
    BY <1>3, <2>1, <2>2, <2>3
<1>8. ASSUME NEW moved \in SUBSET Products, Recategorize(r, moved)
      PROVE  TInv'
  <2>0. PICK old : old = {home[p] : p \in moved}
    OBVIOUS
  <2>1. PICK h \in [moved -> {c \in Cats : Assignable(c)}] :
          Start(r, [Writes(old \cup {h[p] : p \in moved}) EXCEPT
                      !.home = h,
                      !.status = All(UNION {Emptied(d, LeftAfter(d, moved)) : d \in old}, "inactive")])
    BY <1>8, <2>0, Zenon DEF Recategorize
  <2>2. PICK S, T : S = UNION {Emptied(d, LeftAfter(d, moved)) : d \in old}
                    /\ T = old \cup {h[p] : p \in moved}
    OBVIOUS
  <2>3. Start(r, Columns(All(S, "inactive"), <<>>, {}, h, <<>>, T))
    <3>1. [Writes(T) EXCEPT !.home = h, !.status = All(S, "inactive")]
            = Columns(All(S, "inactive"), <<>>, {}, h, <<>>, T)
      BY WritesDeparture, Zenon
    <3>2. Start(r, [Writes(T) EXCEPT !.home = h, !.status = All(S, "inactive")])
      BY <2>1, <2>2, Zenon
    <3> QED
      BY <3>1, <3>2, Zenon
  <2>4. \A p \in moved : home[p] \in Cats
    BY <1>8 DEF Recategorize, TInv, TypeOK, Filed
  <2>5. S \in SUBSET (T \cap bucket) /\ \A d \in S : status[d] # Absent /\ Direct(d) \subseteq DOMAIN h
    BY <2>0, <2>2, <2>4 DEF Emptied, Active, Absent, LeftAfter
  <2>6. T \in SUBSET Cats /\ Assigns(h, Products, T)
        /\ \A q \in DOMAIN h : home[q] \in T /\ Assignable(h[q])
    BY <2>0, <2>2, <2>4 DEF Assigns
  <2> QED
    BY <1>1, <2>3, <2>5, <2>6
<1> QED
  BY <1>4, <1>5, <1>6, <1>7, <1>8 DEF ProductRequests

-----------------------------------------------------------------------------
(* The theorems.                                                           *)

\* A step that writes no column and starts no request.
LEMMA Frame ==
  ASSUME TInv, UNCHANGED <<status, parent, bucket, home, shelf>>, stocked' \subseteq Products,
         DOMAIN task' = Requests, \A q \in Requests : task'[q] \in {Nil, task[q]}
  PROVE  TInv'
<1>1. TypeOK'
  BY DEF TInv, TypeOK, IsTask
<1>2. Filed' /\ ParentsExist' /\ NothingStranded'
  BY DEF TInv, Filed, ParentsExist, NothingStranded, ActiveParents, ProductsReachable, Active
<1>3. Acyclic'
  BY DEF TInv, Acyclic, Existing
<1>4. Disjoint'
  BY DEF TInv, Disjoint
<1>5. ASSUME NEW q \in Requests, task'[q] # Nil
      PROVE  Hung(task[q])' /\ Placed(task[q])' /\ Kept(task[q])' /\ AtLeaves(task[q])'
  <2>0. PICK t : t = task[q]
    OBVIOUS
  <2>1. Hung(t) /\ Placed(t) /\ Kept(t) /\ AtLeaves(t) /\ IsTask(t) /\ task'[q] = t
    BY <1>5, <2>0 DEF TInv, TypeOK
  <2>2. Hung(t)'
    BY <2>1 DEF Hung, Apart, Closed
  <2>3. Placed(t)'
    BY <2>1 DEF Placed
  <2>4. Kept(t)' /\ AtLeaves(t)'
    BY <2>1 DEF Kept, AtLeaves, After, ActiveChildren, Direct, Active
  <2> QED
    BY <2>1, <2>2, <2>3, <2>4
<1> QED
  BY <1>1, <1>2, <1>3, <1>4, <1>5 DEF TInv

\* Every step keeps the invariant.
LEMMA StepTInv ==
  ASSUME ~SameCategory, TInv, [Next]_vars
  PROVE  TInv'
<1>1. CASE UNCHANGED vars
  <2>1. UNCHANGED <<status, parent, bucket, home, shelf, stocked, task>>
    BY <1>1 DEF vars, tree, products
  <2>2. stocked' \subseteq Products /\ DOMAIN task' = Requests
    BY <2>1 DEF TInv, TypeOK
  <2> QED
    BY <2>1, <2>2, Frame
<1>2. ASSUME NEW r \in Requests, CategoryRequests(r) \/ ProductRequests(r) \/ Commit(r)
      PROVE  TInv'
  BY <1>2, CategoryInv, ProductInv, CommitInv
<1>3. ASSUME NEW r \in Requests, Abort(r)
      PROVE  TInv'
  <2>1. UNCHANGED <<status, parent, bucket, home, shelf, stocked>> /\ task' = [task EXCEPT ![r] = Nil]
    BY <1>3 DEF Abort, tree, products
  <2>2. stocked' \subseteq Products /\ DOMAIN task' = Requests
        /\ \A q \in Requests : task'[q] \in {Nil, task[q]}
    BY <2>1 DEF TInv, TypeOK
  <2> QED
    BY <2>1, <2>2, Frame
<1>4. ASSUME NEW p \in Products, StockMoves(p)
      PROVE  TInv'
  <2>1. UNCHANGED <<status, parent, bucket, home, shelf, task>>
    BY <1>4 DEF StockMoves, tree
  <2>2. stocked' \subseteq Products /\ DOMAIN task' = Requests
    BY <1>4, <2>1 DEF StockMoves, TInv, TypeOK
  <2> QED
    BY <2>1, <2>2, Frame
<1> QED
  BY <1>1, <1>2, <1>3, <1>4 DEF Next

\* Only a commit creates categories, moves products or activates them.
LEMMA OnlyCommits ==
  ASSUME [Next]_vars
  PROVE  UNCHANGED <<status, parent, bucket, home, shelf>> \/ \E r \in Requests : Commit(r)
<1>1. ASSUME NEW r \in Requests, CategoryRequests(r)
      PROVE  UNCHANGED <<tree, products>>
  BY <1>1 DEF CategoryRequests, CreateRoot, CreateCategory, MoveCategory, DeleteCategory, Start
<1>2. ASSUME NEW r \in Requests, ProductRequests(r)
      PROVE  UNCHANGED <<tree, products>>
  BY <1>2 DEF ProductRequests, CreateProduct, MoveProduct, ReactivateElsewhere, SetInactive,
              Reactivate, Recategorize, Start
<1> QED
  BY <1>1, <1>2 DEF Next, vars, tree, products, Abort, StockMoves

\* What is committed arrives at leaves or at the default child of where it was.
LEMMA StepArrives ==
  ASSUME TInv, [Next]_vars
  PROVE  /\ \A p \in Products, c \in Cats :
              (shelf'[p] = "active" /\ home'[p] = c /\ home[p] # c) =>
                IF c \in bucket' THEN parent'[c] = home[p] ELSE ActiveChildren(c)' = {}
         /\ \A c, par \in Cats :
              (status[c] = Absent /\ status'[c] = "active" /\ parent'[c] = par) =>
                Direct(par)' = {}
<1>1. CASE UNCHANGED <<status, parent, bucket, home, shelf>>
  BY <1>1 DEF Absent
<1>2. ASSUME NEW r \in Requests, Commit(r)
      PROVE  /\ \A p \in Products, c \in Cats :
                  (shelf'[p] = "active" /\ home'[p] = c /\ home[p] # c) =>
                    IF c \in bucket' THEN parent'[c] = home[p] ELSE ActiveChildren(c)' = {}
             /\ \A c, par \in Cats :
                  (status[c] = Absent /\ status'[c] = "active" /\ parent'[c] = par) =>
                    Direct(par)' = {}
  <2>0. PICK t : t = task[r]
    OBVIOUS
  <2>1. /\ IsTask(t) /\ Hung(t) /\ Kept(t) /\ AtLeaves(t)
        /\ \A c \in Cats : status'[c] = IF c \in DOMAIN t.status THEN t.status[c] ELSE status[c]
        /\ \A c \in Cats : parent'[c] = IF c \in DOMAIN t.parent THEN t.parent[c] ELSE parent[c]
        /\ \A p \in Products : home'[p] = IF p \in DOMAIN t.home THEN t.home[p] ELSE home[p]
        /\ \A p \in Products : shelf'[p] = IF p \in DOMAIN t.shelf THEN t.shelf[p] ELSE shelf[p]
    BY <1>2, <2>0, Written
  <2>2. bucket' = bucket \cup t.bucket
    BY <1>2, <2>0 DEF Commit
  <2>3. ASSUME NEW p \in Products, NEW c \in Cats, home'[p] = c, home[p] # c
        PROVE  IF c \in bucket' THEN parent'[c] = home[p] ELSE ActiveChildren(c)' = {}
    <3>1. p \in DOMAIN t.home /\ t.home[p] = c
      BY <2>1, <2>3
    <3>2. CASE c \in bucket'
      BY <2>1, <2>2, <3>1, <3>2 DEF AtLeaves
    <3>3. CASE c \notin bucket'
      <4>1. ActiveChildren(c) = {} /\ DOMAIN t.parent = {}
        BY <2>1, <2>2, <3>1, <3>3 DEF AtLeaves
      <4>2. \A d \in Cats : status'[d] = "active" => status[d] = "active"
        BY <2>1, <4>1 DEF Kept
      <4>3. \A d \in Cats : parent'[d] = parent[d]
        BY <2>1, <4>1
      <4> QED
        BY <3>3, <4>1, <4>2, <4>3 DEF ActiveChildren, Active
    <3> QED
      BY <3>2, <3>3
  <2>4. ASSUME NEW c \in Cats, NEW par \in Cats, status[c] = Absent, status'[c] = "active",
               parent'[c] = par
        PROVE  Direct(par)' = {}
    <3>1. c \in DOMAIN t.status /\ c \in DOMAIN t.parent /\ t.parent[c] = par
      BY <2>1, <2>4 DEF Kept, Absent
    <3>2. DOMAIN t.shelf = {} /\ Direct(par) \subseteq DOMAIN t.home
          /\ \A p \in DOMAIN t.home : t.home[p] # par
      BY <2>1, <3>1 DEF AtLeaves
    <3> QED
      BY <2>1, <3>2 DEF Direct
  <2> QED
    BY <2>3, <2>4
<1> QED
  BY <1>1, <1>2, OnlyCommits

\* The inductive invariant holds always.
THEOREM TreeInvariance == ASSUME ~SameCategory PROVE Spec => []TInv
<1>1. Init => TInv
  BY InitTInv
<1>2. TInv /\ [Next]_vars => TInv'
  BY StepTInv
<1> QED
  BY <1>1, <1>2, PTL DEF Spec

\* The state has its type: what requests have read stays a category or product.
THEOREM TypeCorrect == ASSUME ~SameCategory PROVE Spec => []TypeOK
<1>1. TInv => TypeOK
  BY DEF TInv
<1> QED
  BY <1>1, TreeInvariance, PTL

\* No category is ever its own ancestor, however many requests create, move and
\* delete branches at the same time.
THEOREM TreeWellFormed == ASSUME ~SameCategory PROVE Spec => []Acyclic
<1>1. TInv => Acyclic
  BY DEF TInv
<1> QED
  BY <1>1, TreeInvariance, PTL

\* Whatever is active can be reached: no deletion leaves an active category below
\* an inactive one.
THEOREM NothingIsStranded == ASSUME ~SameCategory PROVE Spec => []NothingStranded
<1>1. TInv => NothingStranded
  BY DEF TInv
<1> QED
  BY <1>1, TreeInvariance, PTL

\* Products arrive at leaves, and a category that gets a child keeps none.
THEOREM ProductsArriveAtLeaves == ASSUME ~SameCategory PROVE Spec => ArrivalsAtLeaves
<1>1. TInv /\ [Next]_vars =>
        [/\ \A p \in Products, c \in Cats :
              (shelf'[p] = "active" /\ home'[p] = c /\ home[p] # c) =>
                IF c \in bucket' THEN parent'[c] = home[p] ELSE ActiveChildren(c)' = {}
         /\ \A c, par \in Cats :
              (status[c] = Absent /\ status'[c] = "active" /\ parent'[c] = par) =>
                Direct(par)' = {}]_vars
  BY StepArrives
<1> QED
  BY <1>1, TreeInvariance, PTL DEF Spec, ArrivalsAtLeaves

=============================================================================
