------------------------------ MODULE Categories ------------------------------
(***************************************************************************)
(* The tree of categories and the products filed in it (CategoryService,   *)
(* ProductService).                                                        *)
(*                                                                         *)
(* Products belong to leaves.  When a category with products gets a child, *)
(* its products move to a default child, "Sin clasificar", which takes no  *)
(* others and should go when it is empty.  Rows are never deleted, only    *)
(* made inactive.                                                          *)
(*                                                                         *)
(* No handler locks what it reads.  A request reads the tree and decides   *)
(* its writes in one step, and commits them in another; what others        *)
(* committed in between it has not seen.  Sessions do not flush before     *)
(* they query (autoflush=False), so a handler counts the products of a     *)
(* category without its own pending move unless it has written an audit    *)
(* row since.                                                              *)
(*                                                                         *)
(* Names, texts and photos are left out, and so are the attributes of a    *)
(* category (module Attributes): a repeated attribute name only refuses a  *)
(* move.                                                                   *)
(***************************************************************************)
EXTENDS Integers, FiniteSets

CONSTANTS
  Cats, Products, Requests,
  SameCategory,    \* may two requests touch one category?
  Nil

ASSUME CategoriesAssumption ==
  /\ Nil \notin Cats
  /\ SameCategory \in BOOLEAN

Absent == "absent"

NewUnset == Nil   \* variant: the column has no default

\* is_active of a new category, status of a new product
New == "active"

Statuses == {Absent, "active", "inactive"}

VARIABLES
  status,          \* of each category, absent before it is created
  parent,
  bucket,          \* categories with is_default
  home,            \* the category of each product
  shelf,           \* the status of each product
  stocked,         \* products with stock_actual > 0
  task             \* the writes each request is about to commit

tree == <<status, parent, bucket>>
products == <<home, shelf, stocked>>
vars == <<tree, products, task>>

Writes(touched) ==
  [status |-> <<>>, parent |-> <<>>, bucket |-> {},
   home |-> <<>>, shelf |-> <<>>, touched |-> touched]

\* f assigns members of T to some of S.
Assigns(f, S, T) == DOMAIN f \subseteq S /\ \A x \in DOMAIN f : f[x] \in T

IsTask(t) ==
  /\ DOMAIN t = DOMAIN Writes({})
  /\ Assigns(t.status, Cats, Statuses) /\ Assigns(t.parent, Cats, Cats \cup {Nil})
  /\ Assigns(t.home, Products, Cats) /\ Assigns(t.shelf, Products, Statuses)
  /\ t.bucket \subseteq t.touched /\ t.touched \subseteq Cats

TypeOK ==
  /\ status \in [Cats -> Statuses]
  /\ parent \in [Cats -> Cats \cup {Nil}]
  /\ bucket \subseteq Cats
  /\ home \in [Products -> Cats \cup {Nil}]
  /\ shelf \in [Products -> Statuses]
  /\ stocked \subseteq Products
  /\ DOMAIN task = Requests
  /\ \A r \in Requests : task[r] = Nil \/ IsTask(task[r])

Init ==
  /\ status = [c \in Cats |-> Absent]
  /\ parent = [c \in Cats |-> Nil]
  /\ bucket = {}
  /\ home = [p \in Products |-> Nil]
  /\ shelf = [p \in Products |-> Absent]
  /\ stocked = {}
  /\ task = [r \in Requests |-> Nil]

-----------------------------------------------------------------------------
(* Queries.                                                                *)

Active(c) == status[c] = "active"

ActiveChildren(c) == {d \in Cats : Active(d) /\ parent[d] = c}

\* Active products directly in a category.
Direct(c) == {p \in Products : shelf[p] = "active" /\ home[p] = c}

DefaultChildren(c) == ActiveChildren(c) \cap bucket

\* get_descendant_category_ids: the category and everything below it, active or
\* not, the least set that holds the category and the children of its members.
Closed(S) == \A d \in Cats : (status[d] # Absent /\ parent[d] \in S) => d \in S

Branch(c) == {d \in Cats : \A S \in SUBSET Cats : (c \in S /\ Closed(S)) => d \in S}

AssignableToAny(c) == Active(c) /\ c \notin bucket   \* variant: CATEGORY_NOT_LEAF is not raised

\* CATEGORY_NOT_FOUND, CATEGORY_NOT_LEAF, CATEGORY_IS_DEFAULT
Assignable(c) == Active(c) /\ ActiveChildren(c) = {} /\ c \notin bucket

\* Ids that no category and no pending request has.
Free == {c \in Cats : status[c] = Absent /\ \A r \in Requests :
                        task[r] # Nil => c \notin task[r].touched}

-----------------------------------------------------------------------------
(* Requests: reading and deciding.                                         *)

All(S, v) == [x \in S |-> v]

Start(r, t) ==
  /\ task[r] = Nil
  /\ SameCategory \/ \A q \in Requests : task[q] # Nil => task[q].touched \cap t.touched = {}
  /\ task' = [task EXCEPT ![r] = t]
  /\ UNCHANGED <<tree, products>>

CreateRoot(r, c) ==
  Start(r, [Writes({c}) EXCEPT !.status = All({c}, New), !.parent = All({c}, Nil)])

Moved(c) == Direct(c)

\* create_category with _ensure_default_bucket.  Two default children are an
\* error of get_default_child, and the request fails.
CreateCategory(r, c, par) ==
  /\ Active(par)
  /\ Cardinality(DefaultChildren(par)) <= 1 \/ Direct(par) = {}
  /\ IF Direct(par) = {}
     THEN Start(r, [Writes({c, par}) EXCEPT
                      !.status = All({c}, New), !.parent = All({c}, par)])
     ELSE IF DefaultChildren(par) # {}
     THEN \E b \in DefaultChildren(par) :
            Start(r, [Writes({c, par, b}) EXCEPT
                        !.status = All({c}, New), !.parent = All({c}, par),
                        !.home = All(Moved(par), b)])
     ELSE \E b \in Free \ {c} :
            Start(r, [Writes({c, par, b}) EXCEPT
                        !.status = All({c, b}, New), !.parent = All({c, b}, par),
                        !.bucket = {b}, !.home = All(Moved(par), b)])

MovableInBranch(c, par) ==   \* variant: only the category itself is no parent of its own
  par # Nil => par # c /\ Active(par)

\* CATEGORY_INVALID_PARENT, PARENT_CATEGORY_NOT_FOUND
Movable(c, par) == par # Nil => par \notin Branch(c) /\ Active(par)

\* update_category with a new parent, or to the root.
MoveCategory(r, c, par) ==
  /\ Active(c) /\ par # parent[c]
  /\ Movable(c, par)
  /\ Start(r, [Writes(Branch(c) \cup ({par} \ {Nil})) EXCEPT !.parent = All({c}, par)])

DeletableWithChildren(c) ==   \* variant: CATEGORY_HAS_CHILDREN is not raised
  Active(c) /\ Direct(c) \cap stocked = {}

Deletable(c) == Active(c) /\ ActiveChildren(c) = {} /\ Direct(c) \cap stocked = {}

\* CATEGORY_HAS_PRODUCTS unless delete_products
DeleteCategory(r, c, withProducts) ==
  /\ Deletable(c)
  /\ Direct(c) = {} \/ withProducts
  /\ Start(r, [Writes({c}) EXCEPT !.status = All({c}, "inactive"),
                                            !.shelf = All(Direct(c), "inactive")])

CreateProduct(r, p, c) ==
  /\ shelf[p] = Absent
  /\ \A q \in Requests : task[q] # Nil => p \notin DOMAIN task[q].home
  /\ Assignable(c)
  /\ Start(r, [Writes({c}) EXCEPT !.home = All({p}, c), !.shelf = All({p}, New)])

\* cleanup_default_if_empty, given the active products the query still finds.
Emptied(c, found) == IF c \in bucket /\ Active(c) /\ found = {} THEN {c} ELSE {}

\* update_product: the move is pending when the old category is counted.
MoveProduct(r, p, c) ==
  /\ shelf[p] # Absent /\ c # home[p] /\ Assignable(c)
  /\ Start(r, [Writes({home[p], c}) EXCEPT
                 !.home = All({p}, c),
                 !.status = All(Emptied(home[p], Direct(home[p])), "inactive")])

SetInactive(r, p) ==
  /\ shelf[p] = "active"
  /\ Start(r, [Writes({home[p]}) EXCEPT !.shelf = All({p}, "inactive")])

ReactivatedInPlace(p) == Active(home[p])

\* update_status: a product of an active category comes back where it was.
Reactivate(r, p) ==
  /\ shelf[p] = "inactive" /\ ReactivatedInPlace(p)
  /\ Start(r, [Writes({home[p]}) EXCEPT !.shelf = All({p}, "active")])

ReactivateElsewhere(r, p, c) ==
  /\ shelf[p] = "inactive" /\ ~Active(home[p]) /\ Assignable(c)
  /\ Start(r, [Writes({home[p], c}) EXCEPT !.home = All({p}, c),
                                                   !.shelf = All({p}, "active")])

LeftAfter(c, moved) == Direct(c) \ moved

\* recategorize: products go each to a category of its own; every move is
\* flushed with its audit row before the counts.
Recategorize(r, moved) ==
  /\ moved # {} /\ \A p \in moved : shelf[p] # Absent
  /\ \E target \in [moved -> {c \in Cats : Assignable(c)}] :
       LET old == {home[p] : p \in moved} IN
       /\ \A p \in moved : target[p] # home[p]
       /\ Start(r, [Writes(old \cup {target[p] : p \in moved}) EXCEPT
                      !.home = target,
                      !.status = All(UNION {Emptied(d, LeftAfter(d, moved)) : d \in old},
                                     "inactive")])

-----------------------------------------------------------------------------
(* Committing.  Only the columns that were assigned are written.           *)

Overwrite(f, writes) == [x \in DOMAIN f |-> IF x \in DOMAIN writes THEN writes[x] ELSE f[x]]

Commit(r) ==
  LET t == task[r] IN
  /\ t # Nil
  /\ status' = Overwrite(status, t.status)
  /\ parent' = Overwrite(parent, t.parent)
  /\ bucket' = bucket \cup t.bucket
  /\ home' = Overwrite(home, t.home)
  /\ shelf' = Overwrite(shelf, t.shelf)
  /\ task' = [task EXCEPT ![r] = Nil]
  /\ UNCHANGED stocked

\* A validation this model leaves out, a unique code, a lost connection.
Abort(r) ==
  /\ task[r] # Nil
  /\ task' = [task EXCEPT ![r] = Nil]
  /\ UNCHANGED <<tree, products>>

\* Documents move the stock of a product (StockMovements).  They neither know
\* nor lock its category, so a deletion under way may commit after them.
StockMoves(p) ==
  /\ shelf[p] # Absent
  /\ stocked' = IF p \in stocked THEN stocked \ {p} ELSE stocked \cup {p}
  /\ UNCHANGED <<tree, home, shelf, task>>

\* The endpoints under /categories.
CategoryRequests(r) ==
  \/ \E c \in Free : CreateRoot(r, c) \/ \E par \in Cats : CreateCategory(r, c, par)
  \/ \E c \in Cats, par \in Cats \cup {Nil} : MoveCategory(r, c, par)
  \/ \E c \in Cats, withProducts \in BOOLEAN : DeleteCategory(r, c, withProducts)

\* The endpoints under /products.
ProductRequests(r) ==
  \/ \E p \in Products, c \in Cats :
       CreateProduct(r, p, c) \/ MoveProduct(r, p, c) \/ ReactivateElsewhere(r, p, c)
  \/ \E p \in Products : SetInactive(r, p) \/ Reactivate(r, p)
  \/ \E moved \in SUBSET Products : Recategorize(r, moved)

Next ==
  \/ \E r \in Requests : CategoryRequests(r) \/ ProductRequests(r) \/ Commit(r) \/ Abort(r)
  \/ \E p \in Products : StockMoves(p)

Spec == Init /\ [][Next]_vars

-----------------------------------------------------------------------------
(* Properties.                                                             *)

Existing == {c \in Cats : status[c] # Absent}

\* No category is its own ancestor, or get_ancestor_ids and the recursive
\* queries over the tree would never end: every set of categories has a member
\* whose parent is outside.
Acyclic == \A S \in SUBSET Existing : S # {} => \E c \in S : parent[c] \notin S

\* (part) An active category hangs from an active one, unless from a default category:
\* its own clean-up does not look for children.
ActiveParents ==
  \A c, par \in Cats : (Active(c) /\ parent[c] = par /\ par \notin bucket) => Active(par)

\* (part) An active product is filed in an active category.
ProductsReachable ==
  \A p \in Products : shelf[p] = "active" => home[p] \in Cats /\ Active(home[p])

\* Whatever is active can be reached: deletions, moves, reactivations and
\* clean-ups leave no active category or product below an inactive category.
NothingStranded == ActiveParents /\ ProductsReachable

\* A product that arrives in a category, by creation, by a move or from an
\* inactive one, arrives at a leaf, or comes to "Sin clasificar" from its parent;
\* and a category that gets a new child keeps none.
ArrivalsAtLeaves ==
  [][/\ \A p \in Products, c \in Cats :
          (shelf'[p] = "active" /\ home'[p] = c /\ home[p] # c) =>
            IF c \in bucket' THEN parent'[c] = home[p] ELSE ActiveChildren(c)' = {}
     /\ \A c, par \in Cats :
          (status[c] = Absent /\ status'[c] = "active" /\ parent'[c] = par) =>
            Direct(par)' = {}]_vars
=============================================================================
