------------------------------ MODULE Attributes ------------------------------
(***************************************************************************)
(* The attributes of categories, the catalogs they draw from, the values   *)
(* products hold for them, and the queue of values that did not survive a  *)
(* change of type (CategoryService, CatalogService, RemapService).         *)
(*                                                                         *)
(* A product inherits the attributes of its category and of the ancestors, *)
(* and keeps its values by the NAME of the attribute, in one JSON column.  *)
(* Changing the type of an attribute converts the values of the branch;    *)
(* what cannot be converted is taken out and queued, for a person to       *)
(* answer.                                                                 *)
(*                                                                         *)
(* Requests are served one at a time here.  A conversion rewrites what it  *)
(* reads: 007 becomes 7, 7 becomes 7.0, a date loses what follows its ten  *)
(* characters.  Reading says what becomes of each text; the texts are the  *)
(* few in Strings, the plural that names a catalog is the name itself, and *)
(* the sign of numbers is left out.  The tree is that of module            *)
(* Categories, without its buckets.                                        *)
(***************************************************************************)
EXTENDS Naturals, FiniteSets

CONSTANTS
  Cats, Attrs, Names, Catalogs, Products,
  Types,           \* the data types in use
  Strings,         \* the texts that occur
  Reading,         \* what a parsed type makes of a text, Nil if it cannot read it
  Values,          \* what products may be given: [json, str]
  Options,         \* the texts catalogs and selects are given
  OptionLists,     \* the lists of options a select may be given
  MaxRows,         \* bound: rows with one text in a catalog, or alike in the queue
  MaxRequests,     \* bound: requests served
  Nil

NoText == ""

Empty == [json |-> "null", str |-> NoText]

\* The types whose values are parsed: int(), float(), the words for yes and no,
\* and date.fromisoformat of the first ten characters.
Parsed == {"integer", "decimal", "boolean", "date"}

\* What a product may hold for an attribute.  The empty text counts as null.
Value == {Empty} \cup [json : {"string", "number"}, str : Strings]
         \cup [json : {"boolean"}, str : Strings \cap {"True", "False"}]

Attribute == [category : Cats, name : Names, type : Types, required : BOOLEAN,
              options : SUBSET Strings, catalog : Catalogs \cup {Nil}, active : BOOLEAN]

Catalog == [name : Names, active : BOOLEAN]

Row == [product : Products, attribute : Attrs, name : Names, old : Strings]

ASSUME AttributesAssumption ==
  /\ Types \subseteq Parsed \cup {"text", "select", "catalog"} /\ NoText \notin Strings
  /\ Reading \in [Parsed -> [Strings -> Strings \cup {Nil}]]
  /\ \A s \in Strings : Reading["boolean"][s] \in {"True", "False", Nil}
  /\ Values \subseteq Value /\ Options \subseteq Strings /\ OptionLists \subseteq SUBSET Options
  /\ MaxRows \in Nat \ {0} /\ MaxRequests \in Nat

ASSUME NilAssumption ==
  Nil \notin Cats \cup Attrs \cup Catalogs \cup Strings \cup Value \cup Attribute \cup Catalog

VARIABLES
  parent,          \* of each category
  home,            \* the category of each product
  attribute,       \* rows of category_attributes
  catalog,         \* rows of catalogs
  shown, hidden,   \* active and inactive values: [Catalogs -> [Strings -> Nat]]
  custom,          \* custom_attributes of each product
  queue,           \* pending_attribute_remap: how many rows of each kind
  entered,         \* history: what a person last entered, and has not taken back
  unchecked,       \* history: attributes that went past the check of names
  served

catalogs == <<catalog, shown, hidden>>
vars == <<parent, home, attribute, catalogs, custom, queue, entered, unchecked, served>>

TypeOK ==
  /\ parent \in [Cats -> Cats \cup {Nil}]
  /\ home \in [Products -> Cats]
  /\ attribute \in [Attrs -> Attribute \cup {Nil}]
  /\ catalog \in [Catalogs -> Catalog \cup {Nil}]
  /\ shown \in [Catalogs -> [Strings -> 0..MaxRows]]
  /\ hidden \in [Catalogs -> [Strings -> 0..MaxRows]]
  /\ custom \in [Products -> [Names -> Value \cup {Nil}]]
  /\ entered \in [Products -> [Names -> Strings \cup {Nil}]]
  /\ queue \in [Row -> 0..MaxRows]
  /\ unchecked \subseteq Attrs
  /\ served \in 0..MaxRequests

Init ==
  /\ parent = [c \in Cats |-> Nil]
  /\ home \in [Products -> Cats]
  /\ attribute = [a \in Attrs |-> Nil]
  /\ catalog = [k \in Catalogs |-> Nil]
  /\ shown = [k \in Catalogs |-> [s \in Strings |-> 0]]
  /\ hidden = shown
  /\ custom = [p \in Products |-> [n \in Names |-> Nil]]
  /\ queue = [r \in Row |-> 0]
  /\ entered = custom
  /\ unchecked = {}
  /\ served = 0

-----------------------------------------------------------------------------
(* Queries.                                                                *)

Exists(a) == attribute[a] # Nil

InForce(a) == Exists(a) /\ attribute[a].active

\* The category and its ancestors; the category and what is below it.
Line(c) == {d \in Cats : \A S \in SUBSET Cats :
              (c \in S /\ \A e \in S : parent[e] \in S \cup {Nil}) => d \in S}

Branch(c) == {d \in Cats : c \in Line(d)}

Holders(n, S) == {a \in Attrs : InForce(a) /\ attribute[a].name = n /\ attribute[a].category \in S}

\* get_inherited_attributes: of two with one name the one nearer the root.
Inherited(n, c) ==
  {a \in Holders(n, Line(c)) : \A b \in Holders(n, Line(c)) :
     attribute[a].category \in Line(attribute[b].category)}

NameFreeAbove(n, c, self) == Holders(n, Line(c)) \subseteq {self}   \* variant: subcategories are not asked

\* DUPLICATE_ATTRIBUTE_IN_HIERARCHY, DUPLICATE_ATTRIBUTE_IN_DESCENDANTS
NameFree(n, c, self) == Holders(n, Line(c) \cup Branch(c)) \subseteq {self}

OnSale(k) == catalog[k] # Nil /\ catalog[k].active

Active(k) == {s \in Strings : shown[k][s] > 0}

ListOf(type, options, k) ==
  IF type = "select" THEN options ELSE IF type = "catalog" /\ k # Nil THEN Active(k) ELSE {}

\* The text that a parsed type makes of a value.  Nothing reads an empty one.
Read(v, type) == IF v = Empty THEN Nil ELSE Reading[type][v.str]

JsonOf(type) ==
  IF type \in {"integer", "decimal"} THEN "number" ELSE IF type = "boolean" THEN "boolean" ELSE "string"

\* _cast_attribute_value: Nil when it cannot be done.
Cast(v, type, list) ==
  IF v = Empty THEN Empty
  ELSE IF type \in Parsed
       THEN IF Read(v, type) = Nil THEN Nil ELSE [json |-> JsonOf(type), str |-> Read(v, type)]
       ELSE IF type = "text" \/ v.str \in list THEN [json |-> "string", str |-> v.str] ELSE Nil

Stored(v) == IF v = Empty THEN Nil ELSE v

TextOf(held) == IF held = Nil THEN NoText ELSE held.str

\* _validate_attribute_value, and the catalog's active values or the value held:
\* where none is held the empty text passes.  Nothing is rewritten, dates pass.
Accepts(a, v, held) ==
  LET row == attribute[a] IN
  CASE row.type \in {"integer", "decimal"} -> Read(v, row.type) # Nil
    [] row.type = "boolean" -> v.json = "boolean"
    [] row.type = "select" -> row.options = {} \/ v.str \in row.options
    [] row.type = "catalog" -> v.str \in Active(row.catalog) \/ v.str = TextOf(held)
    [] OTHER -> TRUE

\* _validate_custom_attributes.  Keys that no attribute has are let through.
Valid(given, c, held) ==
  \A n \in Names : Inherited(n, c) # {} => \E a \in Inherited(n, c) :
    IF given[n] = Nil THEN ~attribute[a].required ELSE Accepts(a, given[n], held[n])

-----------------------------------------------------------------------------
(* Catalogs.                                                               *)

Serve == served < MaxRequests /\ served' = served + 1

OnlyCatalogs == UNCHANGED <<parent, home, attribute, custom, queue, entered, unchecked>>

Named(n) == {k \in Catalogs : OnSale(k) /\ catalog[k].name = n}

NewCatalogUnset(n) == [name |-> n, active |-> Nil]   \* variant: the column has no default

NewCatalog(n) == [name |-> n, active |-> TRUE]

CreateCatalog(k, n) ==
  /\ Serve /\ OnlyCatalogs
  /\ catalog[k] = Nil /\ Named(n) = {}
  /\ catalog' = [catalog EXCEPT ![k] = NewCatalog(n)]
  /\ UNCHANGED <<shown, hidden>>

UpdateCatalog(k, n) ==
  /\ Serve /\ OnlyCatalogs
  /\ OnSale(k) /\ Named(n) \subseteq {k} /\ catalog[k].name # n
  /\ catalog' = [catalog EXCEPT ![k].name = n]
  /\ UNCHANGED <<shown, hidden>>

UsersAny(k) == {}   \* variant: CATALOG_IN_USE is not raised

\* Attributes that keep a catalog from being deleted: the active ones.
UsersOf(k) == {a \in Attrs : InForce(a) /\ attribute[a].catalog = k}

DeleteCatalog(k) ==
  /\ Serve /\ OnlyCatalogs
  /\ OnSale(k) /\ UsersOf(k) = {}
  /\ catalog' = [catalog EXCEPT ![k].active = FALSE]
  /\ UNCHANGED <<shown, hidden>>

AddValue(k, s) ==
  /\ Serve /\ OnlyCatalogs
  /\ OnSale(k) /\ s \notin Active(k)
  /\ hidden[k][s] < MaxRows
  /\ shown' = [shown EXCEPT ![k][s] = 1]
  /\ UNCHANGED <<catalog, hidden>>

\* update_value, of an active or an inactive row; the catalog is not looked at.
UpdateValue(k, s, t) ==
  /\ Serve /\ OnlyCatalogs
  /\ s # t /\ t \notin Active(k) /\ hidden[k][t] < MaxRows
  /\ \/ /\ shown[k][s] > 0
        /\ shown' = [shown EXCEPT ![k][s] = @ - 1, ![k][t] = 1]
        /\ UNCHANGED hidden
     \/ /\ hidden[k][s] > 0
        /\ hidden' = [hidden EXCEPT ![k][s] = @ - 1, ![k][t] = @ + 1]
        /\ UNCHANGED shown
  /\ UNCHANGED catalog

\* set_value_active does not ask whether the text is free.
DeactivateValue(k, s) ==
  /\ Serve /\ OnlyCatalogs
  /\ shown[k][s] > 0 /\ hidden[k][s] < MaxRows
  /\ shown' = [shown EXCEPT ![k][s] = @ - 1]
  /\ hidden' = [hidden EXCEPT ![k][s] = @ + 1]
  /\ UNCHANGED catalog

ReactivateValue(k, s) ==
  /\ Serve /\ OnlyCatalogs
  /\ hidden[k][s] > 0 /\ shown[k][s] < MaxRows
  /\ hidden' = [hidden EXCEPT ![k][s] = @ - 1]
  /\ shown' = [shown EXCEPT ![k][s] = @ + 1]
  /\ UNCHANGED catalog

\* _resolve_or_create_catalog: the catalog k, with the seeds it does not hold.
ResolveOrCreate(k, n, seeds) ==
  /\ IF Named(n) # {} THEN k \in Named(n) ELSE catalog[k] = Nil
  /\ catalog' = IF Named(n) # {} THEN catalog ELSE [catalog EXCEPT ![k] = NewCatalog(n)]
  /\ shown' = [shown EXCEPT ![k] = [s \in Strings |->
                 IF s \in seeds /\ shown[k][s] + hidden[k][s] = 0 THEN 1 ELSE shown[k][s]]]
  /\ UNCHANGED hidden

-----------------------------------------------------------------------------
(* Attributes.                                                             *)

AddAttribute(a, c, n, type, required, options, chosen) ==
  /\ Serve
  /\ ~Exists(a) /\ NameFree(n, c, Nil)
  /\ type = "select" => options # {}
  /\ \E k \in Catalogs \cup {Nil} :
       /\ IF type # "catalog" THEN k = Nil /\ UNCHANGED catalogs
          ELSE IF chosen # Nil THEN k = chosen /\ OnSale(k) /\ UNCHANGED catalogs
          ELSE k \in Catalogs /\ ResolveOrCreate(k, n, {})
       /\ attribute' = [attribute EXCEPT ![a] =
            [category |-> c, name |-> n, type |-> type, required |-> required,
             options |-> IF options = Nil THEN {} ELSE options, catalog |-> k, active |-> TRUE]]
  /\ UNCHANGED <<parent, home, custom, queue, entered, unchecked>>

\* The values a change of type reads: those of the branch, by name.
Affected(a) ==
  {p \in Products : /\ home[p] \in Branch(attribute[a].category)
                    /\ custom[p][attribute[a].name] # Nil}

Lost(a, type, list) ==
  {p \in Affected(a) : Cast(custom[p][attribute[a].name], type, list) = Nil}

QueuedNever(a, type, list) == {}   \* variant: what cannot be cast is dropped, not queued

Queued(a, type, list) == Lost(a, type, list)

RowOf(p, a) == [product |-> p, attribute |-> a, name |-> attribute[a].name,
                old |-> custom[p][attribute[a].name].str]

\* _migrate_attribute_type, from the values' side.
Migrate(a, type, list) ==
  LET n == attribute[a].name
      rows == {RowOf(p, a) : p \in Queued(a, type, list)}
  IN  /\ \A r \in rows : queue[r] < MaxRows
      /\ custom' = [p \in Products |-> IF p \notin Affected(a) THEN custom[p]
                      ELSE [custom[p] EXCEPT ![n] = IF Cast(@, type, list) = Nil THEN Nil
                                                    ELSE Stored(Cast(@, type, list))]]
      /\ queue' = [r \in Row |-> IF r \in rows THEN queue[r] + 1 ELSE queue[r]]

\* update_attribute.  Values follow a change of type, not a change of name.  An
\* unchanged name, type or flag stands for one that is not provided.
UpdateAttribute(a, n, type, required, options, chosen) ==
  LET row == attribute[a]
      given == IF options = Nil THEN row.options ELSE options
  IN
  /\ Serve
  /\ Exists(a)
  /\ n # row.name => NameFree(n, row.category, a)
  /\ \E k \in Catalogs \cup {Nil} :
       /\ IF type # row.type /\ type = "catalog" /\ chosen = Nil
          THEN k \in Catalogs /\ ResolveOrCreate(k, row.name, IF row.type = "select" THEN row.options ELSE {})
          ELSE k = (IF chosen # Nil THEN chosen ELSE row.catalog) /\ UNCHANGED catalogs
       /\ type = "catalog" => k # Nil /\ (OnSale(k))'
       /\ IF type = row.type THEN UNCHANGED <<custom, queue>>
          ELSE \E list \in {IF type = "catalog" THEN (Active(k))' ELSE ListOf(type, given, Nil)} :
                 Migrate(a, type, list)
       /\ attribute' = [attribute EXCEPT ![a] =
            [row EXCEPT !.name = n, !.type = type, !.required = required,
                        !.options = IF type = "catalog" THEN {} ELSE given,
                        !.catalog = IF type = "catalog" THEN k ELSE Nil]]
  /\ UNCHANGED <<parent, home, entered, unchecked>>

DeactivateAttribute(a) ==
  /\ Serve /\ InForce(a)
  /\ attribute' = [attribute EXCEPT ![a].active = FALSE]
  /\ UNCHANGED <<parent, home, catalogs, custom, queue, entered, unchecked>>

\* reactivate_attribute asks neither for the name nor for the catalog.
ReactivateAttribute(a) ==
  /\ Serve /\ Exists(a) /\ ~attribute[a].active
  /\ attribute' = [attribute EXCEPT ![a].active = TRUE]
  /\ unchecked' = unchecked \cup {a}
  /\ UNCHANGED <<parent, home, catalogs, custom, queue, entered>>

RowsOf(a) == {r \in Row : r.attribute = a /\ queue[r] > 0}

Forgotten(p, n, rows) == custom[p][n] = Nil /\ \E r \in rows : r.product = p /\ r.name = n

\* delete_attribute: ATTRIBUTE_IN_USE while a product has a value by that name;
\* its rows in the queue go with it.
DeleteAttribute(a) ==
  /\ Serve /\ Exists(a)
  /\ \A p \in Products : custom[p][attribute[a].name] = Nil
  /\ attribute' = [attribute EXCEPT ![a] = Nil]
  /\ queue' = [r \in Row |-> IF r.attribute = a THEN 0 ELSE queue[r]]
  /\ entered' = [p \in Products |-> [n \in Names |->
                   IF Forgotten(p, n, RowsOf(a)) THEN Nil ELSE entered[p][n]]]
  /\ unchecked' = unchecked \ {a}
  /\ UNCHANGED <<parent, home, catalogs, custom>>

\* update_category with a new parent.  With reset_custom_attributes the names
\* are not compared and the products of the branch lose their values.
MoveCategory(c, par, reset) ==
  LET below == {a \in Attrs : InForce(a) /\ attribute[a].category \in Branch(c)} IN
  /\ Serve
  /\ par # parent[c] /\ par \notin Branch(c)
  /\ (~reset /\ par # Nil) => \A a \in below : Inherited(attribute[a].name, par) = {}
  /\ parent' = [parent EXCEPT ![c] = par]
  /\ LET cleared == {p \in Products : reset /\ home[p] \in Branch(c)}
         Clear(f) == [p \in Products |-> IF p \in cleared THEN [n \in Names |-> Nil] ELSE f[p]]
     IN  custom' = Clear(custom) /\ entered' = Clear(entered)
  /\ unchecked' = IF reset /\ par # Nil THEN unchecked \cup below ELSE unchecked
  /\ UNCHANGED <<home, attribute, catalogs, queue>>

-----------------------------------------------------------------------------
(* Values.                                                                 *)

Said(v) == IF v = Nil \/ v = Empty THEN Nil ELSE v.str

\* update_product with custom_attributes: the whole column is replaced.
UpdateProduct(p, given) ==
  /\ Serve
  /\ Valid(given, home[p], custom[p])
  /\ custom' = [custom EXCEPT ![p] = given]
  /\ entered' = [entered EXCEPT ![p] = [n \in Names |-> Said(given[n])]]
  /\ UNCHANGED <<parent, home, attribute, catalogs, queue, unchecked>>

\* One assignment of resolve: the type is the attribute's at that time.  A batch
\* is its assignments one after the other, all of them or none.
Resolve(r, v) ==
  LET row == attribute[r.attribute]
      cast == Cast(v, row.type, ListOf(row.type, row.options, row.catalog))
      answered == [entered[r.product] EXCEPT ![r.name] =
                     IF custom[r.product][r.name] = Nil THEN Nil ELSE @]
  IN
  /\ Serve
  /\ queue[r] > 0
  /\ v = Empty => ~row.required
  /\ cast # Nil
  /\ queue' = [queue EXCEPT ![r] = @ - 1]
  /\ custom' = IF v = Empty THEN custom ELSE [custom EXCEPT ![r.product][row.name] = cast]
  /\ entered' = [entered EXCEPT ![r.product] =
                   IF v = Empty THEN answered ELSE [answered EXCEPT ![row.name] = v.str]]
  /\ UNCHANGED <<parent, home, attribute, catalogs, unchecked>>

\* What comes with a type: the options of a select, the catalog of a catalog.
OptionsFor(type) == IF type = "select" THEN OptionLists ELSE {Nil}

ChoiceFor(type) == IF type = "catalog" THEN Catalogs \cup {Nil} ELSE {Nil}

\* The endpoints under /catalogs.
CatalogRequests ==
  \/ \E k \in Catalogs, n \in Names : CreateCatalog(k, n) \/ UpdateCatalog(k, n)
  \/ \E k \in Catalogs : DeleteCatalog(k)
  \/ \E k \in Catalogs, s \in Options : AddValue(k, s) \/ DeactivateValue(k, s) \/ ReactivateValue(k, s)
  \/ \E k \in Catalogs, s, t \in Options : UpdateValue(k, s, t)

\* The endpoints under /categories/{id}/attributes, and PATCH /categories/{id}.
AttributeRequests ==
  \/ \E a \in Attrs, c \in Cats, n \in Names, type \in Types, required \in BOOLEAN :
       \E options \in OptionsFor(type), chosen \in ChoiceFor(type) :
         AddAttribute(a, c, n, type, required, options, chosen)
  \/ \E a \in Attrs, n \in Names, type \in Types, required \in BOOLEAN :
       \E options \in OptionsFor(type) \cup {Nil}, chosen \in ChoiceFor(type) :
         UpdateAttribute(a, n, type, required, options, chosen)
  \/ \E a \in Attrs : DeactivateAttribute(a) \/ ReactivateAttribute(a) \/ DeleteAttribute(a)
  \/ \E c \in Cats, par \in Cats \cup {Nil}, reset \in BOOLEAN : MoveCategory(c, par, reset)

Next ==
  \/ CatalogRequests
  \/ AttributeRequests
  \/ \E p \in Products, given \in [Names -> Values \cup {Nil}] : UpdateProduct(p, given)
  \/ \E r \in Row, v \in Values : Resolve(r, v)

Spec == Init /\ [][Next]_vars

-----------------------------------------------------------------------------
(* Properties.                                                             *)

Closed(S) == \A type \in Types \cap Parsed, s \in S : Reading[type][s] \in S \cup {Nil}

\* What conversions that succeed may make of a text, one after another.
Versions == [s \in Strings |->
  {t \in Strings : \A S \in SUBSET Strings : s \in S /\ Closed(S) => t \in S}]

Kept(t, s) == t \in Versions[s]

\* What a person entered is in the product or waits in the queue, as the types the
\* attribute went through read it, until a person takes it back.  What no type
\* rewrites is kept to the letter; what a type that could read it left out (a zero,
\* the hour of a date) is gone, from the queue too.  (A deleted attribute takes its
\* queue along: DeletionLosesNothing.)
NothingLost ==
  \A p \in Products, n \in Names : entered[p][n] # Nil =>
    \/ custom[p][n] # Nil /\ Kept(custom[p][n].str, entered[p][n])
    \/ \E r \in Row : /\ queue[r] > 0 /\ r.product = p /\ r.name = n
                      /\ Kept(r.old, entered[p][n])

\* (part) No two attributes in force have one name in a chain of inheritance, unless
\* one was reactivated or its branch moved with a reset, which do not ask.
OneAttributePerName ==
  \A a, b \in Attrs :
    (/\ a # b /\ InForce(a) /\ InForce(b) /\ attribute[a].name = attribute[b].name
     /\ attribute[a].category \in Line(attribute[b].category))
    => {a, b} \cap unchecked # {}

\* The catalog an attribute in force draws from is not deleted, unless it was
\* deleted while the attribute was inactive.
CatalogsInForce ==
  \A a \in Attrs \ unchecked :
    (InForce(a) /\ attribute[a].type = "catalog") =>
      attribute[a].catalog # Nil /\ OnSale(attribute[a].catalog)

\* (part) Active catalogs have different names.
CatalogNamesUnique == \A n \in Names : Cardinality(Named(n)) <= 1

\* A name finds one thing: one attribute on a branch of the tree, however the
\* branch came together, and one active catalog, whichever of the ways to create
\* or rename one was taken.
NamesUnique == OneAttributePerName /\ CatalogNamesUnique

\* Deleting an attribute loses no value: false, the values that wait in the queue
\* are not counted as values of products.
DeletionLosesNothing ==
  [][\A a \in Attrs : (Exists(a) /\ attribute'[a] = Nil) => RowsOf(a) = {}]_vars
=============================================================================
