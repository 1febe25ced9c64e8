----------------------------- MODULE CountsProofs -----------------------------
(***************************************************************************)
(* For any products, requests, quantities and stock, with or without       *)
(* losses, as long as no two requests work on one count at a time: the     *)
(* documents that an applied count names have moved the differences in its *)
(* lines, and a successful attempt leaves no other behind.                 *)
(*                                                                         *)
(* The handlers look at the status of a count when they start and write    *)
(* when they end; DraftInWork says that it is then as it was read.  An     *)
(* attempt commits its two halves apart: Attempts says which of them are   *)
(* there at each of its steps, Settled what an applied count names.        *)
(***************************************************************************)
EXTENDS Counts, Sums, TLAPS

USE CountsAssumption DEF CountsAssumption

\* The shape of the state, as far as the argument needs it.
Row(c) == [status |-> counts[c].status, lines |-> counts[c].lines,
           positive |-> counts[c].positive, negative |-> counts[c].negative]

Shape ==
  /\ counts = [c \in Requests |-> counts[c]]
  /\ pc = [r \in Requests |-> pc[r]]
  /\ task = [r \in Requests |-> task[r]]
  /\ \A c \in Requests : counts[c] = Nil \/ counts[c] = Row(c)

\* The count that a handler works on does not exist yet, or is a draft.
DraftInWork ==
  \A r \in Requests : Active(r) =>
    /\ task[r].count \in Requests
    /\ IF task[r].operation = "create"
       THEN /\ task[r].count = r /\ pc[r] = "save"
            /\ counts[r] = Nil
       ELSE Editable(task[r].count)

\* A count is named by the request that created it.
NotYetCreated == \A r \in Requests : pc[r] = "idle" => counts[r] = Nil

\* No two handlers work on one count.
Apart ==
  \A q, r \in Requests : (q # r /\ Active(q) /\ Active(r)) => task[q].count # task[r].count

CInv == Shape /\ DraftInWork /\ NotYetCreated /\ Apart

-----------------------------------------------------------------------------

\* No counts and no handlers.
LEMMA InitInv == Init => CInv
BY DEF Init, CInv, Shape, Row, DraftInWork, NotYetCreated, Apart, Active, Steps

\* A handler that starts changes no count.
LEMMA StartInv ==
  ASSUME ~SameCount, CInv, NEW r \in Requests, NEW t, NEW step \in Steps, Start(r, t, step),
         t.count \in Requests,
         IF t.operation = "create" THEN t.count = r /\ step = "save" ELSE Editable(t.count)
  PROVE  CInv'
<1> USE DEF CInv, Start, committed
<1>1. counts' = counts /\ pc[r] = "idle" /\ pc'[r] = step /\ task'[r] = t
  BY DEF Shape
<1>2. \A q \in Requests \ {r} : pc'[q] = pc[q] /\ task'[q] = task[q]
  BY DEF Shape
<1>3. Shape'
  BY <1>1 DEF Shape, Row
<1>4. DraftInWork'
  BY <1>1, <1>2 DEF DraftInWork, NotYetCreated, Active, Editable
<1>5. NotYetCreated'
  BY <1>1, <1>2 DEF NotYetCreated, Steps
<1>6. Apart'
  <2> SUFFICES ASSUME NEW q \in Requests, q # r, Active(q)
               PROVE  task[q].count # t.count
    BY <1>1, <1>2 DEF Apart, Active
  <2> QED
    BY DEF Start
<1> QED
  BY <1>3, <1>4, <1>5, <1>6

\* A step between two commits changes neither the counts nor the task.
LEMMA PostInv ==
  ASSUME CInv, NEW r \in Requests, Active(r), task[r].operation # "create",
         NEW step \in Steps, pc' = [pc EXCEPT ![r] = step], UNCHANGED <<counts, task>>
  PROVE  CInv'
<1> USE DEF CInv
<1>1. pc'[r] = step /\ \A q \in Requests \ {r} : pc'[q] = pc[q]
  BY DEF Shape
<1>2. Shape'
  BY DEF Shape, Row
<1>3. DraftInWork'
  BY <1>1 DEF DraftInWork, Active, Editable
<1>4. NotYetCreated'
  BY <1>1 DEF NotYetCreated, Steps
<1>5. Apart'
  BY <1>1 DEF Apart, Active
<1> QED
  BY <1>2, <1>3, <1>4, <1>5

\* A handler that ends has written its own count or none.
LEMMA EndInv ==
  ASSUME CInv, NEW r \in Requests, Active(r), NEW outcome \in {"done", "failed"},
         End(r, outcome), counts' = [c \in Requests |-> counts'[c]],
         \A c \in Requests : counts'[c] = Nil \/ Row(c)' = counts'[c],
         \A c \in Requests : c # task[r].count => counts'[c] = counts[c],
         task[r].operation # "create" => Editable(task[r].count)
  PROVE  CInv'
<1> USE DEF CInv, End
<1>1. pc'[r] = outcome /\ \A q \in Requests \ {r} : pc'[q] = pc[q] /\ task'[q] = task[q]
  BY DEF Shape
<1>2. Shape'
  BY DEF Shape
<1>3. ~Active(r)'
  BY <1>1 DEF Active, Steps
<1>4. \A q \in Requests : Active(q)' => q # r /\ Active(q) /\ task[q].count # task[r].count
  BY <1>1, <1>3 DEF Active, Apart
<1>5. DraftInWork'
  BY <1>1, <1>4 DEF DraftInWork, Editable
<1>6. NotYetCreated'
  <2> SUFFICES ASSUME NEW q \in Requests, pc'[q] = "idle" PROVE counts'[q] = Nil
    BY DEF NotYetCreated
  <2>1. q # r /\ counts[q] = Nil
    BY <1>1 DEF NotYetCreated
  <2>2. task[r].count # q
    BY <2>1 DEF DraftInWork, Editable
  <2> QED
    BY <2>1, <2>2
<1>7. Apart'
  BY <1>1, <1>4 DEF Apart
<1> QED
  BY <1>2, <1>5, <1>6, <1>7

-----------------------------------------------------------------------------
(* The steps of Next, and what each may do to an applied count.            *)

\* Saving writes a new count, or the lines of a draft.
LEMMA SaveStep ==
  ASSUME CInv, NEW r \in Requests, Save(r)
  PROVE  CInv' /\ \A c \in Requests : IsApplied(c) => counts'[c] = counts[c]
<1>0. PICK k : k = task[r].count
  OBVIOUS
<1> USE <1>0
<1>1. Active(r)
  BY DEF Save, Active, Steps
<1>2. k \in Requests /\ (task[r].operation = "create" => counts[k] = Nil)
                     /\ (task[r].operation # "create" => Editable(k))
  BY <1>1 DEF CInv, DraftInWork
<1>3. ~IsApplied(k)
  BY <1>2 DEF IsApplied, Editable
<1>4. \A c \in Requests : c # k => counts'[c] = counts[c]
  BY DEF Save, CInv, Shape
<1>5. counts' = [c \in Requests |-> counts'[c]]
  BY DEF Save, CInv, Shape
<1>6. counts'[k] = Row(k)'
  <2>1. CASE task[r].operation = "create"
    <3>1. counts'[k] = NewCount(task[r].lines)
      BY <1>2, <2>1 DEF Save, CInv, Shape
    <3> QED
      BY <3>1 DEF NewCount, Row
  <2>2. CASE task[r].operation # "create"
    <3> DEFINE new == LinesReplaced(counts[k].lines, task[r])
    <3>1. counts[k] = Row(k)
      BY <1>2, <2>2 DEF CInv, Shape, Editable
    <3>2. counts'[k] = [counts[k] EXCEPT !.lines = new]
      BY <1>2, <2>2 DEF Save, CInv, Shape
    <3>3. counts'[k] = [status |-> counts[k].status, lines |-> new,
                        positive |-> counts[k].positive, negative |-> counts[k].negative]
      <4> HIDE DEF new
      <4> QED
        BY <3>1, <3>2 DEF Row
    <3> QED
      BY <3>3 DEF Row
  <2> QED
    BY <2>1, <2>2
<1>7. \A c \in Requests : counts'[c] = Nil \/ Row(c)' = counts'[c]
  BY <1>4, <1>6 DEF CInv, Shape, Row
<1>8. End(r, "done")
  BY DEF Save
<1>9. CInv'
  BY <1>1, <1>2, <1>4, <1>5, <1>7, <1>8, EndInv
<1> QED
  BY <1>3, <1>4, <1>9

\* Marking writes a draft.
LEMMA MarkStep ==
  ASSUME CInv, NEW r \in Requests, MarkApplied(r)
  PROVE  CInv' /\ \A c \in Requests : IsApplied(c) => counts'[c] = counts[c]
<1>0. PICK k : k = task[r].count
  OBVIOUS
<1> USE <1>0
<1>1. Active(r)
  BY DEF MarkApplied, Active, Steps
<1>2. k \in Requests /\ Editable(k)
  BY <1>1 DEF CInv, DraftInWork, MarkApplied
<1>3. ~IsApplied(k)
  BY <1>2 DEF IsApplied, Editable
<1>4. \A c \in Requests : c # k => counts'[c] = counts[c]
  BY DEF MarkApplied, CInv, Shape
<1>5. counts' = [c \in Requests |-> counts'[c]]
  BY DEF MarkApplied, CInv, Shape
<1>6. counts'[k] = Row(k)'
  <2>1. counts[k] = Row(k)
    BY <1>2 DEF CInv, Shape, Editable
  <2>2. counts'[k] = Applied(counts[k], r, task[r].lines)
    BY <1>2 DEF MarkApplied, CInv, Shape
  <2> DEFINE pos == IF Rises(task[r].lines) THEN r ELSE Nil
             neg == IF Falls(task[r].lines) THEN r ELSE Nil
  <2>3. counts'[k] = [counts[k] EXCEPT !.status = "applied", !.positive = pos, !.negative = neg]
    BY <2>2 DEF Applied
  <2>4. counts'[k] = [status |-> "applied", lines |-> counts[k].lines,
                      positive |-> pos, negative |-> neg]
    <3> HIDE DEF pos, neg
    <3> QED
      BY <2>1, <2>3 DEF Row
  <2> QED
    BY <2>4 DEF Row
<1>7. \A c \in Requests : counts'[c] = Nil \/ Row(c)' = counts'[c]
  BY <1>4, <1>6 DEF CInv, Shape, Row
<1>8. End(r, "done")
  BY DEF MarkApplied
<1>9. CInv'
  BY <1>1, <1>2, <1>4, <1>5, <1>7, <1>8, EndInv
<1> QED
  BY <1>3, <1>4, <1>9

\* Posting, failing and the movements of others leave the counts alone.
LEMMA OtherStep ==
  ASSUME ~SameCount, CInv, Next,
         NEW r \in Requests, ~Save(r), ~MarkApplied(r),
         \/ CountRequests(r)
         \/ PostPositive(r) \/ RefuseCost(r) \/ PostNegative(r) \/ RefuseNegative(r) \/ Lose(r)
  PROVE  CInv' /\ counts' = counts
<1>1. CASE CreateCount(r)
  <2>1. PICK found \in Findings :
          Start(r, [operation |-> "create", count |-> r, read |-> {},
                    lines |-> BuildCountLines(r, found)], "save")
    BY <1>1 DEF CreateCount
  <2> DEFINE t == [operation |-> "create", count |-> r, read |-> {},
                   lines |-> BuildCountLines(r, found)]
  <2>2. t.operation = "create" /\ t.count = r
    OBVIOUS
  <2>3. Start(r, t, "save") /\ "save" \in Steps
    BY <2>1 DEF Steps
  <2> HIDE DEF t
  <2>4. CInv'
    BY <2>2, <2>3, StartInv
  <2> QED
    BY <2>3, <2>4 DEF Start, committed
<1>2. CASE \E c \in Requests : UpdateCount(r, c)
  <2>1. PICK c \in Requests : UpdateCount(r, c)
    BY <1>2
  <2>2. PICK found \in Findings :
          Start(r, [operation |-> "update", count |-> c, read |-> counts[c].lines,
                    lines |-> BuildCountLines(r, found)], "save")
    BY <2>1 DEF UpdateCount
  <2> DEFINE t == [operation |-> "update", count |-> c, read |-> counts[c].lines,
                   lines |-> BuildCountLines(r, found)]
  <2>3. t.operation = "update" /\ t.count = c /\ Editable(c)
    BY <2>1 DEF UpdateCount
  <2>4. Start(r, t, "save") /\ "save" \in Steps
    BY <2>2 DEF Steps
  <2> HIDE DEF t
  <2>5. CInv'
    BY <2>3, <2>4, StartInv
  <2> QED
    BY <2>4, <2>5 DEF Start, committed
<1>3. CASE \E c \in Requests : ApplyCount(r, c)
  <2>1. PICK c \in Requests : ApplyCount(r, c)
    BY <1>3
  <2> DEFINE lines == counts[c].lines
             step == IF Rises(lines) THEN "positive" ELSE AfterPositive(lines)
             t == [operation |-> "apply", count |-> c, read |-> lines, lines |-> lines]
  <2>2. Start(r, t, step)
    BY <2>1 DEF ApplyCount
  <2>3. t.operation = "apply" /\ t.count = c /\ Editable(c)
    BY <2>1 DEF ApplyCount
  <2>4. step \in Steps
    BY DEF AfterPositive, Steps
  <2> HIDE DEF t, step
  <2>5. CInv'
    BY <2>2, <2>3, <2>4, StartInv
  <2> QED
    BY <2>2, <2>5 DEF Start, committed
<1>4. CASE PostPositive(r) \/ PostNegative(r)
  <2>1. Active(r) /\ pc[r] # "save"
    BY <1>4 DEF PostPositive, PostNegative, Active, Steps
  <2>2. task[r].operation # "create"
    BY <2>1 DEF CInv, DraftInWork
  <2>3. UNCHANGED <<counts, task>>
    BY <1>4 DEF PostPositive, PostNegative
  <2>4. \E step \in Steps : pc' = [pc EXCEPT ![r] = step]
    BY <1>4 DEF PostPositive, PostNegative, AfterPositive, Steps
  <2>5. CInv'
    BY <2>1, <2>2, <2>3, <2>4, PostInv
  <2> QED
    BY <2>3, <2>5
<1>5. CASE RefuseCost(r) \/ RefuseNegative(r) \/ Lose(r)
  <2>1. Active(r) /\ End(r, "failed") /\ counts' = counts
    BY <1>5 DEF RefuseCost, RefuseNegative, Lose, Active, Steps, committed
  <2>2. task[r].operation # "create" => Editable(task[r].count)
    BY <2>1 DEF CInv, DraftInWork
  <2>3. CInv'
    BY <2>1, <2>2, EndInv DEF CInv, Shape, Row
  <2> QED
    BY <2>1, <2>3
<1> QED
  BY <1>1, <1>2, <1>3, <1>4, <1>5 DEF CountRequests

\* Every step keeps the invariant and leaves applied counts alone.
LEMMA StepInv ==
  ASSUME ~SameCount, CInv, [Next]_vars
  PROVE  CInv' /\ \A c \in Requests : IsApplied(c) => counts'[c] = counts[c]
<1>1. CASE UNCHANGED vars
  BY <1>1 DEF vars, committed, CInv, Shape, Row, DraftInWork, NotYetCreated, Apart, Active, Editable
<1>2. CASE \E p \in Products : OtherMovement(p)
  <2>1. UNCHANGED <<counts, pc, task>>
    BY <1>2 DEF OtherMovement
  <2> QED
    BY <2>1 DEF CInv, Shape, Row, DraftInWork, NotYetCreated, Apart, Active, Editable
<1>3. ASSUME NEW r \in Requests, Save(r)
      PROVE  CInv' /\ \A c \in Requests : IsApplied(c) => counts'[c] = counts[c]
  BY <1>3, SaveStep
<1>4. ASSUME NEW r \in Requests, MarkApplied(r)
      PROVE  CInv' /\ \A c \in Requests : IsApplied(c) => counts'[c] = counts[c]
  BY <1>4, MarkStep
<1>5. ASSUME Next, NEW r \in Requests, ~Save(r), ~MarkApplied(r),
             \/ CountRequests(r)
             \/ PostPositive(r) \/ RefuseCost(r) \/ PostNegative(r) \/ RefuseNegative(r) \/ Lose(r)
      PROVE  CInv' /\ \A c \in Requests : IsApplied(c) => counts'[c] = counts[c]
  BY <1>5, OtherStep
<1> QED
  BY <1>1, <1>2, <1>3, <1>4, <1>5 DEF Next

-----------------------------------------------------------------------------
(* Differences.                                                            *)

\* The differences of the lines of a product that are up, less those that are
\* down, are all its differences.
LEMMA RiseAndFall ==
  ASSUME NEW L \in SUBSET CountLine, IsFiniteSet(L), NEW p \in Products
  PROVE  /\ Rise(L)[p] \in Nat /\ Fall(L)[p] \in Nat
         /\ ~Rises(L) => Rise(L)[p] = 0
         /\ ~Falls(L) => Fall(L)[p] = 0
         /\ DifferenceOf(L, p) = Rise(L)[p] - Fall(L)[p]
<1>1. PICK A, U, D, Z :
        /\ A = {k \in L : k.product = p}
        /\ U = {k \in {l \in L : Difference(l) > 0} : k.product = p}
        /\ D = {k \in {l \in L : Difference(l) < 0} : k.product = p}
        /\ Z = {k \in A : Difference(k) = 0}
  OBVIOUS
<1>2. PICK f, fa, fu, fd, neg, zero :
        /\ f = [l \in L |-> Difference(l)] /\ fa = [l \in A |-> Difference(l)]
        /\ fu = [l \in U |-> Difference(l)] /\ fd = [l \in D |-> Difference(l)]
        /\ neg = [l \in D |-> 0 - Difference(l)] /\ zero = [l \in D |-> 0]
  OBVIOUS
<1>3. \A l \in CountLine : Difference(l) \in Int
  BY DEF CountLine, Difference
<1>4. /\ IsFiniteSet(A) /\ IsFiniteSet(U) /\ IsFiniteSet(D) /\ IsFiniteSet(Z)
  BY <1>1, FS_Subset
<1>5. /\ A = (U \cup D) \cup Z /\ U \cap D = {} /\ (U \cup D) \cap Z = {}
      /\ A \subseteq L /\ U \subseteq A /\ D \subseteq A /\ Z \subseteq A
  <2>1. \A l \in L : Difference(l) \in Int
    BY <1>3
  <2> QED
    BY <1>1, <2>1
<1>6. \A l \in L : f[l] \in Int /\ f[l] = Difference(l)
  BY <1>2, <1>3
<1>7. IsFiniteSet(U \cup D)
  BY <1>4, FS_Union
<1>8. /\ SumFunctionOnSet(f, (U \cup D) \cup Z) = SumFunctionOnSet(f, U \cup D) + SumFunctionOnSet(f, Z)
      /\ SumFunctionOnSet(f, U \cup D) = SumFunctionOnSet(f, U) + SumFunctionOnSet(f, D)
  BY <1>4, <1>5, <1>6, <1>7, SumUnion
<1>9. SumFunctionOnSet(f, Z) = 0
  <2>1. \A l \in Z : f[l] = 0
    BY <1>1, <1>5, <1>6
  <2> QED
    BY <1>4, <2>1, SumZero
<1>10. /\ SumFunctionOnSet(fa, A) = SumFunctionOnSet(f, A)
       /\ SumFunctionOnSet(fu, U) = SumFunctionOnSet(f, U)
       /\ SumFunctionOnSet(fd, D) = SumFunctionOnSet(f, D)
  <2>1. /\ \A l \in A : fa[l] = f[l]
        /\ \A l \in U : fu[l] = f[l]
        /\ \A l \in D : fd[l] = f[l]
    BY <1>2, <1>5
  <2> QED
    BY <1>4, <2>1, SumEqual
<1>11. /\ DifferenceOf(L, p) = SumFunctionOnSet(fa, A)
       /\ DifferenceOf({l \in L : Difference(l) > 0}, p) = SumFunctionOnSet(fu, U)
       /\ DifferenceOf({l \in L : Difference(l) < 0}, p) = SumFunctionOnSet(fd, D)
  BY <1>1, <1>2 DEF DifferenceOf, SumFunction
<1>12. /\ Rise(L)[p] = SumFunctionOnSet(fu, U) /\ Fall(L)[p] = -SumFunctionOnSet(fd, D)
  BY <1>11 DEF Rise, Fall
<1>13. SumFunctionOnSet(fu, U) \in Nat
  <2>1. \A l \in U : fu[l] \in Nat
    <3>1. \A l \in U : Difference(l) > 0 /\ Difference(l) \in Int
      BY <1>1, <1>3
    <3> QED
      BY <1>2, <3>1
  <2> QED
    BY <1>4, <2>1, SumNatural
<1>14. SumFunctionOnSet(fd, D) \in Int /\ -SumFunctionOnSet(fd, D) \in Nat
  <2>1. \A l \in D : Difference(l) < 0 /\ Difference(l) \in Int
    BY <1>1, <1>3
  <2>2. \A l \in D : fd[l] \in Int /\ zero[l] = 0 /\ neg[l] = zero[l] - fd[l] /\ neg[l] \in Nat
    BY <1>2, <2>1
  <2>3. SumFunctionOnSet(neg, D) = SumFunctionOnSet(zero, D) - SumFunctionOnSet(fd, D)
    <3>1. \A l \in D : zero[l] \in Int /\ fd[l] \in Int /\ neg[l] = zero[l] - fd[l]
      BY <2>2
    <3> QED
      BY <1>4, <3>1, SumDifference
  <2>4. SumFunctionOnSet(zero, D) = 0
    BY <1>4, <2>2, SumZero
  <2>5. SumFunctionOnSet(neg, D) \in Nat
    BY <1>4, <2>2, SumNatural
  <2>6. SumFunctionOnSet(fd, D) \in Int
    BY <1>4, <2>2, SumType
  <2> QED
    BY <2>3, <2>4, <2>5, <2>6
<1>15. /\ ~Rises(L) => SumFunctionOnSet(fu, U) = 0
       /\ ~Falls(L) => SumFunctionOnSet(fd, D) = 0
  <2>1. /\ ~Rises(L) => U = {}
        /\ ~Falls(L) => D = {}
    BY <1>1 DEF Rises, Falls
  <2> QED
    BY <2>1, SumEmpty
<1>16. DifferenceOf(L, p) = SumFunctionOnSet(fu, U) + SumFunctionOnSet(fd, D)
  BY <1>5, <1>8, <1>9, <1>10, <1>11, <1>13, <1>14
<1> QED
  BY <1>12, <1>13, <1>14, <1>15, <1>16

-----------------------------------------------------------------------------
(* What the attempts to apply have posted.                                 *)

Sides == {"positive", "negative"}

Needs(side, lines) == IF side = "positive" THEN Rises(lines) ELSE Falls(lines)

\* The adjustment of one side of a count with these lines.
PostOf(c, r, side, lines) ==
  [count |-> c, applier |-> r, side |-> side,
   quantity |-> IF side = "positive" THEN Rise(lines) ELSE Fall(lines)]

By(r, side) == {a \in adjustments : a.applier = r /\ a.side = side}

Past(side, step) == step = "mark" \/ (step = "negative" /\ side = "positive")

\* An attempt works with the lines that the count has.
Handlers ==
  \A r \in Requests : Active(r) =>
    /\ task[r] \in Task /\ IsFiniteSet(task[r].lines)
    /\ task[r].operation = "apply" <=> pc[r] # "save"
    /\ task[r].operation = "apply" => task[r].lines = counts[task[r].count].lines
    /\ pc[r] \in Sides => Needs(pc[r], task[r].lines)

FiniteLines == \A c \in Requests : counts[c] # Nil => IsFiniteSet(counts[c].lines)

\* It has posted the sides it is past, once each.
Attempts ==
  \A r \in Requests, side \in Sides :
    /\ Active(r) => By(r, side) = IF Past(side, pc[r]) /\ Needs(side, task[r].lines)
                                  THEN {PostOf(task[r].count, r, side, task[r].lines)} ELSE {}
    /\ pc[r] = "idle" => By(r, side) = {}

LinkOf(c, side) == IF side = "positive" THEN counts[c].positive ELSE counts[c].negative

\* An applied count names, of each side it needs, the adjustment of one attempt.
Settled(c) ==
  \A side \in Sides :
    IF Needs(side, counts[c].lines)
    THEN /\ LinkOf(c, side) \in Requests /\ pc[LinkOf(c, side)] = "done"
         /\ By(LinkOf(c, side), side) = {PostOf(c, LinkOf(c, side), side, counts[c].lines)}
    ELSE LinkOf(c, side) = Nil

Named(a) == IsApplied(a.count) /\ a \in Linked(a.count)

AInv ==
  /\ CInv /\ TypeOK /\ Handlers /\ FiniteLines /\ Attempts
  /\ \A c \in Requests : IsApplied(c) => Settled(c)
  /\ \A a \in adjustments : pc[a.applier] = "done" => Named(a)

\* The documents that an applied count names have moved its differences.
LEMMA SettledMoves ==
  ASSUME TypeOK, FiniteLines, NEW c \in Requests, IsApplied(c), Settled(c), NEW p \in Products
  PROVE  Posted(Linked(c), p) = DifferenceOf(counts[c].lines, p)
<1>1. PICK L : L = counts[c].lines
  OBVIOUS
<1>2. L \in SUBSET CountLine /\ IsFiniteSet(L)
  BY <1>1 DEF TypeOK, FiniteLines, IsApplied, Count
<1>3. PICK u, d, P, N : /\ u = Rise(L)[p] /\ d = Fall(L)[p]
                        /\ P = PostOf(c, LinkOf(c, "positive"), "positive", L)
                        /\ N = PostOf(c, LinkOf(c, "negative"), "negative", L)
  OBVIOUS
<1>4. /\ u \in Nat /\ d \in Nat /\ (~Rises(L) => u = 0) /\ (~Falls(L) => d = 0)
      /\ DifferenceOf(L, p) = u - d
  BY <1>2, <1>3, RiseAndFall
<1>5. /\ P.count = c /\ P.side = "positive" /\ P.quantity[p] = u
      /\ N.count = c /\ N.side = "negative" /\ N.quantity[p] = d /\ P # N
  BY <1>3 DEF PostOf
<1>6. \A a \in adjustments : a.side \in Sides /\ a.applier \in Requests
  BY DEF TypeOK, Adjustment, Sides
<1>7. \A a : (a \in Linked(c) /\ a.side = "positive") <=> (Rises(L) /\ a = P)
  <2>1. Rises(L) => /\ LinkOf(c, "positive") \in Requests
                    /\ By(LinkOf(c, "positive"), "positive") = {P}
    BY <1>1, <1>3 DEF Settled, Sides, Needs
  <2>2. ~Rises(L) => LinkOf(c, "positive") = Nil
    BY <1>1 DEF Settled, Sides, Needs
  <2>3. \A a : (a \in Linked(c) /\ a.side = "positive") <=>
               (a \in By(LinkOf(c, "positive"), "positive") /\ a.count = c)
    BY DEF Linked, AdjustmentsOf, By, LinkOf
  <2>4. ~Rises(L) => By(LinkOf(c, "positive"), "positive") = {}
    BY <1>6, <2>2 DEF By
  <2> QED
    BY <1>5, <2>1, <2>3, <2>4
<1>8. \A a : (a \in Linked(c) /\ a.side # "positive") <=> (Falls(L) /\ a = N)
  <2>1. Falls(L) => /\ LinkOf(c, "negative") \in Requests
                    /\ By(LinkOf(c, "negative"), "negative") = {N}
    BY <1>1, <1>3 DEF Settled, Sides, Needs
  <2>2. ~Falls(L) => LinkOf(c, "negative") = Nil
    BY <1>1 DEF Settled, Sides, Needs
  <2>3. \A a : (a \in Linked(c) /\ a.side # "positive") <=>
               (a \in By(LinkOf(c, "negative"), "negative") /\ a.count = c)
    BY <1>6 DEF Linked, AdjustmentsOf, By, LinkOf, Sides
  <2>4. ~Falls(L) => By(LinkOf(c, "negative"), "negative") = {}
    BY <1>6, <2>2 DEF By
  <2> QED
    BY <1>5, <2>1, <2>3, <2>4
<1>9. PICK f, S : /\ S = Linked(c)
                  /\ f = [a \in S |-> IF a.side = "positive" THEN a.quantity[p] ELSE -a.quantity[p]]
  OBVIOUS
<1>10. Posted(Linked(c), p) = SumFunctionOnSet(f, S)
  BY <1>9 DEF Posted, SumFunction
<1>11. /\ P \in S => f[P] = u
       /\ N \in S => f[N] = -d
  BY <1>5, <1>9
<1>12. CASE Rises(L) /\ Falls(L)
  <2>1. S = {P} \cup {N} /\ P \in S /\ N \in S
    BY <1>5, <1>7, <1>8, <1>9, <1>12
  <2>2. f[P] = u /\ f[N] = -d
    BY <1>11, <2>1
  <2>3. SumFunctionOnSet(f, {P}) = u
    BY <1>4, <2>2, SumOne
  <2>4. N \notin {P} /\ IsFiniteSet({P}) /\ \A a \in {P} \cup {N} : f[a] \in Int
    <3>1. u \in Int /\ -d \in Int
      BY <1>4
    <3> QED
      BY <1>5, <2>2, <3>1, FS_Singleton
  <2>5. SumFunctionOnSet(f, {P} \cup {N}) = SumFunctionOnSet(f, {P}) + f[N]
    BY <2>4, SumAdd
  <2> QED
    BY <1>1, <1>4, <1>10, <2>1, <2>2, <2>3, <2>5
<1>13. CASE Rises(L) /\ ~Falls(L)
  <2>1. S = {P}
    BY <1>5, <1>7, <1>8, <1>9, <1>13
  <2>2. SumFunctionOnSet(f, {P}) = u
    <3>1. f[P] = u /\ f[P] \in Int
      BY <1>4, <1>11, <2>1
    <3> QED
      BY <3>1, SumOne
  <2> QED
    BY <1>1, <1>4, <1>10, <1>13, <2>1, <2>2
<1>14. CASE ~Rises(L) /\ Falls(L)
  <2>1. S = {N}
    BY <1>5, <1>7, <1>8, <1>9, <1>14
  <2>2. SumFunctionOnSet(f, {N}) = -d
    <3>1. f[N] = -d /\ f[N] \in Int
      BY <1>4, <1>11, <2>1
    <3> QED
      BY <3>1, SumOne
  <2> QED
    BY <1>1, <1>4, <1>10, <1>14, <2>1, <2>2
<1>15. CASE ~Rises(L) /\ ~Falls(L)
  <2>1. S = {}
    BY <1>7, <1>8, <1>9, <1>15
  <2> QED
    BY <1>1, <1>4, <1>10, <1>15, <2>1, SumEmpty
<1> QED
  BY <1>12, <1>13, <1>14, <1>15

-----------------------------------------------------------------------------
(* The steps, and what they do to the attempts.                            *)

\* No counts, no handlers, no adjustments.
LEMMA InitAttempts == Init => AInv
<1> SUFFICES ASSUME Init PROVE AInv
  OBVIOUS
<1>1. CInv
  BY InitInv
<1>2. TypeOK
  BY DEF Init, TypeOK, Steps
<1>3. Handlers /\ FiniteLines /\ Attempts
  BY DEF Init, Handlers, FiniteLines, Attempts, Active, Steps, By
<1>4. /\ \A c \in Requests : IsApplied(c) => Settled(c)
      /\ \A a \in adjustments : pc[a.applier] = "done" => Named(a)
  BY DEF Init, IsApplied
<1> QED
  BY <1>1, <1>2, <1>3, <1>4 DEF AInv

\* What an adjustment posted is depends on its count alone.
LEMMA SameRow ==
  ASSUME NEW c, counts'[c] = counts[c]
  PROVE  /\ IsApplied(c)' <=> IsApplied(c)
         /\ \A side : LinkOf(c, side)' = LinkOf(c, side)
         /\ \A a : (a \in adjustments /\ adjustments' = adjustments /\ a.count = c) =>
                      (Named(a)' <=> Named(a))
BY DEF IsApplied, LinkOf, Named, Linked, AdjustmentsOf

\* A handler that starts: nothing is posted by it, and it reads its count.
LEMMA StartAttempts ==
  ASSUME AInv, CInv', TypeOK', NEW r \in Requests, NEW t \in Task, NEW step \in Steps,
         Start(r, t, step), IsFiniteSet(t.lines), 
         step = "mark" => ~Rises(t.lines) /\ ~Falls(t.lines),
         step = "negative" => ~Rises(t.lines),
         t.operation = "apply" <=> step # "save",
         t.operation = "apply" => t.lines = counts[t.count].lines,
         step \in Sides => Needs(step, t.lines)
  PROVE  AInv'
<1>1. /\ counts' = counts /\ adjustments' = adjustments /\ pc[r] = "idle"
      /\ pc'[r] = step /\ task'[r] = t
      /\ \A q \in Requests \ {r} : pc'[q] = pc[q] /\ task'[q] = task[q]
  BY DEF Start, committed, AInv, CInv, Shape
<1>2. /\ Active(r)' /\ \A q \in Requests \ {r} : Active(q)' <=> Active(q)
  BY <1>1 DEF Active
<1>3. Handlers'
  <2> SUFFICES ASSUME NEW q \in Requests, Active(q)'
               PROVE  /\ task'[q] \in Task /\ IsFiniteSet(task'[q].lines)
                      /\ task'[q].operation = "apply" <=> pc'[q] # "save"
                      /\ task'[q].operation = "apply" => task'[q].lines = counts[task'[q].count].lines
                      /\ pc'[q] \in Sides => Needs(pc'[q], task'[q].lines)
    BY <1>1 DEF Handlers
  <2>1. CASE q = r
    BY <1>1, <2>1
  <2>2. CASE q # r
    BY <1>1, <1>2, <2>2 DEF AInv, Handlers
  <2> QED
    BY <2>1, <2>2
<1>4. \A q, side : By(q, side)' = By(q, side)
  BY <1>1 DEF By
<1>5. Attempts'
  <2> SUFFICES ASSUME NEW q \in Requests, NEW side \in Sides
               PROVE  /\ Active(q)' => By(q, side) = IF Past(side, pc'[q]) /\ Needs(side, task'[q].lines)
                                  THEN {PostOf(task'[q].count, q, side, task'[q].lines)} ELSE {}
                      /\ pc'[q] = "idle" => By(q, side) = {}
    BY <1>4 DEF Attempts
  <2>1. CASE q = r
    <3>1. By(r, side) = {}
      BY <1>1 DEF AInv, Attempts
    <3>2. ~(Past(side, step) /\ Needs(side, t.lines))
      BY DEF Past, Needs, Sides
    <3>3. step # "idle"
      BY DEF Steps
    <3> QED
      BY <1>1, <2>1, <3>1, <3>2, <3>3
  <2>2. CASE q # r
    BY <1>1, <1>2, <2>2 DEF AInv, Attempts
  <2> QED
    BY <2>1, <2>2
<1>6. ASSUME NEW c \in Requests, IsApplied(c)' PROVE Settled(c)'
  <2>1. IsApplied(c) /\ Settled(c) /\ \A side : LinkOf(c, side)' = LinkOf(c, side)
    BY <1>1, <1>6, SameRow DEF AInv
  <2>2. \A side \in Sides : LinkOf(c, side) \in Requests /\ pc[LinkOf(c, side)] = "done" =>
                              pc'[LinkOf(c, side)] = "done"
    BY <1>1
  <2> QED
    BY <1>1, <1>4, <2>1, <2>2 DEF Settled
<1>7. ASSUME NEW a \in adjustments', pc'[a.applier] = "done" PROVE Named(a)'
  <2>1. a \in adjustments /\ a.applier \in Requests
    BY <1>1 DEF AInv, TypeOK, Adjustment
  <2>2. a.applier # r
    <3>1. a.side \in Sides /\ By(r, a.side) = {}
      BY <1>1, <2>1 DEF AInv, TypeOK, Adjustment, Sides, Attempts
    <3> QED
      BY <2>1, <3>1 DEF By
  <2> QED
    BY <1>1, <1>7, <2>1, <2>2, SameRow DEF AInv
<1>8. FiniteLines'
  BY <1>1 DEF AInv, FiniteLines
<1> QED
  BY <1>3, <1>5, <1>6, <1>7, <1>8 DEF AInv

\* A handler that posts a side is past it then.
LEMMA PostAttempts ==
  ASSUME AInv, CInv', TypeOK', NEW r \in Requests, NEW side \in Sides, pc[r] = side,
         adjustments' = adjustments \cup {PostOf(task[r].count, r, side, task[r].lines)},
         pc' = [pc EXCEPT ![r] = IF side = "positive" THEN AfterPositive(task[r].lines) ELSE "mark"],
         UNCHANGED <<counts, task>>
  PROVE  AInv'
<1>1. PICK t, x, step : /\ t = task[r] /\ x = PostOf(t.count, r, side, t.lines)
                        /\ step = IF side = "positive" THEN AfterPositive(t.lines) ELSE "mark"
  OBVIOUS
<1>2. /\ Active(r) /\ pc'[r] = step /\ step \in Steps
      /\ step \in {"negative", "mark"} /\ (step = "negative" => side = "positive" /\ Falls(t.lines))
      /\ side = "positive" /\ step = "mark" => ~Falls(t.lines)
      /\ \A q \in Requests \ {r} : pc'[q] = pc[q]
  BY <1>1 DEF Active, Steps, Sides, AfterPositive, AInv, CInv, Shape
<1>3. /\ Active(r)' /\ \A q \in Requests \ {r} : Active(q)' <=> Active(q)
  BY <1>2 DEF Active
<1>4. /\ t \in Task /\ t.operation = "apply" /\ t.lines = counts[t.count].lines /\ IsFiniteSet(t.lines)
      /\ Needs(side, t.lines)
  BY <1>1, <1>2 DEF AInv, Handlers, Sides
<1>5. Handlers'
  <2> SUFFICES ASSUME NEW q \in Requests, Active(q)'
               PROVE  /\ task[q] \in Task /\ IsFiniteSet(task[q].lines)
                      /\ task[q].operation = "apply" <=> pc'[q] # "save"
                      /\ task[q].operation = "apply" => task[q].lines = counts[task[q].count].lines
                      /\ pc'[q] \in Sides => Needs(pc'[q], task[q].lines)
    BY DEF Handlers
  <2>1. CASE q = r
    BY <1>1, <1>2, <1>4, <2>1 DEF Sides, Needs
  <2>2. CASE q # r
    BY <1>2, <1>3, <2>2 DEF AInv, Handlers
  <2> QED
    BY <2>1, <2>2
<1>6. x.applier = r /\ x.side = side
  BY <1>1 DEF PostOf
<1>7. /\ By(r, side)' = By(r, side) \cup {x}
      /\ \A q, s : (q # r \/ s # side) => By(q, s)' = By(q, s)
  BY <1>1, <1>6 DEF By
<1>8. Attempts'
  <2> SUFFICES ASSUME NEW q \in Requests, NEW s \in Sides
               PROVE  /\ Active(q)' => By(q, s)' = IF Past(s, pc'[q]) /\ Needs(s, task[q].lines)
                                  THEN {PostOf(task[q].count, q, s, task[q].lines)} ELSE {}
                      /\ pc'[q] = "idle" => By(q, s)' = {}
    BY DEF Attempts
  <2>1. CASE q = r /\ s = side
    <3>1. By(r, side) = {}
      BY <1>2 DEF AInv, Attempts, Past, Sides
    <3>2. Past(side, step)
      BY <1>2 DEF Past, Sides
    <3>3. step # "idle"
      BY <1>2
    <3> QED
      BY <1>1, <1>2, <1>4, <1>7, <2>1, <3>1, <3>2, <3>3
  <2>2. CASE q = r /\ s # side
    <3>1. By(r, s)' = By(r, s)
      BY <1>7, <2>2
    <3>2. By(r, s) = IF Past(s, side) /\ Needs(s, t.lines)
                     THEN {PostOf(t.count, r, s, t.lines)} ELSE {}
      BY <1>1, <1>2 DEF AInv, Attempts
    <3>3. (Past(s, side) /\ Needs(s, t.lines)) <=> (Past(s, step) /\ Needs(s, t.lines))
      BY <1>2, <2>2 DEF Past, Sides, Needs
    <3>4. step # "idle"
      BY <1>2
    <3> QED
      BY <1>1, <1>2, <2>2, <3>1, <3>2, <3>3, <3>4
  <2>3. CASE q # r
    BY <1>2, <1>3, <1>7, <2>3 DEF AInv, Attempts
  <2> QED
    BY <2>1, <2>2, <2>3
<1>9. ASSUME NEW c \in Requests, IsApplied(c)' PROVE Settled(c)'
  <2>1. IsApplied(c) /\ Settled(c) /\ \A s : LinkOf(c, s)' = LinkOf(c, s)
    BY <1>9, SameRow DEF AInv
  <2>2. \A s \in Sides : pc[LinkOf(c, s)] = "done" => LinkOf(c, s) # r
    BY DEF Sides
  <2>3. ASSUME NEW s \in Sides, NEW q \in Requests, q = LinkOf(c, s), pc[q] = "done"
        PROVE  pc'[q] = "done" /\ By(q, s)' = By(q, s)
    <3>1. q # r
      BY <2>2, <2>3
    <3> QED
      BY <1>2, <1>7, <2>3, <3>1
  <2> QED
    BY <2>1, <2>3 DEF Settled
<1>10. ASSUME NEW a \in adjustments', pc'[a.applier] = "done" PROVE Named(a)'
  <2>1. a.applier # r
    BY <1>2, <1>10
  <2>2. a \in adjustments /\ a.applier \in Requests
    BY <1>1, <1>6, <2>1 DEF AInv, TypeOK, Adjustment
  <2>3. Named(a)
    BY <1>2, <1>10, <2>1, <2>2 DEF AInv
  <2> QED
    BY <1>1, <2>3 DEF Named, IsApplied, Linked, AdjustmentsOf
<1>11. FiniteLines'
  BY DEF AInv, FiniteLines
<1> QED
  BY <1>5, <1>8, <1>9, <1>10, <1>11 DEF AInv

\* A handler that ends, having written its own count or none.
LEMMA EndAttempts ==
  ASSUME AInv, CInv', TypeOK', FiniteLines', NEW r \in Requests, Active(r),
         NEW outcome \in {"done", "failed"}, End(r, outcome), adjustments' = adjustments,
         NEW k, k = task[r].count,
         \A c \in Requests : c # k => counts'[c] = counts[c],
         counts'[k] = counts[k] \/ ~IsApplied(k),
         IsApplied(k)' => IsApplied(k) \/ Settled(k)',
         outcome = "done" => \A a \in adjustments : a.applier = r => Named(a)'
  PROVE  AInv'
<1>2. /\ pc'[r] = outcome /\ \A q \in Requests \ {r} : pc'[q] = pc[q] /\ task'[q] = task[q]
  BY DEF End, AInv, CInv, Shape
<1>3. \A q \in Requests : Active(q)' => q # r /\ Active(q) /\ task[q].count # k /\ task[q].count \in Requests
  BY <1>2 DEF Active, Steps, AInv, CInv, Apart, DraftInWork
<1>4. Handlers'
  <2> SUFFICES ASSUME NEW q \in Requests, Active(q)'
               PROVE  /\ task'[q] \in Task /\ IsFiniteSet(task'[q].lines)
                      /\ task'[q].operation = "apply" <=> pc'[q] # "save"
                      /\ task'[q].operation = "apply" => task'[q].lines = counts'[task'[q].count].lines
                      /\ pc'[q] \in Sides => Needs(pc'[q], task'[q].lines)
    BY DEF Handlers
  <2>1. q # r /\ Active(q) /\ counts'[task[q].count] = counts[task[q].count]
    BY <1>3
  <2> QED
    BY <1>2, <2>1 DEF AInv, Handlers
<1>5. \A q, s : By(q, s)' = By(q, s)
  BY DEF By
<1>6. Attempts'
  <2> SUFFICES ASSUME NEW q \in Requests, NEW s \in Sides
               PROVE  /\ Active(q)' => By(q, s) = IF Past(s, pc'[q]) /\ Needs(s, task'[q].lines)
                                  THEN {PostOf(task'[q].count, q, s, task'[q].lines)} ELSE {}
                      /\ pc'[q] = "idle" => By(q, s) = {}
    BY <1>5 DEF Attempts
  <2>1. (Active(q)' \/ pc'[q] = "idle") => q # r
    BY <1>2, <1>3
  <2> QED
    BY <1>2, <1>3, <2>1 DEF AInv, Attempts
<1>7. ASSUME NEW c \in Requests, IsApplied(c)' PROVE Settled(c)'
  <2>1. CASE counts'[c] = counts[c]
    <3>1. IsApplied(c) /\ Settled(c) /\ \A s : LinkOf(c, s)' = LinkOf(c, s)
      BY <1>7, <2>1, SameRow DEF AInv
    <3>2. \A s \in Sides : (LinkOf(c, s) \in Requests /\ pc[LinkOf(c, s)] = "done") =>
            pc'[LinkOf(c, s)] = "done"
      BY <1>2 DEF Active, Steps
    <3> QED
      BY <1>5, <2>1, <3>1, <3>2 DEF Settled
  <2>2. CASE counts'[c] # counts[c]
    <3>1. c = k /\ ~IsApplied(k)
      BY <2>2
    <3>2. IsApplied(k)'
      BY <1>7, <3>1
    <3> QED
      BY <3>1, <3>2
  <2> QED
    BY <2>1, <2>2
<1>8. ASSUME NEW a \in adjustments', pc'[a.applier] = "done" PROVE Named(a)'
  <2>1. a \in adjustments /\ a.applier \in Requests /\ a.count \in Requests
    BY DEF AInv, TypeOK, Adjustment
  <2>2. CASE a.applier = r
    BY <1>2, <1>8, <2>1, <2>2
  <2>3. CASE a.applier # r
    <3>1. Named(a) /\ IsApplied(a.count)
      BY <1>2, <1>8, <2>1, <2>3 DEF AInv, Named
    <3>2. counts'[a.count] = counts[a.count]
      BY <2>1, <3>1
    <3> QED
      BY <2>1, <3>1, <3>2, SameRow
  <2> QED
    BY <2>2, <2>3
<1> QED
  BY <1>4, <1>6, <1>7, <1>8 DEF AInv

\* The lines of a count that is being saved.
LEMMA BuiltLines ==
  ASSUME TypeOK, IsFiniteSet(Products), NEW r \in Requests, NEW found \in Findings
  PROVE  BuildCountLines(r, found) \in SUBSET CountLine /\ IsFiniteSet(BuildCountLines(r, found))
<1>1. PICK S \in SUBSET Products : found \in [S -> Found]
  BY DEF Findings
<1>2. \A p \in S : found[p] \in Nat /\ stock[p] \in Nat
  BY <1>1 DEF TypeOK
<1>3. DOMAIN found = S
  BY <1>1
<1>4. BuildCountLines(r, found) =
        {[saver |-> r, product |-> p, system |-> stock[p], physical |-> found[p]] : p \in S}
  BY <1>3 DEF BuildCountLines
<1>5. BuildCountLines(r, found) \in SUBSET CountLine
  BY <1>2, <1>4 DEF CountLine
<1>6. IsFiniteSet({[saver |-> r, product |-> p, system |-> stock[p], physical |-> found[p]] : p \in S})
  <2>1. IsFiniteSet(S)
    BY FS_Subset
  <2>2. PICK f : f = [p \in S |-> [saver |-> r, product |-> p, system |-> stock[p], physical |-> found[p]]]
    OBVIOUS
  <2>3. {[saver |-> r, product |-> p, system |-> stock[p], physical |-> found[p]] : p \in S} = {f[p] : p \in S}
    BY <2>2
  <2>4. f \in Surjection(S, {f[p] : p \in S})
    BY <2>2 DEF Surjection
  <2> QED
    BY <2>1, <2>3, <2>4, FS_Surjection
<1> QED
  BY <1>4, <1>5, <1>6

\* A count in the works exists for all but the handler that creates it.
LEMMA ActiveCount ==
  ASSUME AInv, NEW r \in Requests, Active(r)
  PROVE  /\ task[r] \in Task /\ IsFiniteSet(task[r].lines)
         /\ task[r].lines \in SUBSET CountLine /\ task[r].count \in Requests
         /\ task[r].operation \in {"create", "update", "apply"}
         /\ ~IsApplied(task[r].count)
         /\ task[r].operation # "create" =>
              counts[task[r].count] \in Count /\ IsFiniteSet(counts[task[r].count].lines)
<1>1. task[r] \in Task /\ IsFiniteSet(task[r].lines)
  BY DEF AInv, Handlers
<1>2. \A t \in Task : /\ t.lines \in SUBSET CountLine /\ t.count \in Requests
                      /\ t.operation \in {"create", "update", "apply"}
  BY DEF Task
<1>3. IF task[r].operation = "create" THEN task[r].count = r /\ counts[r] = Nil
                                      ELSE Editable(task[r].count)
  BY DEF AInv, CInv, DraftInWork
<1> QED
  BY <1>1, <1>2, <1>3 DEF AInv, TypeOK, FiniteLines, IsApplied, Editable

\* A count that is saved is a draft with proper lines.
LEMMA SaveAttempts ==
  ASSUME AInv, CInv', NEW r \in Requests, Save(r)
  PROVE  AInv'
<1>1. PICK t, k : t = task[r] /\ k = t.count
  OBVIOUS
<1>2. Active(r) /\ pc[r] = "save" /\ End(r, "done") /\ adjustments' = adjustments
      /\ stock' = stock /\ moved' = moved
  BY DEF Save, Active, Steps
<1>3. /\ t \in Task /\ IsFiniteSet(t.lines) /\ t.lines \in SUBSET CountLine /\ k \in Requests
      /\ t.operation \in {"create", "update", "apply"} /\ t.operation # "apply" /\ ~IsApplied(k)
      /\ t.operation # "create" => counts[k] \in Count /\ IsFiniteSet(counts[k].lines)
  BY <1>1, <1>2, ActiveCount DEF AInv, Handlers
<1>4. \A c \in Requests : c # k => counts'[c] = counts[c]
  BY <1>1 DEF Save, AInv, CInv, Shape
<1>5. /\ counts'[k] \in Count /\ counts'[k].status = "draft" /\ IsFiniteSet(counts'[k].lines)
  <2>1. CASE t.operation = "create"
    <3>1. counts'[k] = NewCount(t.lines)
      BY <1>1, <1>3, <2>1 DEF Save, AInv, CInv, Shape
    <3>2. NewCount(t.lines).lines = t.lines /\ NewCount(t.lines).status = "draft"
      BY DEF NewCount
    <3>3. NewCount(t.lines) \in Count
      BY <1>3 DEF NewCount, Count
    <3> QED
      BY <1>3, <3>1, <3>2, <3>3
  <2>2. CASE t.operation # "create"
    <3>1. PICK old, new : old = counts[k] /\ new = LinesReplaced(old.lines, t)
      OBVIOUS
    <3>2. old \in Count /\ IsFiniteSet(old.lines) /\ old.status = "draft"
      BY <1>1, <1>2, <1>3, <2>2, <3>1 DEF AInv, CInv, DraftInWork, Editable
    <3>3. old.lines \in SUBSET CountLine
      BY <3>2 DEF Count
    <3>4. new \in SUBSET CountLine
      BY <1>3, <3>1, <3>3 DEF LinesReplaced
    <3>5. IsFiniteSet(new)
      <4>1. IsFiniteSet(old.lines \ t.read)
        BY <3>2, FS_Difference
      <4> QED
        BY <1>3, <3>1, <4>1, FS_Union DEF LinesReplaced
    <3>6. counts'[k] = [old EXCEPT !.lines = new]
      BY <1>1, <1>3, <2>2, <3>1 DEF Save, AInv, CInv, Shape
    <3>7. [old EXCEPT !.lines = new] \in Count /\ [old EXCEPT !.lines = new].lines = new
          /\ [old EXCEPT !.lines = new].status = old.status
      BY ONLY <3>2, <3>4 DEF Count
    <3> QED
      BY <3>2, <3>5, <3>6, <3>7
  <2> QED
    BY <2>1, <2>2
<1>6. TypeOK'
  <2>1. \A c \in Requests : counts'[c] = Nil \/ counts'[c] \in Count
    BY <1>4, <1>5 DEF AInv, TypeOK
  <2>2. pc' \in [Requests -> Steps \cup {"idle", "done", "failed"}]
    BY <1>2 DEF AInv, TypeOK, End
  <2>3. \A q \in Requests : task'[q] = Nil \/ task'[q] \in Task
    BY <1>2 DEF AInv, TypeOK, End, CInv, Shape
  <2> QED
    BY <1>2, <2>1, <2>2, <2>3 DEF AInv, TypeOK
<1>7. FiniteLines'
  BY <1>4, <1>5 DEF AInv, FiniteLines
<1>8. ~IsApplied(k)'
  BY <1>5 DEF IsApplied
<1>9. \A a \in adjustments : a.applier # r
  <2>1. \A side \in Sides : By(r, side) = {}
    BY <1>2 DEF AInv, Attempts, Past, Sides
  <2> QED
    BY <2>1 DEF By, AInv, TypeOK, Adjustment, Sides
<1>10. k = task[r].count
  BY <1>1
<1>11. "done" \in {"done", "failed"}
  OBVIOUS
<1>12. \A a \in adjustments : a.applier = r => Named(a)'
  BY <1>9
<1> QED
  BY <1>2, <1>3, <1>4, <1>6, <1>7, <1>8, <1>10, <1>11, <1>12, EndAttempts

\* A count that is marked names what its attempt has posted.
LEMMA MarkAttempts ==
  ASSUME AInv, CInv', NEW r \in Requests, MarkApplied(r)
  PROVE  AInv'
<1>1. PICK t, k, L : t = task[r] /\ k = t.count /\ L = t.lines
  OBVIOUS
<1>2. Active(r) /\ pc[r] = "mark" /\ End(r, "done") /\ adjustments' = adjustments
      /\ stock' = stock /\ moved' = moved
  BY DEF MarkApplied, Active, Steps
<1>3. /\ t \in Task /\ k \in Requests /\ t.operation = "apply" /\ ~IsApplied(k)
      /\ counts[k] \in Count /\ IsFiniteSet(counts[k].lines) /\ L = counts[k].lines
  BY <1>1, <1>2, ActiveCount DEF AInv, Handlers
<1>4. \A c \in Requests : c # k => counts'[c] = counts[c]
  BY <1>1 DEF MarkApplied, AInv, CInv, Shape
<1>5. PICK pos, neg : /\ pos = IF Rises(L) THEN r ELSE Nil
                      /\ neg = IF Falls(L) THEN r ELSE Nil
  OBVIOUS
<1>6. /\ counts'[k] \in Count /\ counts'[k] # Nil /\ counts'[k].status = "applied" /\ counts'[k].lines = L
      /\ counts'[k].positive = pos /\ counts'[k].negative = neg
  <2>1. PICK old : old = counts[k]
    OBVIOUS
  <2>2. counts'[k] = [old EXCEPT !.status = "applied", !.positive = pos, !.negative = neg]
    BY <1>1, <1>3, <1>5, <2>1 DEF MarkApplied, Applied, AInv, CInv, Shape
  <2>3. old \in Count /\ old.lines = L
    BY <1>3, <2>1
  <2>4. pos \in Requests \cup {Nil} /\ neg \in Requests \cup {Nil}
    BY <1>5
  <2>5. PICK new : new = [old EXCEPT !.status = "applied", !.positive = pos, !.negative = neg]
    OBVIOUS
  <2>6. /\ new \in Count /\ new.status = "applied" /\ new.lines = L
        /\ new.positive = pos /\ new.negative = neg
    BY ONLY <2>3, <2>4, <2>5 DEF Count
  <2>7. counts'[k] # Nil
    BY <2>2, <2>5, <2>6, NilAssumption
  <2> QED
    BY <2>2, <2>5, <2>6, <2>7
<1>7. TypeOK'
  <2>1. \A c \in Requests : counts'[c] = Nil \/ counts'[c] \in Count
    BY <1>4, <1>6 DEF AInv, TypeOK
  <2>2. pc' \in [Requests -> Steps \cup {"idle", "done", "failed"}]
    BY <1>2 DEF AInv, TypeOK, End
  <2>3. \A q \in Requests : task'[q] = Nil \/ task'[q] \in Task
    BY <1>2 DEF AInv, TypeOK, End, CInv, Shape
  <2> QED
    BY <1>2, <2>1, <2>2, <2>3 DEF AInv, TypeOK
<1>8. FiniteLines'
  BY <1>3, <1>4, <1>6 DEF AInv, FiniteLines
<1>9. \A side \in Sides :
        /\ By(r, side) = IF Needs(side, L) THEN {PostOf(k, r, side, L)} ELSE {}
        /\ LinkOf(k, side)' = IF Needs(side, L) THEN r ELSE Nil
  BY <1>1, <1>2, <1>5, <1>6 DEF AInv, Attempts, Past, Sides, Needs, LinkOf
<1>10. pc'[r] = "done" /\ \A side : By(r, side)' = By(r, side)
  BY <1>2 DEF End, AInv, CInv, Shape, By
<1>11. Settled(k)'
  <2> SUFFICES ASSUME NEW side \in Sides
               PROVE  IF Needs(side, counts'[k].lines)
                      THEN /\ LinkOf(k, side)' \in Requests /\ pc'[LinkOf(k, side)'] = "done"
                           /\ By(LinkOf(k, side), side)' = {PostOf(k, LinkOf(k, side)', side, counts'[k].lines)}
                      ELSE LinkOf(k, side)' = Nil
    BY DEF Settled
  <2>1. CASE Needs(side, L)
    <3>1. LinkOf(k, side)' = r
      BY <1>9, <2>1
    <3>2. By(LinkOf(k, side), side)' = By(r, side)
      BY <1>10, <3>1 DEF By
    <3> QED
      BY <1>6, <1>9, <1>10, <2>1, <3>1, <3>2
  <2>2. CASE ~Needs(side, L)
    BY <1>6, <1>9, <2>2
  <2> QED
    BY <2>1, <2>2
<1>12. ASSUME NEW a \in adjustments, a.applier = r PROVE Named(a)'
  <2>1. a.side \in Sides
    BY DEF AInv, TypeOK, Adjustment, Sides
  <2>2. a \in By(r, a.side)
    BY <1>12 DEF By
  <2>3. Needs(a.side, L) /\ a = PostOf(k, r, a.side, L)
    BY <1>9, <2>1, <2>2
  <2>4. a.count = k /\ LinkOf(k, a.side)' = r
    BY <1>9, <2>1, <2>3 DEF PostOf
  <2>5. (IF a.side = "positive" THEN counts'[k].positive ELSE counts'[k].negative) = r
    BY <2>4 DEF LinkOf
  <2>6. IsApplied(k)'
    BY <1>6 DEF IsApplied
  <2> QED
    BY <1>2, <1>12, <2>4, <2>5, <2>6 DEF Named, Linked, AdjustmentsOf
<1>13. k = task[r].count /\ "done" \in {"done", "failed"}
  BY <1>1
<1>14. \A a \in adjustments : a.applier = r => Named(a)'
  BY <1>12
<1> QED
  BY <1>2, <1>3, <1>4, <1>7, <1>8, <1>11, <1>13, <1>14, EndAttempts

\* A refusal or a loss.
LEMMA FailAttempts ==
  ASSUME AInv, CInv', NEW r \in Requests, Active(r), End(r, "failed"), UNCHANGED <<committed, moved>>
  PROVE  AInv'
<1>1. counts' = counts /\ adjustments' = adjustments /\ stock' = stock /\ moved' = moved
  BY DEF committed
<1>2. TypeOK'
  <2>1. pc' \in [Requests -> Steps \cup {"idle", "done", "failed"}]
    BY DEF AInv, TypeOK, End
  <2>2. \A q \in Requests : task'[q] = Nil \/ task'[q] \in Task
    BY DEF AInv, TypeOK, End, CInv, Shape
  <2> QED
    BY <1>1, <2>1, <2>2 DEF AInv, TypeOK
<1>3. FiniteLines'
  BY <1>1 DEF AInv, FiniteLines
<1>4. PICK k : k = task[r].count
  OBVIOUS
<1>5. IsApplied(k)' => IsApplied(k)
  BY <1>1 DEF IsApplied
<1>6. "failed" \in {"done", "failed"} /\ "failed" # "done"
  OBVIOUS
<1> QED
  BY <1>1, <1>2, <1>3, <1>4, <1>5, <1>6, EndAttempts

\* A side posted, with the stock it moves.
LEMMA PostStep ==
  ASSUME AInv, CInv', NEW r \in Requests, PostPositive(r) \/ PostNegative(r)
  PROVE  AInv'
<1>1. PICK t, L : t = task[r] /\ L = t.lines
  OBVIOUS
<1>2. pc[r] \in Sides /\ Active(r)
  BY DEF PostPositive, PostNegative, Sides, Active, Steps
<1>3. /\ t \in Task /\ L \in SUBSET CountLine /\ IsFiniteSet(L) /\ t.count \in Requests
  BY <1>1, <1>2, ActiveCount
<1>4. \A p \in Products : Rise(L)[p] \in Nat /\ Fall(L)[p] \in Nat /\ stock[p] \in Nat
  BY <1>3, RiseAndFall DEF AInv, TypeOK
<1>5. Rise(L) \in [Products -> Nat] /\ Fall(L) \in [Products -> Nat]
  <2>1. PICK f, g : f = Rise(L) /\ g = Fall(L)
    OBVIOUS
  <2>2. f = [p \in Products |-> f[p]] /\ g = [p \in Products |-> g[p]]
    BY <2>1 DEF Rise, Fall
  <2> QED
    BY <1>4, <2>1, <2>2
<1>6. stock' \in [Products -> Nat]
  <2>1. CASE PostPositive(r)
    <3>1. stock' = [p \in Products |-> stock[p] + Rise(L)[p]]
      BY <1>1, <2>1 DEF PostPositive
    <3> QED
      BY <1>4, <3>1
  <2>2. CASE PostNegative(r)
    <3>1. stock' = [p \in Products |-> stock[p] - Fall(L)[p]]
      BY <1>1, <2>2 DEF PostNegative
    <3>2. \A p \in Products : stock[p] >= Fall(L)[p]
      BY <1>1, <2>2 DEF PostNegative, Covers
    <3>3. \A p \in Products : stock[p] - Fall(L)[p] \in Nat
      BY <1>4, <3>2
    <3> QED
      BY <3>1, <3>3
  <2> QED
    BY <2>1, <2>2
<1>7. PICK side : side = pc[r]
  OBVIOUS
<1>8. /\ side \in Sides
      /\ adjustments' = adjustments \cup {PostOf(t.count, r, side, L)}
      /\ pc' = [pc EXCEPT ![r] = IF side = "positive" THEN AfterPositive(L) ELSE "mark"]
      /\ counts' = counts /\ task' = task /\ moved' = moved
  BY <1>1, <1>2, <1>7 DEF PostPositive, PostNegative, Post, PostOf
<1>9. PostOf(t.count, r, side, L) \in Adjustment
  <2>1. (IF side = "positive" THEN Rise(L) ELSE Fall(L)) \in [Products -> Nat]
    BY <1>5
  <2> QED
    BY <1>3, <1>8, <2>1 DEF PostOf, Adjustment, Sides
<1>10. TypeOK'
  <2>1. pc' \in [Requests -> Steps \cup {"idle", "done", "failed"}]
    BY <1>8 DEF AInv, TypeOK, AfterPositive, Steps
  <2> QED
    BY <1>6, <1>8, <1>9, <2>1 DEF AInv, TypeOK
<1> QED
  BY <1>1, <1>7, <1>8, <1>10, PostAttempts

\* A handler that starts.
LEMMA StartStep ==
  ASSUME AInv, CInv', IsFiniteSet(Products), NEW r \in Requests, CountRequests(r)
  PROVE  AInv'
<1>1. ASSUME NEW t \in Task, NEW step \in Steps, Start(r, t, step) PROVE TypeOK'
  BY <1>1 DEF AInv, TypeOK, Start, committed
<1>2. ASSUME NEW t, t \in Task, Start(r, t, "save"), IsFiniteSet(t.lines), t.operation # "apply"
      PROVE  AInv'
  <2>1. "save" \in Steps /\ "save" \notin Sides
    BY DEF Steps, Sides
  <2>2. TypeOK'
    BY <1>1, <1>2, <2>1
  <2> QED
    BY <1>2, <2>1, <2>2, StartAttempts
<1>3. CASE CreateCount(r)
  <2>1. PICK found \in Findings :
          Start(r, [operation |-> "create", count |-> r, read |-> {},
                    lines |-> BuildCountLines(r, found)], "save")
    BY <1>3 DEF CreateCount
  <2>2. PICK L : L = BuildCountLines(r, found)
    OBVIOUS
  <2>3. L \in SUBSET CountLine /\ IsFiniteSet(L)
    BY <2>2, BuiltLines DEF AInv
  <2>4. PICK t : t = [operation |-> "create", count |-> r, read |-> {}, lines |-> L]
    OBVIOUS
  <2>5. t \in Task /\ t.lines = L /\ t.operation = "create"
    BY <2>3, <2>4 DEF Task
  <2>6. Start(r, t, "save")
    BY <2>1, <2>2, <2>4
  <2> QED
    BY <1>2, <2>3, <2>5, <2>6
<1>4. ASSUME NEW c \in Requests, UpdateCount(r, c) PROVE AInv'
  <2>1. PICK found \in Findings :
          Start(r, [operation |-> "update", count |-> c, read |-> counts[c].lines,
                    lines |-> BuildCountLines(r, found)], "save")
    BY <1>4 DEF UpdateCount
  <2>2. PICK L : L = BuildCountLines(r, found)
    OBVIOUS
  <2>3. L \in SUBSET CountLine /\ IsFiniteSet(L) /\ counts[c].lines \in SUBSET CountLine
    BY <1>4, <2>2, BuiltLines DEF AInv, TypeOK, UpdateCount, Editable, Count
  <2>4. PICK t : t = [operation |-> "update", count |-> c, read |-> counts[c].lines, lines |-> L]
    OBVIOUS
  <2>5. t \in Task /\ t.lines = L /\ t.operation = "update"
    BY <2>3, <2>4 DEF Task
  <2>6. Start(r, t, "save")
    BY <2>1, <2>2, <2>4
  <2> QED
    BY <1>2, <2>3, <2>5, <2>6
<1>5. ASSUME NEW c \in Requests, ApplyCount(r, c) PROVE AInv'
  <2>1. PICK L, step : L = counts[c].lines /\ step = IF Rises(L) THEN "positive" ELSE AfterPositive(L)
    OBVIOUS
  <2>2. L \in SUBSET CountLine /\ IsFiniteSet(L)
    BY <1>5, <2>1 DEF AInv, TypeOK, FiniteLines, ApplyCount, Editable, Count
  <2>3. PICK t : t = [operation |-> "apply", count |-> c, read |-> L, lines |-> L]
    OBVIOUS
  <2>4. t \in Task /\ t.lines = L /\ t.operation = "apply" /\ t.count = c
    BY <2>2, <2>3 DEF Task
  <2>5. Start(r, t, step)
    BY <1>5, <2>1, <2>3 DEF ApplyCount
  <2>6. /\ step \in Steps /\ step # "save"
        /\ step = "mark" => ~Rises(L) /\ ~Falls(L)
        /\ step = "negative" => ~Rises(L)
        /\ step \in Sides => Needs(step, L)
    BY <2>1 DEF AfterPositive, Steps, Sides, Needs
  <2>7. TypeOK'
    BY <1>1, <2>4, <2>5, <2>6
  <2> QED
    BY <2>1, <2>2, <2>4, <2>5, <2>6, <2>7, StartAttempts
<1> QED
  BY <1>3, <1>4, <1>5 DEF CountRequests

\* Steps that change nothing but the stock.
LEMMA StockAttempts ==
  ASSUME AInv, CInv', TypeOK', UNCHANGED <<counts, adjustments, pc, task>>
  PROVE  AInv'
BY DEF AInv, Handlers, FiniteLines, Attempts, Settled, LinkOf, By, Named, IsApplied, Linked,
       AdjustmentsOf, Active

\* Every step.
LEMMA NextAttempts ==
  ASSUME ~SameCount, IsFiniteSet(Products), AInv, [Next]_vars
  PROVE  AInv'
<1>1. CInv'
  BY StepInv DEF AInv
<1>2. CASE UNCHANGED vars
  BY <1>1, <1>2, StockAttempts DEF vars, committed, AInv, TypeOK
<1>3. ASSUME NEW p \in Products, OtherMovement(p) PROVE AInv'
  <2>1. PICK change \in Movements : stock[p] + change >= 0 /\ stock' = [stock EXCEPT ![p] = @ + change]
    BY <1>3 DEF OtherMovement
  <2>2. stock' \in [Products -> Nat] /\ moved' \in 0..MaxMovements
    <3>1. stock[p] \in Nat /\ change \in Int /\ moved \in 0..MaxMovements
      BY DEF AInv, TypeOK
    <3>2. stock[p] + change \in Nat
      BY <2>1, <3>1
    <3> QED
      BY <1>3, <2>1, <3>1, <3>2 DEF OtherMovement, AInv, TypeOK
  <2> QED
    BY <1>1, <1>3, <2>2, StockAttempts DEF OtherMovement, AInv, TypeOK
<1>4. ASSUME NEW r \in Requests, Save(r) PROVE AInv'
  BY <1>1, <1>4, SaveAttempts
<1>5. ASSUME NEW r \in Requests, MarkApplied(r) PROVE AInv'
  BY <1>1, <1>5, MarkAttempts
<1>6. ASSUME NEW r \in Requests, PostPositive(r) \/ PostNegative(r) PROVE AInv'
  BY <1>1, <1>6, PostStep
<1>7. ASSUME NEW r \in Requests, RefuseCost(r) \/ RefuseNegative(r) \/ Lose(r) PROVE AInv'
  <2>1. Active(r) /\ End(r, "failed") /\ UNCHANGED <<committed, moved>>
    BY <1>7 DEF RefuseCost, RefuseNegative, Lose, Active, Steps
  <2> QED
    BY <1>1, <2>1, FailAttempts
<1>8. ASSUME NEW r \in Requests, CountRequests(r) PROVE AInv'
  BY <1>1, <1>8, StartStep
<1> QED
  BY <1>2, <1>3, <1>4, <1>5, <1>6, <1>7, <1>8 DEF Next

-----------------------------------------------------------------------------
(* The theorems.                                                           *)

\* The invariant of the attempts.
THEOREM AttemptInvariance ==
  ASSUME ~SameCount, IsFiniteSet(Products) PROVE Spec => []AInv
BY InitAttempts, NextAttempts, PTL DEF Spec

\* Every variable keeps its type; stock is never negative, however much it fell
\* since the count was saved.
THEOREM TypeCorrect ==
  ASSUME ~SameCount, IsFiniteSet(Products) PROVE Spec => []TypeOK
<1>1. AInv => TypeOK
  BY DEF AInv
<1> QED
  BY <1>1, AttemptInvariance, PTL

\* The documents an applied count names have moved the differences in its lines,
\* and a successful attempt leaves no other document behind, whatever earlier
\* attempts posted, refused or lost.
THEOREM CountsApplyWhatTheyFound ==
  ASSUME ~SameCount, IsFiniteSet(Products) PROVE Spec => []AppliedAsCounted
<1>1. AInv => AppliedAsCounted
  <2> SUFFICES ASSUME AInv PROVE AppliedAsCounted
    OBVIOUS
  <2>1. ASSUME NEW c \in Requests, IsApplied(c), NEW p \in Products
        PROVE  Posted(Linked(c), p) = DifferenceOf(counts[c].lines, p)
    BY <2>1, SettledMoves DEF AInv
  <2>2. \A a \in adjustments : pc[a.applier] = "done" => Named(a)
    BY DEF AInv
  <2> QED
    BY <2>1, <2>2 DEF AppliedAsCounted, Named
<1> QED
  BY <1>1, AttemptInvariance, PTL
=============================================================================
