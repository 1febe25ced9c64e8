------------------------ MODULE StockMovementsProofs ------------------------
(***************************************************************************)
(* Theorems about StockMovements, for any products, requests, line lists,  *)
(* stock and numbering, with or without requests that share a document,    *)
(* and about its Kardex in ConcurrentKardex, for requests that do not.     *)
(*                                                                         *)
(* The inductive invariant IInv is disturbed by few actions: Start and the *)
(* reading steps touch only the handler's own state; TakeNumber takes a    *)
(* free sequence; MoveLine a free row; Rollback forgets; Commit publishes. *)
(***************************************************************************)
EXTENDS ConcurrentKardex, Sums, TLAPS

USE ConstantsAssumption, NilAssumption DEF ConstantsAssumption, NilAssumption

-----------------------------------------------------------------------------
(* Lines and kinds.                                                        *)

\* The lines a client may submit are proper: every position holds a product
\* and a positive quantity, and no product comes twice.
LEMMA LineFacts ==
  ASSUME NEW lines \in LineChoices
  PROVE  /\ lines \in Seq(Line)
         /\ lines # <<>>
         /\ Len(lines) \in Nat \ {0}
         /\ \A i \in 1..Len(lines) : /\ lines[i].product \in Products
                                     /\ lines[i].quantity \in Nat \ {0}
         /\ \A i, j \in 1..Len(lines) :
              lines[i].product = lines[j].product => i = j
<1>1. lines \in DistinctLines
  OBVIOUS
<1>2. lines \in Seq(Line) /\ lines # <<>>
  BY <1>1 DEF DistinctLines
<1>3. \A i \in 1..Len(lines) : lines[i] \in Line
  BY <1>2
<1>4. DOMAIN lines = 1..Len(lines) /\ Len(lines) \in Nat \ {0}
  BY <1>2
<1>5. \A i, j \in 1..Len(lines) : lines[i].product = lines[j].product => i = j
  BY <1>1, <1>4 DEF DistinctLines
<1>6. \A i \in 1..Len(lines) : /\ lines[i].product \in Products
                               /\ lines[i].quantity \in Nat \ {0}
  BY <1>3 DEF Line
<1> QED
  BY <1>2, <1>4, <1>5, <1>6

\* Every kind of document is numbered from one of the sequences.
LEMMA DocTypeFact == ASSUME NEW kind \in Kinds PROVE DocType(kind) \in DocTypes
BY DEF Kinds, DocType, DocTypes

LEMMA InitialStatusFact ==
  ASSUME NEW kind \in Kinds PROVE InitialStatus(kind) \in {"approved", "pending"}
BY DEF InitialStatus

LEMMA NoChangeFact == NoChange \in [Products -> Int] /\ \A p \in Products : NoChange[p] = 0
BY DEF NoChange

-----------------------------------------------------------------------------
(* The invariant holds initially.                                          *)

LEMMA InitInv == Init => IInv
<1> SUFFICES ASSUME Init PROVE IInv
  OBVIOUS
<1> USE NoChangeFact DEF Init
<1>1. TypeOK
  BY DEF TypeOK, Steps
<1>2. HandlerState
  BY DEF HandlerState, StateOf, Active, Steps
<1>3. HandlerTarget
  BY DEF HandlerTarget, Active, Steps
<1>4. SequenceOwner
  BY DEF SequenceOwner
<1>5. RowOwner
  <2> SUFFICES ASSUME NEW r \in Requests, NEW p \in Products
               PROVE  change[r][p] = 0 /\ InitialStock[p] + 0 >= 0
    BY DEF RowOwner
  <2>1. change[r] = NoChange
    OBVIOUS
  <2>2. InitialStock[p] \in Nat
    OBVIOUS
  <2> QED
    BY <2>1, <2>2
<1>6. NumbersConsecutive
  <2> SUFFICES ASSUME NEW t \in DocTypes
               PROVE  {} = (OpeningNumber[t] + 1) .. lastNumber[t]
    BY DEF NumbersConsecutive, Issued
  <2> QED
    OBVIOUS
<1> QED
  BY <1>1, <1>2, <1>3, <1>4, <1>5, <1>6 DEF IInv

-----------------------------------------------------------------------------
(* Every kind of step preserves it.                                        *)

\* A handler that runs has a task, and its lines are proper.
LEMMA ActiveTask ==
  ASSUME TypeOK, HandlerState, NEW r \in Requests, Active(r)
  PROVE  /\ task[r] \in Task
         /\ task[r].kind \in Kinds
         /\ task[r].lines \in LineChoices
         /\ task[r].target \in Requests
         /\ TaskType(r) \in DocTypes
<1>1. task[r] \in Task
  BY DEF TypeOK, HandlerState, StateOf
<1> QED
  BY <1>1, DocTypeFact DEF Task, TaskType

\* What the handlers guarantee about the task they start with.
TaskFits(r, t, step) ==
  /\ step = "number" <=> t.operation = "create"
  /\ step = "reverse" => t.operation = "void"
  /\ step \notin {"insert", "lines"}
  /\ IF t.operation = "create"
     THEN t.target = r
     ELSE /\ documents[t.target] # Nil
          /\ documents[t.target].kind = t.kind
          /\ documents[t.target].lines = t.lines

\* A handler that starts changes nothing that is shared.
LEMMA StartInv ==
  ASSUME IInv, NEW r \in Requests, NEW t \in Task, NEW step \in Steps,
         Start(r, t, step), TaskFits(r, t, step)
  PROVE  IInv'
<1> USE DEF IInv, TypeOK, Start, committed, locks
<1>1. TypeOK'
  OBVIOUS
<1>2. HandlerState'
  <2>1. t # Nil /\ Len(t.lines) \in Nat \ {0}
    BY LineFacts DEF Task
  <2>2. ASSUME NEW q \in Requests \ {r} PROVE StateOf(q)'
    BY DEF HandlerState, StateOf, Active
  <2>3. StateOf(r)'
    <3>1. /\ pc'[r] = step /\ task'[r] = t /\ position'[r] = 1 /\ change'[r] = NoChange
          /\ step \in Steps
      BY DEF HandlerState, StateOf
    <3>2. 1 <= Len(t.lines)
      BY <2>1
    <3> QED
      BY ONLY <2>1, <3>1, <3>2, TaskFits(r, t, step) DEF StateOf, TaskFits, Active, Steps
  <2> QED
    BY <2>2, <2>3 DEF HandlerState
<1>3. HandlerTarget'
  BY DEF HandlerTarget, HandlerState, StateOf, TaskFits, Active, Steps
<1>4. SequenceOwner'
  BY DEF SequenceOwner, TaskFits, Steps, TaskType
<1>5. RowOwner'
  BY DEF RowOwner
<1>6. NumbersConsecutive'
  BY DEF NumbersConsecutive, Issued
<1> QED
  BY <1>1, <1>2, <1>3, <1>4, <1>5, <1>6

\* A transaction that is rolled back leaves the others' locks alone.
LEMMA RollbackInv ==
  ASSUME IInv, NEW r \in Requests, pc[r] # "idle", Rollback(r)
  PROVE  IInv'
<1> USE NoChangeFact DEF IInv, TypeOK, Rollback, End, Release, committed
<1>1. TypeOK'
  OBVIOUS
<1>2. HandlerState'
  BY DEF HandlerState, StateOf, Active, Steps
<1>3. HandlerTarget'
  BY DEF HandlerTarget, Active, Steps
<1>4. SequenceOwner'
  <2> SUFFICES ASSUME NEW q \in Requests, pc'[q] \in {"lines", "move", "commit"},
                      task'[q].operation = "create"
               PROVE  /\ sequenceLock'[TaskType(q)'] = q
                      /\ number'[q] = lastNumber'[TaskType(q)'] + 1
    BY DEF SequenceOwner
  <2>1. q # r
    OBVIOUS
  <2>2. /\ pc[q] = pc'[q] /\ task'[q] = task[q] /\ number'[q] = number[q]
        /\ TaskType(q)' = TaskType(q)
    BY <2>1 DEF TaskType
  <2>3. TaskType(q) \in DocTypes
    BY <2>2, ActiveTask DEF Active, Steps
  <2> QED
    BY <2>1, <2>2, <2>3 DEF SequenceOwner
<1>5. RowOwner'
  <2> SUFFICES ASSUME NEW q \in Requests, NEW p \in Products
               PROVE  /\ change'[q][p] # 0 => rowLock'[p] = q
                      /\ stock[p] + change'[q][p] >= 0
    BY DEF RowOwner
  <2>1. CASE q = r
    BY <2>1
  <2>2. CASE q # r
    BY <2>2 DEF RowOwner
  <2> QED
    BY <2>1, <2>2
<1>6. NumbersConsecutive'
  BY DEF NumbersConsecutive, Issued
<1> QED
  BY <1>1, <1>2, <1>3, <1>4, <1>5, <1>6

\* A number is taken only from a sequence nobody holds.
LEMMA TakeNumberInv ==
  ASSUME IInv, NEW r \in Requests, pc[r] \in {"number", "insert"},
         sequenceLock[TaskType(r)] = Nil, TakeNumber(r)
  PROVE  IInv'
<1> USE DEF IInv, TypeOK, TakeNumber, committed
<1>1. Active(r) /\ task[r].operation = "create" /\ position[r] = 1
  BY DEF Active, Steps, HandlerState, StateOf
<1>2. /\ task[r] \in Task /\ TaskType(r) \in DocTypes /\ task[r].lines \in LineChoices
      /\ task[r].kind \in Kinds
  BY <1>1, ActiveTask
<1>3. lastNumber[TaskType(r)] + 1 \in Nat
  BY <1>2
<1>4. TypeOK'
  BY <1>2, <1>3 DEF Steps
<1>5. HandlerState'
  BY <1>1, <1>2, <1>3, LineFacts DEF HandlerState, StateOf, Active, Steps
<1>6. HandlerTarget'
  BY <1>1, <1>3 DEF HandlerTarget, Active, Steps
<1>7. SequenceOwner'
  <2> SUFFICES ASSUME NEW q \in Requests, pc'[q] \in {"lines", "move", "commit"},
                      task'[q].operation = "create"
               PROVE  /\ sequenceLock'[TaskType(q)'] = q
                      /\ number'[q] = lastNumber'[TaskType(q)'] + 1
    BY DEF SequenceOwner
  <2>1. TaskType(q)' = TaskType(q)
    BY DEF TaskType
  <2>2. CASE q = r
    BY <1>2, <2>1, <2>2
  <2>3. CASE q # r
    <3>1. pc[q] \in {"lines", "move", "commit"} /\ number'[q] = number[q]
      BY <2>3
    <3>2. TaskType(q) \in DocTypes
      BY <3>1, ActiveTask DEF Active, Steps
    <3>3. sequenceLock[TaskType(q)] = q /\ TaskType(q) # TaskType(r)
      BY <3>1 DEF SequenceOwner
    <3> QED
      BY <2>1, <3>1, <3>2, <3>3 DEF SequenceOwner
  <2> QED
    BY <2>2, <2>3
<1>8. RowOwner'
  BY DEF RowOwner
<1>9. NumbersConsecutive'
  BY DEF NumbersConsecutive, Issued
<1> QED
  BY <1>4, <1>5, <1>6, <1>7, <1>8, <1>9

\* Steps that read shared data and go on.
LEMMA MissSequenceInv ==
  ASSUME IInv, NEW r \in Requests, MissSequence(r) PROVE IInv'
<1> USE DEF IInv, TypeOK, MissSequence, committed, locks
<1>1. TypeOK'
  BY DEF Steps
<1>2. HandlerState'
  BY DEF HandlerState, StateOf, Active, Steps
<1>3. HandlerTarget'
  BY DEF HandlerTarget, Active, Steps
<1>4. SequenceOwner'
  BY DEF SequenceOwner, TaskType
<1>5. RowOwner'
  BY DEF RowOwner
<1>6. NumbersConsecutive'
  BY DEF NumbersConsecutive, Issued
<1> QED
  BY <1>1, <1>2, <1>3, <1>4, <1>5, <1>6

LEMMA ReverseKardexInv ==
  ASSUME IInv, NEW r \in Requests, ReverseKardex(r) PROVE IInv'
<1> USE DEF IInv, TypeOK, ReverseKardex, committed, locks
<1>1. Active(r) /\ task[r].operation = "void" /\ position[r] = 1
  BY DEF HandlerState, StateOf, Active, Steps
<1>2. task[r].lines \in LineChoices
  BY <1>1, ActiveTask
<1>3. TypeOK'
  BY DEF Steps
<1>4. HandlerState'
  BY <1>1, <1>2, LineFacts DEF HandlerState, StateOf, Active, Steps
<1>5. HandlerTarget'
  BY DEF HandlerTarget, Active, Steps
<1>6. SequenceOwner'
  BY <1>1 DEF SequenceOwner, TaskType
<1>7. RowOwner'
  BY DEF RowOwner
<1>8. NumbersConsecutive'
  BY DEF NumbersConsecutive, Issued
<1> QED
  BY <1>3, <1>4, <1>5, <1>6, <1>7, <1>8

\* The line a moving handler is at.
LEMMA NextLineFacts ==
  ASSUME IInv, NEW r \in Requests, pc[r] \in {"lines", "move"}
  PROVE  /\ task[r] \in Task
         /\ NextLine(r).product \in Products
         /\ LineDelta(task[r], NextLine(r)) \in Int \ {0}
         /\ position[r] \in 1..Len(task[r].lines)
         /\ Len(task[r].lines) \in Nat
<1>1. task[r] \in Task /\ task[r].lines \in LineChoices
  BY ActiveTask DEF IInv, Active, Steps
<1>2. position[r] \in 1..Len(task[r].lines) /\ Len(task[r].lines) \in Nat
  BY <1>1, LineFacts DEF IInv, TypeOK, HandlerState, StateOf
<1>3. NextLine(r).product \in Products /\ NextLine(r).quantity \in Nat \ {0}
  BY <1>1, <1>2, LineFacts DEF NextLine
<1>4. LineDelta(task[r], NextLine(r)) \in Int \ {0}
  BY <1>3 DEF LineDelta
<1> QED
  BY <1>1, <1>2, <1>3, <1>4

\* A line is inserted: nothing moves yet.
LEMMA InsertLineInv ==
  ASSUME IInv, NEW r \in Requests, InsertLine(r) PROVE IInv'
<1> DEFINE x == NextLine(r).product
<1>1. /\ task[r] \in Task /\ x \in Products /\ task[r].operation = "create"
      /\ position[r] \in 1..Len(task[r].lines) /\ Len(task[r].lines) \in Nat
      /\ pc[r] = "lines" /\ change[r] = NoChange
  BY NextLineFacts DEF InsertLine, IInv, HandlerState, StateOf
<1>2. /\ keyLock' = [keyLock EXCEPT ![x] = keyLock[x] \cup {r}]
      /\ UNCHANGED <<documents, stock, lastNumber, sequenceLock, rowLock, task, number, change>>
  BY DEF InsertLine, committed
<1> HIDE DEF x
<1>3. \E step \in {"lines", "move", "commit"}, i \in 1..Len(task[r].lines) :
        /\ pc' = [pc EXCEPT ![r] = step]
        /\ position' = [position EXCEPT ![r] = i]
  <2>1. CASE position[r] = Len(task[r].lines)
    <3>1. 1 \in 1..Len(task[r].lines) /\ AfterLines(r) \in {"lines", "move", "commit"}
      BY <1>1 DEF AfterLines
    <3> QED
      BY <2>1, <3>1 DEF InsertLine
  <2>2. CASE position[r] # Len(task[r].lines)
    <3>1. position[r] + 1 \in 1..Len(task[r].lines)
      BY <1>1, <2>2
    <3>2. pc' = [pc EXCEPT ![r] = "lines"]
      BY <1>1, <2>2 DEF InsertLine, IInv, TypeOK
    <3> QED
      BY <2>2, <3>1, <3>2 DEF InsertLine
  <2> QED
    BY <2>1, <2>2
<1>31. /\ \A q \in Requests \ {r} : pc'[q] = pc[q] /\ position'[q] = position[q]
       /\ pc'[r] \in {"lines", "move", "commit"}
       /\ position'[r] \in 1..Len(task[r].lines)
       /\ pc' \in [Requests -> Steps \cup {"idle", "done", "failed"}]
       /\ position' \in [Requests -> Nat \ {0}]
  <2>1. PICK step \in {"lines", "move", "commit"}, i \in 1..Len(task[r].lines) :
          /\ pc' = [pc EXCEPT ![r] = step]
          /\ position' = [position EXCEPT ![r] = i]
    BY <1>3
  <2>2. i \in Nat \ {0} /\ step \in Steps
    BY <1>1 DEF Steps
  <2> QED
    BY ONLY <2>1, <2>2, r \in Requests, IInv DEF IInv, TypeOK
<1>4. \A q \in Requests : /\ Active(q)' <=> Active(q)
                         /\ TaskType(q)' = TaskType(q)
  BY <1>1, <1>2, <1>31 DEF Active, Steps, TaskType
<1> USE DEF IInv
<1>5. TypeOK'
  <2>1. keyLock' \in [Products -> SUBSET Requests]
    BY ONLY <1>1, <1>2, r \in Requests, TypeOK DEF TypeOK
  <2> QED
    BY <1>2, <1>31, <2>1 DEF TypeOK
<1>6. HandlerState'
  <2>1. \A q \in Requests \ {r} : StateOf(q)'
    BY <1>2, <1>31, <1>4 DEF HandlerState, StateOf
  <2>2. StateOf(r)'
    BY <1>1, <1>2, <1>31, <1>4 DEF HandlerState, StateOf
  <2> QED
    BY <2>1, <2>2 DEF HandlerState
<1>7. HandlerTarget'
  BY <1>2, <1>4 DEF HandlerTarget
<1>8. SequenceOwner'
  <2>1. \A q \in Requests : pc'[q] \in {"lines", "move", "commit"} /\ task[q].operation = "create"
                             => pc[q] \in {"lines", "move", "commit"}
    BY <1>1, <1>31
  <2> QED
    BY <1>2, <1>4, <2>1 DEF SequenceOwner
<1>9. RowOwner'
  BY <1>2 DEF RowOwner
<1>10. NumbersConsecutive'
  BY <1>2 DEF NumbersConsecutive, Issued
<1> QED
  BY <1>5, <1>6, <1>7, <1>8, <1>9, <1>10

\* Stock moves only under the row's lock and never below zero.
LEMMA MoveLineInv ==
  ASSUME IInv, NEW r \in Requests, MoveLine(r) PROVE IInv'
<1> DEFINE x == NextLine(r).product
           delta == LineDelta(task[r], NextLine(r))
<1>1. /\ task[r] \in Task /\ x \in Products /\ delta \in Int
      /\ position[r] \in 1..Len(task[r].lines) /\ Len(task[r].lines) \in Nat
  BY NextLineFacts DEF MoveLine
<1> USE DEF IInv, TypeOK, MoveLine, committed
<1>2. /\ rowLock' = [rowLock EXCEPT ![x] = r]
      /\ change' = [change EXCEPT ![r] = [change[r] EXCEPT ![x] = change[r][x] + delta]]
      /\ rowLock[x] \in {r, Nil}
      /\ stock[x] + change[r][x] + delta >= 0
  BY DEF RowAvailable, NewStock
<1>20. change[r] \in [Products -> Int] /\ change[r][x] \in Int
  BY <1>1
<1> HIDE DEF x, delta
<1>21. /\ change'[r] = [change[r] EXCEPT ![x] = change[r][x] + delta]
       /\ change'[r] \in [Products -> Int]
       /\ \A q \in Requests \ {r} : change'[q] = change[q]
  BY ONLY <1>1, <1>2, <1>20, r \in Requests, TypeOK DEF TypeOK
<1>3. TypeOK'
  <2>0. change[r][x] + delta \in Int
    BY <1>1, <1>20
  <2>1. change' \in [Requests -> [Products -> Int]]
    <3> DEFINE n == [change[r] EXCEPT ![x] = change[r][x] + delta]
    <3>1. n \in [Products -> Int]
      BY ONLY <1>1, <1>20, <2>0
    <3>2. change' = [change EXCEPT ![r] = n]
      BY <1>2
    <3> HIDE DEF n
    <3> QED
      BY ONLY <3>1, <3>2, r \in Requests, TypeOK DEF TypeOK
  <2>2. position[r] + 1 \in Nat \ {0}
    OBVIOUS
  <2>3. rowLock' \in [Products -> Requests \cup {Nil}]
    BY ONLY <1>1, <1>2, r \in Requests, TypeOK DEF TypeOK
  <2>4. position' \in [Requests -> Nat \ {0}]
    BY ONLY <2>2, r \in Requests, MoveLine(r), TypeOK DEF TypeOK, MoveLine
  <2>5. pc' \in [Requests -> Steps \cup {"idle", "done", "failed"}]
    BY ONLY r \in Requests, MoveLine(r), TypeOK DEF TypeOK, MoveLine, Steps
  <2> QED
    BY <2>1, <2>3, <2>4, <2>5
<1>4. HandlerState'
  BY <1>1, <1>2 DEF HandlerState, StateOf, Active, Steps
<1>5. HandlerTarget'
  BY DEF HandlerTarget, Active, Steps
<1>6. SequenceOwner'
  BY DEF SequenceOwner, TaskType
<1>7. RowOwner'
  <2> SUFFICES ASSUME NEW q \in Requests, NEW p \in Products
               PROVE  /\ change'[q][p] # 0 => rowLock'[p] = q
                      /\ stock[p] + change'[q][p] >= 0
    BY DEF RowOwner
  <2>1. CASE q = r /\ p = x
    <3>1. change'[q][p] = change[r][x] + delta
      BY ONLY <1>1, <1>20, <1>21, <2>1
    <3>2. rowLock'[p] = q
      BY <1>1, <1>2, <2>1
    <3> QED
      BY <1>1, <1>2, <1>20, <2>1, <3>1, <3>2
  <2>2. CASE q = r /\ p # x
    <3>1. change'[q][p] = change[q][p] /\ rowLock'[p] = rowLock[p]
      BY ONLY <1>1, <1>2, <1>20, <1>21, <2>2, TypeOK DEF TypeOK
    <3> QED
      BY <3>1 DEF RowOwner
  <2>3. CASE q # r
    <3>1. change'[q] = change[q]
      BY <1>21, <2>3
    <3>2. p = x => rowLock[p] # q
      BY <1>2, <2>3
    <3>3. p # x => rowLock'[p] = rowLock[p]
      BY <1>2
    <3> QED
      BY <3>1, <3>2, <3>3 DEF RowOwner
  <2> QED
    BY <2>1, <2>2, <2>3
<1>8. NumbersConsecutive'
  BY DEF NumbersConsecutive, Issued
<1> QED
  BY <1>3, <1>4, <1>5, <1>6, <1>7, <1>8

\* What a commit does to the documents: they keep what they were created with.
LEMMA CommittedDocuments ==
  ASSUME IInv, NEW r \in Requests, Commit(r)
  PROVE  /\ documents' \in [Requests -> Document \cup {Nil}]
         /\ \A d \in Requests :
              documents[d] # Nil => /\ documents'[d] # Nil
                                    /\ documents'[d].kind = documents[d].kind
                                    /\ documents'[d].lines = documents[d].lines
                                    /\ documents'[d].number = documents[d].number
         /\ \A d \in Requests :
              documents[d] = Nil /\ ~(d = r /\ task[r].operation = "create")
                => documents'[d] = Nil
         /\ task[r].operation = "create" =>
              /\ documents[r] = Nil /\ documents'[r] # Nil
              /\ documents'[r].kind = task[r].kind
              /\ documents'[r].number = number[r]
<1> DEFINE t == task[r]
<1>1. Active(r) /\ pc[r] = "commit"
  BY DEF Commit, Active, Steps
<1>2. t \in Task /\ t.kind \in Kinds /\ t.lines \in LineChoices /\ t.target \in Requests
  BY <1>1, ActiveTask DEF IInv
<1>3. NewStatus(t) \in Statuses
  <2>1. t.operation \in {"create", "approve", "cancel", "void"}
    BY <1>2 DEF Task
  <2> QED
    BY <1>2, <2>1, InitialStatusFact DEF NewStatus, Statuses
<1>4. documents \in [Requests -> Document \cup {Nil}]
  BY DEF IInv, TypeOK
<1>5. CASE t.operation = "create"
  <2> DEFINE new == [kind |-> t.kind, lines |-> t.lines, status |-> NewStatus(t),
                     number |-> number[r], saleNumber |-> t.saleNumber]
  <2>1. documents' = [documents EXCEPT ![r] = new]
    BY <1>5 DEF Commit
  <2>2. documents[r] = Nil
    BY <1>1, <1>5 DEF IInv, HandlerTarget
  <2>3. number[r] \in Nat \ {0}
    <3>1. number[r] = lastNumber[TaskType(r)] + 1
      BY <1>1, <1>5 DEF IInv, SequenceOwner
    <3>2. lastNumber[TaskType(r)] \in Nat
      BY <1>1, ActiveTask DEF IInv, TypeOK
    <3> QED
      BY <3>1, <3>2
  <2>4. t.saleNumber \in SaleNumbers \cup {Nil}
    BY <1>2 DEF Task
  <2>5. new \in Document
    BY <1>2, <1>3, <2>3, <2>4 DEF Document
  <2>6. new # Nil /\ new.kind = t.kind /\ new.number = number[r]
    BY <2>5
  <2> HIDE DEF new
  <2> QED
    BY <1>4, <1>5, <2>1, <2>2, <2>5, <2>6
<1>6. CASE t.operation # "create"
  <2> DEFINE d == t.target
             new == [documents[d] EXCEPT !.status = NewStatus(t)]
  <2>1. documents' = [documents EXCEPT ![d] = new]
    BY <1>6 DEF Commit
  <2>2. documents[d] \in Document
    BY <1>1, <1>2, <1>4, <1>6 DEF IInv, HandlerTarget
  <2>3. /\ new \in Document
        /\ new.kind = documents[d].kind
        /\ new.lines = documents[d].lines
        /\ new.number = documents[d].number
    BY <1>3, <2>2 DEF Document
  <2>4. new # Nil /\ documents[d] # Nil
    BY <2>2, <2>3
  <2> HIDE DEF new, d
  <2>5. d \in Requests
    BY <1>2 DEF d
  <2> QED
    BY <1>4, <1>6, <2>1, <2>3, <2>4, <2>5
<1> QED
  BY <1>5, <1>6

\* A commit publishes what only its own transaction could have changed.
LEMMA CommitInv ==
  ASSUME IInv, NEW r \in Requests, Commit(r) PROVE IInv'
<1> DEFINE ty == TaskType(r)
           creates == task[r].operation = "create"
<1>1. Active(r) /\ pc[r] = "commit" /\ pc'[r] = "done"
  BY DEF Commit, End, Active, Steps, IInv, TypeOK
<1>2. task[r].kind \in Kinds /\ ty \in DocTypes
  BY <1>1, ActiveTask DEF IInv
<1>3. creates => /\ sequenceLock[ty] = r
                 /\ number[r] = lastNumber[ty] + 1
  BY <1>1 DEF IInv, SequenceOwner
<1>4. lastNumber' = IF creates THEN [lastNumber EXCEPT ![ty] = number[r]] ELSE lastNumber
  BY DEF Commit, TaskType
<1>5. \A q \in Requests \ {r} :
        /\ pc'[q] = pc[q] /\ task'[q] = task[q] /\ number'[q] = number[q]
        /\ position'[q] = position[q] /\ change'[q] = change[q]
        /\ TaskType(q)' = TaskType(q)
  BY DEF Commit, End, IInv, TypeOK, TaskType
<1>6. /\ \A x \in DocTypes : sequenceLock'[x] = IF sequenceLock[x] = r THEN Nil ELSE sequenceLock[x]
      /\ \A p \in Products : rowLock'[p] = IF rowLock[p] = r THEN Nil ELSE rowLock[p]
      /\ \A p \in Products : stock'[p] = stock[p] + change[r][p]
  BY DEF Commit, End, Release
<1>7. /\ position'[r] = 1 /\ change'[r] = NoChange
  BY DEF Commit, End, IInv, TypeOK
<1>8. lastNumber \in [DocTypes -> Nat] /\ lastNumber' \in [DocTypes -> Nat]
  BY <1>2, <1>3, <1>4 DEF IInv, TypeOK
<1>9. \A p \in Products : stock[p] \in Nat /\ \A q \in Requests : change[q][p] \in Int
  BY DEF IInv, TypeOK
<1> HIDE DEF ty, creates
<1>10. TypeOK'
  <2>1. documents' \in [Requests -> Document \cup {Nil}]
    BY CommittedDocuments
  <2>2. stock' \in [Products -> Nat]
    <3>0. \A p \in Products : stock[p] + change[r][p] >= 0
      BY DEF IInv, RowOwner
    <3>1. \A p \in Products : stock[p] + change[r][p] \in Nat
      <4> SUFFICES ASSUME NEW p \in Products PROVE stock[p] + change[r][p] \in Nat
        OBVIOUS
      <4>1. stock[p] \in Nat /\ change[r][p] \in Int
        BY <1>9
      <4>2. stock[p] + change[r][p] >= 0
        BY <3>0
      <4> QED
        BY ONLY <4>1, <4>2
    <3> QED
      BY <3>1 DEF Commit
  <2> QED
    BY <1>8, <2>1, <2>2, NoChangeFact DEF IInv, TypeOK, Commit, End, Release
<1>11. HandlerState'
  <2>1. ASSUME NEW q \in Requests, q # r PROVE StateOf(q)'
    <3>1. StateOf(q) /\ (pc[q] = "idle" => documents'[q] = Nil)
      BY <2>1, CommittedDocuments DEF IInv, HandlerState, StateOf
    <3> QED
      BY <1>5, <2>1, <3>1 DEF StateOf, Active
  <2>2. StateOf(r)'
    BY <1>1, <1>7 DEF StateOf, Active, Steps
  <2> QED
    BY <2>1, <2>2 DEF HandlerState
<1>12. HandlerTarget'
  <2> SUFFICES ASSUME NEW q \in Requests, Active(q)', q # r
               PROVE  IF task[q].operation = "create"
                      THEN task[q].target = q /\ documents'[q] = Nil
                      ELSE /\ documents'[task[q].target] # Nil
                           /\ documents'[task[q].target].kind = task[q].kind
                           /\ documents'[task[q].target].lines = task[q].lines
    BY <1>1, <1>5 DEF HandlerTarget, Active, Steps
  <2>1. Active(q) /\ task[q].target \in Requests
    BY <1>5, ActiveTask DEF Active, IInv
  <2> QED
    BY <2>1, CommittedDocuments DEF IInv, HandlerTarget
<1>13. SequenceOwner'
  <2>1. \A x \in DocTypes : lastNumber'[x] >= OpeningNumber[x]
    <3> SUFFICES ASSUME NEW x \in DocTypes PROVE lastNumber'[x] >= OpeningNumber[x]
      OBVIOUS
    <3>1. lastNumber[x] >= OpeningNumber[x] /\ OpeningNumber[x] \in Nat
      BY DEF IInv, SequenceOwner
    <3> QED
      BY <1>2, <1>3, <1>4, <1>8, <3>1
  <2> SUFFICES ASSUME NEW q \in Requests, q # r, pc[q] \in {"lines", "move", "commit"},
                      task[q].operation = "create"
               PROVE  /\ sequenceLock'[TaskType(q)] = q
                      /\ number[q] = lastNumber'[TaskType(q)] + 1
    BY <1>1, <1>5, <2>1 DEF SequenceOwner
  <2>2. TaskType(q) \in DocTypes
    BY ActiveTask DEF Active, Steps, IInv
  <2>3. sequenceLock[TaskType(q)] = q /\ number[q] = lastNumber[TaskType(q)] + 1
    BY DEF IInv, SequenceOwner
  <2> QED
    BY <1>2, <1>3, <1>4, <1>6, <1>8, <2>2, <2>3
<1>14. RowOwner'
  <2> SUFFICES ASSUME NEW q \in Requests, NEW p \in Products
               PROVE  /\ change'[q][p] # 0 => rowLock'[p] = q
                      /\ stock'[p] + change'[q][p] >= 0
    BY DEF RowOwner
  <2>1. /\ change[r][p] # 0 => rowLock[p] = r
        /\ change[q][p] # 0 => rowLock[p] = q
        /\ stock[p] + change[r][p] >= 0 /\ stock[p] + change[q][p] >= 0
    BY DEF IInv, RowOwner
  <2>2. CASE q = r
    BY <1>6, <1>7, <1>9, <2>1, <2>2, NoChangeFact
  <2>3. CASE q # r
    <3>1. change'[q][p] = change[q][p]
      BY <1>5, <2>3
    <3>2. change[q][p] = 0 \/ change[r][p] = 0
      BY <2>1, <2>3
    <3> QED
      BY <1>6, <1>9, <2>1, <2>3, <3>1, <3>2
  <2> QED
    BY <2>2, <2>3
<1>15. NumbersConsecutive'
  <2> SUFFICES ASSUME NEW x \in DocTypes
               PROVE  /\ {documents'[d].number : d \in Issued(x)'}
                           = (OpeningNumber[x] + 1) .. lastNumber'[x]
                      /\ \A d, e \in Issued(x)' :
                           documents'[d].number = documents'[e].number => d = e
    BY DEF NumbersConsecutive
  <2>1. /\ {documents[d].number : d \in Issued(x)}
             = (OpeningNumber[x] + 1) .. lastNumber[x]
        /\ \A d, e \in Issued(x) : documents[d].number = documents[e].number => d = e
    BY DEF IInv, NumbersConsecutive
  <2>2. \A d \in Issued(x) : d \in Issued(x)' /\ documents'[d].number = documents[d].number
    BY CommittedDocuments DEF Issued
  <2>3. CASE creates /\ x = ty
    <3>1. Issued(x)' = Issued(x) \cup {r} /\ r \notin Issued(x)
      BY <2>2, <2>3, CommittedDocuments DEF Issued, creates, ty, TaskType
    <3>2. documents'[r].number = lastNumber[x] + 1 /\ lastNumber'[x] = lastNumber[x] + 1
      BY <1>2, <1>3, <1>4, <1>8, <2>3, CommittedDocuments DEF creates
    <3>3. lastNumber[x] \in Nat /\ OpeningNumber[x] \in Nat /\ lastNumber[x] >= OpeningNumber[x]
      BY <1>8 DEF IInv, SequenceOwner
    <3>4. \A d \in Issued(x) : documents[d].number \in (OpeningNumber[x] + 1) .. lastNumber[x]
      BY <2>1
    <3>5. {documents'[d].number : d \in Issued(x)'}
            = {documents[d].number : d \in Issued(x)} \cup {lastNumber[x] + 1}
      BY <2>2, <3>1, <3>2
    <3>51. (OpeningNumber[x] + 1) .. (lastNumber[x] + 1)
             = ((OpeningNumber[x] + 1) .. lastNumber[x]) \cup {lastNumber[x] + 1}
      BY <3>3
    <3>6. {documents'[d].number : d \in Issued(x)'}
            = (OpeningNumber[x] + 1) .. lastNumber'[x]
      BY <2>1, <3>2, <3>5, <3>51
    <3>7. \A d \in Issued(x) : documents'[d].number # documents'[r].number
      BY <2>2, <3>2, <3>3, <3>4
    <3> QED
      BY <2>1, <2>2, <3>1, <3>6, <3>7
  <2>4. CASE ~(creates /\ x = ty)
    <3>1. Issued(x)' = Issued(x)
      BY <2>2, <2>4, CommittedDocuments DEF Issued, creates, ty, TaskType
    <3>2. lastNumber'[x] = lastNumber[x]
      BY <1>4, <1>8, <2>4
    <3> QED
      BY <2>1, <2>2, <3>1, <3>2
  <2> QED
    BY <2>3, <2>4
<1> QED
  BY <1>10, <1>11, <1>12, <1>13, <1>14, <1>15 DEF IInv

-----------------------------------------------------------------------------
(* The handlers start with a task that fits.                               *)

\* A document is created by its own request.
LEMMA CreationFits ==
  ASSUME NEW r \in Requests, NEW kind \in Kinds, NEW lines \in LineChoices,
         NEW n \in SaleNumbers \cup {Nil}
  PROVE  /\ Creation(r, kind, lines, n) \in Task
         /\ TaskFits(r, Creation(r, kind, lines, n), "number")
BY DEF Creation, Task, TaskFits

\* The other handlers copy kind and lines of the committed document.
LEMMA HandlingFits ==
  ASSUME IInv, NEW r \in Requests, NEW d \in Requests, documents[d] # Nil,
         NEW operation \in {"approve", "cancel", "void"},
         NEW step \in {"reverse", "move", "commit"},
         step = "reverse" => operation = "void"
  PROVE  /\ Handling(operation, d) \in Task
         /\ TaskFits(r, Handling(operation, d), step)
<1>1. documents[d] \in Document
  BY DEF IInv, TypeOK
<1> QED
  BY <1>1 DEF Document, Handling, Task, TaskFits

LEMMA BeginInv ==
  ASSUME IInv, NEW r \in Requests, Begin(r) PROVE IInv'
<1>1. CASE CreateIngreso(r)
  BY <1>1, CreationFits, StartInv DEF CreateIngreso, Kinds, Steps
<1>2. CASE CreateEgreso(r)
  BY <1>2, CreationFits, StartInv DEF CreateEgreso, Kinds, Steps
<1>3. CASE CreateBaja(r)
  BY <1>3, CreationFits, StartInv DEF CreateBaja, Kinds, Steps
<1>4. CASE CreateAjuste(r)
  BY <1>4, CreationFits, StartInv DEF CreateAjuste, Kinds, Steps
<1>5. ASSUME NEW d \in Requests, ApproveDocument(r, d)
      PROVE  IInv'
  BY <1>5, HandlingFits, StartInv DEF ApproveDocument, Steps
<1>6. ASSUME NEW d \in Requests, CancelDocument(r, d)
      PROVE  IInv'
  BY <1>6, HandlingFits, StartInv DEF CancelDocument, Steps
<1>7. ASSUME NEW d \in Requests, VoidDocument(r, d)
      PROVE  IInv'
  BY <1>7, HandlingFits, StartInv DEF VoidDocument, Steps
<1> QED
  BY <1>1, <1>2, <1>3, <1>4, <1>5, <1>6, <1>7 DEF Begin

-----------------------------------------------------------------------------
(* The theorems.                                                           *)

\* IInv is inductive: it survives every step of every handler.
LEMMA NextInv == IInv /\ [Next]_vars => IInv'
<1> SUFFICES ASSUME IInv, [Next]_vars PROVE IInv'
  OBVIOUS
<1>1. CASE UNCHANGED vars
  BY <1>1 DEF vars, committed, locks, private, IInv, TypeOK, HandlerState, StateOf,
              HandlerTarget, SequenceOwner, RowOwner, NumbersConsecutive,
              Active, Issued, TaskType
<1>2. ASSUME NEW r \in Requests, Begin(r) PROVE IInv'
  BY <1>2, BeginInv
<1>3. ASSUME NEW r \in Requests, LockSequence(r) PROVE IInv'
  BY <1>3, TakeNumberInv DEF LockSequence
<1>4. ASSUME NEW r \in Requests, MissSequence(r) PROVE IInv'
  BY <1>4, MissSequenceInv
<1>5. ASSUME NEW r \in Requests, InsertSequence(r) PROVE IInv'
  BY <1>5, TakeNumberInv DEF InsertSequence
<1>6. ASSUME NEW r \in Requests, DuplicateSequence(r) PROVE IInv'
  BY <1>6, RollbackInv DEF DuplicateSequence
<1>7. ASSUME NEW r \in Requests, ReverseKardex(r) PROVE IInv'
  BY <1>7, ReverseKardexInv
<1>8. ASSUME NEW r \in Requests, MoveLine(r) PROVE IInv'
  BY <1>8, MoveLineInv
<1>9. ASSUME NEW r \in Requests, RefuseLine(r) PROVE IInv'
  BY <1>9, RollbackInv DEF RefuseLine
<1>13. ASSUME NEW r \in Requests, InsertLine(r) PROVE IInv'
  BY <1>13, InsertLineInv
<1>10. ASSUME NEW r \in Requests, Commit(r) PROVE IInv'
  BY <1>10, CommitInv
<1>11. ASSUME NEW r \in Requests, DeadlockVictim(r) PROVE IInv'
  <2>1. \E h \in Requests : WaitsFor(r, h)
    <3> SUFFICES ASSUME \A h \in Requests : ~WaitsFor(r, h) PROVE FALSE
      OBVIOUS
    <3>1. {} \in SUBSET Requests
      OBVIOUS
    <3>2. \A q \in {} \cup {r} : \A h \in Requests : WaitsFor(q, h) => h \in {}
      OBVIOUS
    <3> QED
      BY <1>11, <3>1, <3>2 DEF DeadlockVictim, InDeadlock
  <2>2. pc[r] # "idle"
    BY <2>1 DEF WaitsFor
  <2> QED
    BY <1>11, <2>2, RollbackInv DEF DeadlockVictim
<1>12. ASSUME NEW r \in Requests, Abort(r) PROVE IInv'
  BY <1>12, RollbackInv DEF Abort, Active, Steps
<1> QED
  BY <1>1, <1>2, <1>3, <1>4, <1>5, <1>6, <1>7, <1>8, <1>9, <1>10, <1>11, <1>12, <1>13
     DEF Next, Step

\* The invariant of the concurrent handlers, for any number of requests.
THEOREM Invariance == Spec => []IInv
BY InitInv, NextInv, PTL DEF Spec

\* Every variable keeps its type; in particular committed stock is never
\* negative (update_product_stock refuses, whatever the handler read before).
THEOREM TypeCorrect == Spec => []TypeOK
<1>1. IInv => TypeOK
  BY DEF IInv
<1> QED
  BY <1>1, Invariance, PTL

\* Document numbers have no gaps and no duplicates, whatever is rolled back.
THEOREM NumbersHaveNoGaps == Spec => []NumbersConsecutive
<1>1. IInv => NumbersConsecutive
  BY DEF IInv
<1> QED
  BY <1>1, Invariance, PTL
-----------------------------------------------------------------------------
(* What handlers have moved and what they hold: WorkInv.                   *)

\* The lines before a position, one line at a time.
LEMMA LinesBeforeFacts ==
  ASSUME NEW lines \in LineChoices
  PROVE  /\ LinesBefore(lines, 1) = {}
         /\ \A i \in Nat \ {0} :
              LinesBefore(lines, i + 1) = LinesBefore(lines, i) \cup {lines[i].product}
         /\ LinesBefore(lines, Len(lines) + 1) = ProductsOf(lines)
         /\ \A i \in 1 .. Len(lines) : lines[i].product \notin LinesBefore(lines, i)
<1>1. lines \in Seq(Line) /\ DOMAIN lines = 1 .. Len(lines) /\ Len(lines) \in Nat
  BY LineFacts
<1>2. LinesBefore(lines, 1) = {}
  BY DEF LinesBefore
<1>3. ASSUME NEW i \in Nat \ {0}
      PROVE  LinesBefore(lines, i + 1) = LinesBefore(lines, i) \cup {lines[i].product}
  <2>1. 1 .. (i + 1) - 1 = (1 .. (i - 1)) \cup {i}
    OBVIOUS
  <2> QED
    BY <2>1 DEF LinesBefore
<1>4. 1 .. (Len(lines) + 1 - 1) = DOMAIN lines
  BY <1>1
<1>5. LinesBefore(lines, Len(lines) + 1) = ProductsOf(lines)
  BY <1>4 DEF LinesBefore, ProductsOf
<1>6. ASSUME NEW i \in 1 .. Len(lines), lines[i].product \in LinesBefore(lines, i)
      PROVE  FALSE
  <2>1. PICK j \in 1 .. (i - 1) : lines[i].product = lines[j].product
    BY <1>6 DEF LinesBefore
  <2>2. i \in Nat /\ j \in 1 .. Len(lines) /\ j # i
    BY <1>1
  <2> QED
    BY <2>1, <2>2, LineFacts
<1> QED
  BY <1>2, <1>3, <1>5, <1>6

\* A document names a product once, so its quantity is that line's.
LEMMA QuantityOfLine ==
  ASSUME NEW lines \in LineChoices
  PROVE  /\ \A i \in 1 .. Len(lines) :
              QuantityOf(lines, lines[i].product) = lines[i].quantity
         /\ \A p \in Products : p \notin ProductsOf(lines) => QuantityOf(lines, p) = 0
         /\ \A p \in Products : QuantityOf(lines, p) \in Nat
<1>1. DOMAIN lines = 1 .. Len(lines)
  BY LineFacts
<1>2. ASSUME NEW i \in 1 .. Len(lines)
      PROVE  QuantityOf(lines, lines[i].product) = lines[i].quantity
  <2> DEFINE Has(j) == lines[j].product = lines[i].product
             k == CHOOSE j \in DOMAIN lines : Has(j)
  <2>1. i \in DOMAIN lines /\ Has(i) /\ lines[i].product \in ProductsOf(lines)
    BY <1>1 DEF ProductsOf
  <2>2. k \in DOMAIN lines /\ Has(k)
    <3> HIDE DEF Has
    <3> QED
      BY <2>1
  <2>3. k = i
    BY <1>1, <2>2, LineFacts
  <2> QED
    BY <2>1, <2>3 DEF QuantityOf
<1>3. ASSUME NEW p \in Products PROVE QuantityOf(lines, p) \in Nat
  <2>1. CASE p \in ProductsOf(lines)
    <3>1. PICK i \in DOMAIN lines : p = lines[i].product
      BY <2>1 DEF ProductsOf
    <3> QED
      BY <1>1, <1>2, <3>1, LineFacts
  <2>2. CASE p \notin ProductsOf(lines)
    BY <2>2 DEF QuantityOf
  <2> QED
    BY <2>1, <2>2
<1> QED
  BY <1>2, <1>3 DEF QuantityOf

\* Nothing has been moved or locked initially.
LEMMA InitWork == Init => WorkInv
<1> SUFFICES ASSUME Init PROVE WorkInv
  OBVIOUS
<1>1. IInv
  BY InitInv
<1>2. Moved /\ LocksHeld /\ StillAsRead
  BY DEF Init, Moved, LocksHeld, HoldsSequences, HoldsRows, SharesRows, Inserted, StillAsRead, Active, Steps
<1> QED
  BY <1>1, <1>2 DEF WorkInv

\* Who holds and shares what it did, in the state it was in, may.
LEMMA SameLocks ==
  ASSUME LocksHeld, NEW q \in Requests,
         pc'[q] = pc[q], task'[q] = task[q], position'[q] = position[q],
         \A t \in DocTypes : sequenceLock'[t] = q => sequenceLock[t] = q,
         \A p \in Products : rowLock'[p] = q => rowLock[p] = q /\ keyLock'[p] \subseteq keyLock[p],
         \A p \in Products : q \in keyLock'[p] <=> q \in keyLock[p]
  PROVE  HoldsSequences(q)' /\ HoldsRows(q)' /\ SharesRows(q)'
<1>1. HoldsSequences(q) /\ HoldsRows(q) /\ SharesRows(q)
  BY DEF LocksHeld
<1>2. Inserted(q)' = Inserted(q)
  BY DEF Inserted
<1>3. HoldsSequences(q)'
  BY <1>1 DEF HoldsSequences
<1>4. HoldsRows(q)'
  <2> SUFFICES ASSUME NEW p \in Products, rowLock'[p] = q
               PROVE  /\ pc'[q] \in {"move", "commit"}
                      /\ p \in LinesBefore(task'[q].lines, position'[q])
                      /\ keyLock'[p] \subseteq {q}
    BY DEF HoldsRows
  <2>1. rowLock[p] = q /\ keyLock'[p] \subseteq keyLock[p]
    OBVIOUS
  <2> QED
    BY <1>1, <2>1 DEF HoldsRows
<1>5. SharesRows(q)'
  BY <1>1, <1>2 DEF SharesRows
<1> QED
  BY <1>3, <1>4, <1>5

\* What the handlers guarantee of the status when they start.
StatusFits(t) ==
  /\ t.operation \in {"approve", "cancel"} => documents[t.target].status = "pending"
  /\ t.operation = "void" => documents[t.target].status = "approved"

\* A handler starts with nothing moved, on a document nobody works on.
LEMMA StartWork ==
  ASSUME WorkInv, NEW r \in Requests, NEW t \in Task, NEW step \in Steps,
         Start(r, t, step), TaskFits(r, t, step), StatusFits(t),
         step \in {"reverse", "move"} => MovesStock(t),
         step = "commit" => ~MovesStock(t)
  PROVE  (Moved /\ LocksHeld /\ StillAsRead)'
<1> USE DEF WorkInv, IInv, TypeOK, Start, committed, locks
<1>1. /\ pc[r] = "idle" /\ ~Active(r) /\ position[r] = 1 /\ change[r] = NoChange
      /\ pc'[r] = step /\ task'[r] = t
      /\ \A q \in Requests \ {r} : pc'[q] = pc[q] /\ task'[q] = task[q]
  BY DEF HandlerState, StateOf, Active, Steps
<1>2. \A q \in Requests \ {r} : Active(q)' <=> Active(q)
  BY <1>1 DEF Active
<1>3. Moved'
  <2> SUFFICES ASSUME NEW q \in Requests, Active(q)'
               PROVE  /\ \A p \in Products :
                           change[q][p] = IF /\ pc'[q] # "lines"
                               /\ p \in LinesBefore(task'[q].lines, position[q])
                                          THEN Signed(task'[q], p) ELSE 0
                      /\ pc'[q] \in {"reverse", "move"} => MovesStock(task'[q])
                      /\ pc'[q] = "commit" =>
                           position[q] = IF MovesStock(task'[q])
                                         THEN Len(task'[q].lines) + 1 ELSE 1
    BY DEF Moved
  <2>1. CASE q = r
    <3>1. LinesBefore(t.lines, 1) = {}
      BY DEF LinesBefore
    <3> QED
      BY <1>1, <2>1, <3>1, NoChangeFact
  <2>2. CASE q # r
    BY <1>1, <1>2, <2>2 DEF Moved
  <2> QED
    BY <2>1, <2>2
<1>4. LocksHeld'
  <2>1. ASSUME NEW q \in Requests \ {r}
        PROVE  HoldsSequences(q)' /\ HoldsRows(q)' /\ SharesRows(q)'
    BY <1>1, SameLocks
  <2>2. Inserted(r) = {} /\ Inserted(r)' = {}
    BY <1>1 DEF Inserted, TaskFits
  <2>3. HoldsSequences(r)' /\ HoldsRows(r)' /\ SharesRows(r)'
    <3>1. HoldsSequences(r) /\ HoldsRows(r) /\ SharesRows(r)
      BY DEF LocksHeld
    <3>2. UNCHANGED <<sequenceLock, rowLock, keyLock>>
      OBVIOUS
    <3> QED
      BY ONLY <1>1, <2>2, <3>1, <3>2 DEF HoldsSequences, HoldsRows, SharesRows
  <2> QED
    BY <2>1, <2>3 DEF LocksHeld
<1>5. StillAsRead'
  <2> SUFFICES ASSUME ~SameDocument, NEW q \in Requests, Active(q)'
               PROVE  /\ \A s \in Requests \ {q} :
                           Active(s)' => task'[s].target # task'[q].target
                      /\ StatusFits(task'[q])
    BY DEF StillAsRead, StatusFits
  <2>1. \A s \in Requests \ {r} : Active(s) => task[s].target # t.target
    BY DEF Uncontended
  <2> QED
    BY <1>1, <1>2, <2>1 DEF StillAsRead, StatusFits
<1> QED
  BY <1>3, <1>4, <1>5

\* What a step of one handler leaves to the others.
LEMMA OthersWork ==
  ASSUME WorkInv, NEW r \in Requests, NEW q \in Requests, q # r,
         pc'[q] = pc[q], task'[q] = task[q], position'[q] = position[q],
         change'[q] = change[q]
  PROVE  /\ Active(q)' <=> Active(q)
         /\ Active(q) =>
              /\ \A p \in Products :
                   change'[q][p] = IF /\ pc'[q] # "lines"
                                /\ p \in LinesBefore(task'[q].lines, position'[q])
                                   THEN Signed(task'[q], p) ELSE 0
              /\ pc'[q] \in {"reverse", "move"} => MovesStock(task'[q])
              /\ pc'[q] = "commit" =>
                   position'[q] = IF MovesStock(task'[q])
                                  THEN Len(task'[q].lines) + 1 ELSE 1
BY DEF WorkInv, Moved, Active

\* A handler that ends lets go of everything.
LEMMA EndWork ==
  ASSUME WorkInv, NEW r \in Requests, NEW outcome \in {"done", "failed"}, End(r, outcome)
  PROVE  (Moved /\ LocksHeld)'
<1> USE DEF WorkInv, IInv, TypeOK, End, Release
<1>1. /\ ~Active(r)'
      /\ \A q \in Requests \ {r} :
           pc'[q] = pc[q] /\ task'[q] = task[q] /\ position'[q] = position[q]
             /\ change'[q] = change[q]
  BY DEF Active, Steps
<1>2. Moved'
  <2> SUFFICES ASSUME NEW q \in Requests \ {r}, Active(q)
               PROVE  /\ \A p \in Products :
                           change'[q][p] = IF /\ pc'[q] # "lines"
                                /\ p \in LinesBefore(task'[q].lines, position'[q])
                                           THEN Signed(task'[q], p) ELSE 0
                      /\ pc'[q] \in {"reverse", "move"} => MovesStock(task'[q])
                      /\ pc'[q] = "commit" =>
                           position'[q] = IF MovesStock(task'[q])
                                          THEN Len(task'[q].lines) + 1 ELSE 1
    BY <1>1, OthersWork DEF Moved
  <2> QED
    BY <1>1, OthersWork
<1>3. LocksHeld'
  <2>1. Inserted(r)' = {}
    BY <1>1 DEF Inserted, Active, Steps
  <2>2. /\ \A p \in Products : keyLock'[p] = keyLock[p] \ {r}
        /\ \A p \in Products : rowLock'[p] = IF rowLock[p] = r THEN Nil ELSE rowLock[p]
        /\ \A t \in DocTypes :
             sequenceLock'[t] = IF sequenceLock[t] = r THEN Nil ELSE sequenceLock[t]
    OBVIOUS
  <2>3. ASSUME NEW q \in Requests \ {r}
        PROVE  HoldsSequences(q)' /\ HoldsRows(q)' /\ SharesRows(q)'
    <3>1. q # r /\ q # Nil
      OBVIOUS
    <3> QED
      BY <1>1, <2>2, <3>1, SameLocks
  <2>4. HoldsSequences(r)' /\ HoldsRows(r)' /\ SharesRows(r)'
    BY ONLY <2>1, <2>2, r \in Requests, Nil \notin Requests
       DEF HoldsSequences, HoldsRows, SharesRows
  <2> QED
    BY <2>3, <2>4 DEF LocksHeld
<1> QED
  BY <1>2, <1>3

\* A rolled back handler has changed no status.
LEMMA RollbackWork ==
  ASSUME WorkInv, NEW r \in Requests, Rollback(r)
  PROVE  (Moved /\ LocksHeld /\ StillAsRead)'
<1>1. (Moved /\ LocksHeld)'
  BY EndWork DEF Rollback
<1>2. /\ ~Active(r)'
      /\ \A q \in Requests \ {r} : (Active(q)' <=> Active(q)) /\ task'[q] = task[q]
  BY DEF WorkInv, IInv, TypeOK, Rollback, End, Active, Steps
<1>3. StillAsRead'
  BY <1>2 DEF WorkInv, StillAsRead, Rollback, committed
<1> QED
  BY <1>1, <1>3

\* The steps before any stock is moved.
LEMMA TakeNumberWork ==
  ASSUME WorkInv, NEW r \in Requests, pc[r] \in {"number", "insert"},
         sequenceLock[TaskType(r)] = Nil, TakeNumber(r)
  PROVE  (Moved /\ LocksHeld /\ StillAsRead)'
<1> USE DEF WorkInv, IInv, TypeOK, TakeNumber, committed
<1>1. /\ Active(r) /\ task[r].operation = "create" /\ position[r] = 1
      /\ change[r] = NoChange
  BY DEF Active, Steps, HandlerState, StateOf
<1>2. /\ pc'[r] = "lines"
      /\ \A q \in Requests \ {r} : pc'[q] = pc[q]
      /\ \A q \in Requests : Active(q)' <=> Active(q)
  BY <1>1 DEF Active, Steps
<1>3. Moved'
  BY <1>1, <1>2, NoChangeFact DEF Moved
<1>4. LocksHeld'
  <2>1. LinesBefore(task[r].lines, 1) = {}
    BY DEF LinesBefore
  <2>2. /\ UNCHANGED <<rowLock, keyLock, task, position>>
        /\ sequenceLock' = [sequenceLock EXCEPT ![TaskType(r)] = r]
    OBVIOUS
  <2>3. ASSUME NEW q \in Requests \ {r}
        PROVE  HoldsSequences(q)' /\ HoldsRows(q)' /\ SharesRows(q)'
    BY <1>2, <2>2, SameLocks
  <2>4. Inserted(r) = {} /\ Inserted(r)' = {}
    BY ONLY <1>1, <1>2, <2>1, <2>2, pc[r] \in {"number", "insert"} DEF Inserted
  <2>5. HoldsSequences(r)' /\ HoldsRows(r)' /\ SharesRows(r)'
    <3>1. HoldsRows(r) /\ SharesRows(r)
      BY DEF LocksHeld
    <3> QED
      BY ONLY <1>2, <2>2, <2>4, <3>1, pc[r] \in {"number", "insert"}
         DEF HoldsSequences, HoldsRows, SharesRows
  <2> QED
    BY <2>3, <2>5 DEF LocksHeld
<1>5. StillAsRead'
  BY <1>2 DEF StillAsRead
<1> QED
  BY <1>3, <1>4, <1>5

LEMMA ReadingWork ==
  ASSUME WorkInv, NEW r \in Requests, MissSequence(r) \/ ReverseKardex(r)
  PROVE  (Moved /\ LocksHeld /\ StillAsRead)'
<1> USE DEF WorkInv, IInv, TypeOK, MissSequence, ReverseKardex, committed, locks
<1>1. /\ pc[r] \in {"number", "reverse"} /\ pc'[r] \in {"insert", "move"}
      /\ pc'[r] = "move" => pc[r] = "reverse"
      /\ \A q \in Requests \ {r} : pc'[q] = pc[q]
      /\ \A q \in Requests : Active(q)' <=> Active(q)
  BY DEF Active, Steps
<1>2. Moved'
  BY <1>1 DEF Moved
<1>3. LocksHeld'
  <2>1. pc'[r] = "move" => task[r].operation = "void"
    BY <1>1 DEF HandlerState, StateOf
  <2>2. UNCHANGED <<sequenceLock, rowLock, keyLock, task, position>>
    OBVIOUS
  <2>3. ASSUME NEW q \in Requests \ {r}
        PROVE  HoldsSequences(q)' /\ HoldsRows(q)' /\ SharesRows(q)'
    BY <1>1, <2>2, SameLocks
  <2>4. Inserted(r) = {} /\ Inserted(r)' = {}
    BY ONLY <1>1, <2>1, <2>2 DEF Inserted
  <2>5. HoldsSequences(r)' /\ HoldsRows(r)' /\ SharesRows(r)'
    <3>1. HoldsSequences(r) /\ HoldsRows(r) /\ SharesRows(r)
      BY DEF LocksHeld
    <3> QED
      BY ONLY <1>1, <2>2, <2>4, <3>1 DEF HoldsSequences, HoldsRows, SharesRows
  <2> QED
    BY <2>3, <2>5 DEF LocksHeld
<1>4. StillAsRead'
  BY <1>1 DEF StillAsRead
<1> QED
  BY <1>2, <1>3, <1>4

\* A line more is inserted: the row of its product is shared, nobody updates it.
LEMMA InsertLineWork ==
  ASSUME WorkInv, NEW r \in Requests, InsertLine(r)
  PROVE  (Moved /\ LocksHeld /\ StillAsRead)'
<1> DEFINE x == NextLine(r).product
           lines == task[r].lines
           i == position[r]
<1> USE DEF WorkInv, IInv, TypeOK
<1>1. /\ task[r] \in Task /\ x \in Products
      /\ i \in 1 .. Len(lines) /\ Len(lines) \in Nat /\ lines \in LineChoices
      /\ pc[r] = "lines" /\ Active(r)
  BY NextLineFacts DEF InsertLine, Active, Steps, Task
<1>2. task[r].operation = "create" /\ change[r] = NoChange
  BY <1>1 DEF HandlerState, StateOf
<1>3. LinesBefore(lines, i + 1) = LinesBefore(lines, i) \cup {x}
  BY <1>1, LinesBeforeFacts DEF NextLine
<1>4. /\ keyLock' = [keyLock EXCEPT ![x] = keyLock[x] \cup {r}]
      /\ rowLock[x] = Nil
      /\ UNCHANGED <<documents, stock, lastNumber, sequenceLock, rowLock, task, number, change>>
      /\ \A q \in Requests \ {r} : pc'[q] = pc[q] /\ position'[q] = position[q]
  <2>1. CASE i = Len(lines)
    BY <2>1 DEF InsertLine, committed
  <2>2. CASE i # Len(lines)
    BY <2>2 DEF InsertLine, committed
  <2> QED
    BY <2>1, <2>2
<1>5. \/ i # Len(lines) /\ pc'[r] = "lines" /\ position'[r] = i + 1
      \/ /\ i = Len(lines) /\ position'[r] = 1
         /\ pc'[r] = IF MovesStock(task[r]) THEN "move" ELSE "commit"
  BY <1>1, <1>2 DEF InsertLine, AfterLines, MovesStock
<1> HIDE DEF x, lines, i
<1>6. \A q \in Requests : Active(q)' <=> Active(q)
  BY <1>1, <1>4, <1>5 DEF Active, Steps
<1>7. Moved'
  <2> SUFFICES ASSUME NEW q \in Requests, Active(q)
               PROVE  /\ \A p \in Products :
                           change'[q][p] = IF /\ pc'[q] # "lines"
                                              /\ p \in LinesBefore(task'[q].lines, position'[q])
                                           THEN Signed(task'[q], p) ELSE 0
                      /\ pc'[q] \in {"reverse", "move"} => MovesStock(task'[q])
                      /\ pc'[q] = "commit" =>
                           position'[q] = IF MovesStock(task'[q])
                                          THEN Len(task'[q].lines) + 1 ELSE 1
    BY <1>6 DEF Moved
  <2>1. CASE q = r
    <3>1. LinesBefore(task[r].lines, 1) = {} /\ task' = task /\ change' = change
      BY <1>4 DEF LinesBefore
    <3> QED
      BY ONLY <1>2, <1>5, <2>1, <3>1, NoChangeFact
  <2>2. CASE q # r
    BY <1>4, <2>2, OthersWork
  <2> QED
    BY <2>1, <2>2
<1>8. LocksHeld'
  <2>1. Inserted(r) = LinesBefore(lines, i)
    BY <1>1, <1>2 DEF Inserted, lines, i
  <2>2. Inserted(r)' = LinesBefore(lines, i) \cup {x}
    <3>1. LinesBefore(lines, Len(lines) + 1) = ProductsOf(lines)
      BY <1>1, LinesBeforeFacts
    <3> QED
      BY <1>1, <1>2, <1>3, <1>4, <1>5, <1>6, <3>1 DEF Inserted, lines
  <2>3. \A p \in Products : keyLock'[p] = IF p = x THEN keyLock[p] \cup {r} ELSE keyLock[p]
    BY ONLY <1>1, <1>4, TypeOK DEF TypeOK
  <2>4. ASSUME NEW q \in Requests \ {r}
        PROVE  HoldsSequences(q)' /\ HoldsRows(q)' /\ SharesRows(q)'
    <3>1. q # r /\ q # Nil
      OBVIOUS
    <3>2. \A p \in Products : rowLock'[p] = q => rowLock[p] = q /\ keyLock'[p] \subseteq keyLock[p]
      BY ONLY <1>4, <2>3, <3>1
    <3>3. \A p \in Products : q \in keyLock'[p] <=> q \in keyLock[p]
      BY ONLY <2>3, <3>1
    <3>4. /\ pc'[q] = pc[q] /\ task'[q] = task[q] /\ position'[q] = position[q]
          /\ \A t \in DocTypes : sequenceLock'[t] = q => sequenceLock[t] = q
      BY ONLY <1>4, <2>4
    <3> QED
      BY <3>2, <3>3, <3>4, SameLocks
  <2>5. HoldsSequences(r)' /\ HoldsRows(r)' /\ SharesRows(r)'
    <3>1. HoldsSequences(r) /\ HoldsRows(r) /\ SharesRows(r)
      BY DEF LocksHeld
    <3>2. HoldsSequences(r)' /\ HoldsRows(r)'
      BY ONLY <1>1, <1>4, <1>5, <3>1 DEF HoldsSequences, HoldsRows
    <3>3. SharesRows(r)'
      BY ONLY <2>1, <2>2, <2>3, <3>1 DEF SharesRows
    <3> QED
      BY <3>2, <3>3
  <2> QED
    BY <2>4, <2>5 DEF LocksHeld
<1>9. StillAsRead'
  BY <1>4, <1>6 DEF StillAsRead
<1> QED
  BY <1>7, <1>8, <1>9

\* A line more is moved: its product had not been touched before.
LEMMA MoveLineWork ==
  ASSUME WorkInv, NEW r \in Requests, MoveLine(r)
  PROVE  (Moved /\ LocksHeld /\ StillAsRead)'
<1> DEFINE x == NextLine(r).product
           delta == LineDelta(task[r], NextLine(r))
           lines == task[r].lines
           i == position[r]
<1>1. /\ task[r] \in Task /\ x \in Products /\ delta \in Int
      /\ i \in 1 .. Len(lines) /\ Len(lines) \in Nat
  BY NextLineFacts DEF MoveLine, WorkInv
<1>2. Active(r) /\ lines \in LineChoices
  BY <1>1 DEF MoveLine, Active, Steps, Task
<1> USE DEF WorkInv, IInv, TypeOK
<1>3. /\ x = lines[i].product /\ x \notin LinesBefore(lines, i)
      /\ LinesBefore(lines, i + 1) = LinesBefore(lines, i) \cup {x}
      /\ QuantityOf(lines, x) = NextLine(r).quantity
  BY <1>1, <1>2, LinesBeforeFacts, QuantityOfLine DEF NextLine
<1>4. delta = Signed(task[r], x)
  BY <1>3 DEF LineDelta, Signed
<1>5. change[r][x] = 0
  BY <1>1, <1>2, <1>3 DEF Moved
<1>6. change[r] \in [Products -> Int]
  OBVIOUS
<1> HIDE DEF x, delta, lines, i
<1>7. /\ change' = [change EXCEPT ![r] = [change[r] EXCEPT ![x] = change[r][x] + delta]]
      /\ rowLock' = [rowLock EXCEPT ![x] = r]
      /\ rowLock[x] \in {r, Nil} /\ keyLock[x] \subseteq {r}
      /\ position' = [position EXCEPT ![r] = i + 1]
      /\ pc' = [pc EXCEPT ![r] = IF i = Len(lines) THEN "commit" ELSE "move"]
      /\ UNCHANGED <<documents, stock, lastNumber, sequenceLock, keyLock, task, number>>
      /\ pc[r] = "move"
  BY DEF MoveLine, RowAvailable, committed, x, delta, lines, i
<1>8. /\ \A p \in Products : change'[r][p] = IF p = x THEN delta ELSE change[r][p]
      /\ \A q \in Requests \ {r} : change'[q] = change[q]
  <2>1. change'[r] = [change[r] EXCEPT ![x] = change[r][x] + delta]
    BY ONLY <1>7, r \in Requests, TypeOK DEF TypeOK
  <2>2. \A q \in Requests \ {r} : change'[q] = change[q]
    BY ONLY <1>7, r \in Requests, TypeOK DEF TypeOK
  <2>3. change[r][x] + delta = delta
    BY <1>1, <1>5
  <2> QED
    BY ONLY <1>1, <1>6, <2>1, <2>2, <2>3
<1>9. /\ position'[r] = i + 1
      /\ pc'[r] = IF i = Len(lines) THEN "commit" ELSE "move"
      /\ \A q \in Requests \ {r} : pc'[q] = pc[q] /\ position'[q] = position[q]
      /\ \A q \in Requests : task'[q] = task[q]
      /\ \A q \in Requests : Active(q)' <=> Active(q)
  BY <1>7 DEF Active, Steps
<1>10. Moved'
  <2> SUFFICES ASSUME NEW q \in Requests, Active(q)
               PROVE  /\ \A p \in Products :
                           change'[q][p] = IF /\ pc'[q] # "lines"
                                /\ p \in LinesBefore(task'[q].lines, position'[q])
                                           THEN Signed(task'[q], p) ELSE 0
                      /\ pc'[q] \in {"reverse", "move"} => MovesStock(task'[q])
                      /\ pc'[q] = "commit" =>
                           position'[q] = IF MovesStock(task'[q])
                                          THEN Len(task'[q].lines) + 1 ELSE 1
    BY <1>9 DEF Moved
  <2>1. CASE q = r
    <3>1. MovesStock(task[r])
      BY <1>2, <1>7 DEF Moved
    <3>2. ASSUME NEW p \in Products
          PROVE  change'[r][p] = IF p \in LinesBefore(lines, i + 1)
                                 THEN Signed(task[r], p) ELSE 0
      <4>1. change[r][p] = IF p \in LinesBefore(lines, i) THEN Signed(task[r], p) ELSE 0
        BY <1>2, <1>7 DEF Moved, lines, i
      <4> QED
        BY <1>3, <1>4, <1>8, <4>1
    <3>3. task'[q].lines = lines /\ position'[q] = i + 1
      BY <1>9, <2>1 DEF lines
    <3> QED
      BY <1>9, <2>1, <3>1, <3>2, <3>3
  <2>2. CASE q # r
    BY <1>8, <1>9, <2>2, OthersWork
  <2> QED
    BY <2>1, <2>2
<1>11. LocksHeld'
  <2>1. \A p \in Products : rowLock'[p] = IF p = x THEN r ELSE rowLock[p]
    BY ONLY <1>1, <1>7, TypeOK DEF TypeOK
  <2>2. ASSUME NEW q \in Requests \ {r}
        PROVE  HoldsSequences(q)' /\ HoldsRows(q)' /\ SharesRows(q)'
    <3>1. /\ pc'[q] = pc[q] /\ task'[q] = task[q] /\ position'[q] = position[q]
          /\ sequenceLock' = sequenceLock /\ keyLock' = keyLock
          /\ \A p \in Products : rowLock'[p] = q => rowLock[p] = q
      BY ONLY <1>7, <1>9, <2>1, <2>2
    <3> QED
      BY <3>1, SameLocks
  <2>3. Inserted(r)' = Inserted(r)
    BY ONLY <1>7, <1>9 DEF Inserted
  <2>4. HoldsSequences(r)' /\ HoldsRows(r)' /\ SharesRows(r)'
    <3>1. HoldsSequences(r) /\ HoldsRows(r) /\ SharesRows(r)
      BY DEF LocksHeld
    <3>2. HoldsSequences(r)'
      BY ONLY <1>7, <1>9, <3>1 DEF HoldsSequences
    <3>3. SharesRows(r)'
      BY ONLY <1>7, <2>3, <3>1 DEF SharesRows
    <3>4. HoldsRows(r)'
      <4> SUFFICES ASSUME NEW p \in Products, rowLock'[p] = r
                   PROVE  /\ pc'[r] \in {"move", "commit"}
                          /\ p \in LinesBefore(task'[r].lines, position'[r])
                          /\ keyLock'[p] \subseteq {r}
        BY DEF HoldsRows
      <4>1. p = x \/ (p \in LinesBefore(lines, i) /\ keyLock[p] \subseteq {r})
        BY <2>1, <3>1 DEF HoldsRows, lines, i
      <4>2. task'[r].lines = lines /\ position'[r] = i + 1 /\ keyLock' = keyLock
        BY <1>7, <1>9 DEF lines
      <4> QED
        BY ONLY <1>3, <1>7, <1>9, <4>1, <4>2
    <3> QED
      BY <3>2, <3>3, <3>4
  <2> QED
    BY <2>2, <2>4 DEF LocksHeld
<1>12. StillAsRead'
  BY <1>7, <1>9 DEF StillAsRead
<1> QED
  BY <1>10, <1>11, <1>12

\* A commit changes the status of its own document only.
LEMMA CommitStatus ==
  ASSUME IInv, NEW r \in Requests, Commit(r)
  PROVE  /\ task[r].target \in Requests
         /\ \A d \in Requests \ {task[r].target} : documents'[d] = documents[d]
<1>1. Active(r) /\ task[r].target \in Requests
  BY ActiveTask DEF IInv, Commit, Active, Steps
<1>2. task[r].operation = "create" => task[r].target = r
  BY <1>1 DEF IInv, HandlerTarget
<1> QED
  BY <1>1, <1>2 DEF Commit, IInv, TypeOK

LEMMA CommitWork ==
  ASSUME WorkInv, NEW r \in Requests, Commit(r)
  PROVE  (Moved /\ LocksHeld /\ StillAsRead)'
<1>1. (Moved /\ LocksHeld)'
  BY EndWork DEF Commit
<1>2. /\ ~Active(r)' /\ Active(r)
      /\ \A q \in Requests \ {r} : (Active(q)' <=> Active(q)) /\ task'[q] = task[q]
  BY DEF WorkInv, IInv, TypeOK, Commit, End, Active, Steps
<1>3. StillAsRead'
  <2> SUFFICES ASSUME ~SameDocument, NEW q \in Requests \ {r}, Active(q)
               PROVE  /\ \A s \in Requests \ {q} :
                           Active(s)' => task'[s].target # task'[q].target
                      /\ task'[q].operation \in {"approve", "cancel"} =>
                           documents'[task'[q].target].status = "pending"
                      /\ task'[q].operation = "void" =>
                           documents'[task'[q].target].status = "approved"
    BY <1>2 DEF StillAsRead
  <2>1. task[q].target # task[r].target /\ task[q].target \in Requests
    BY <1>2, ActiveTask DEF WorkInv, IInv, StillAsRead
  <2>2. documents'[task[q].target] = documents[task[q].target]
    BY <2>1, CommitStatus DEF WorkInv
  <2> QED
    BY <1>2, <2>2 DEF WorkInv, StillAsRead
<1> QED
  BY <1>1, <1>3

LEMMA BeginWork ==
  ASSUME WorkInv, NEW r \in Requests, Begin(r)
  PROVE  (Moved /\ LocksHeld /\ StillAsRead)'
<1>0. IInv
  BY DEF WorkInv
<1>1. ASSUME NEW kind \in Kinds, NEW lines \in LineChoices, NEW n \in SaleNumbers \cup {Nil},
             Start(r, Creation(r, kind, lines, n), "number")
      PROVE  (Moved /\ LocksHeld /\ StillAsRead)'
  <2>1. StatusFits(Creation(r, kind, lines, n))
    BY DEF StatusFits, Creation
  <2> QED
    BY <1>1, <2>1, CreationFits, StartWork DEF Steps
<1>2. ASSUME NEW d \in Requests, ApproveDocument(r, d)
      PROVE  (Moved /\ LocksHeld /\ StillAsRead)'
  <2>1. StatusFits(Handling("approve", d)) /\ MovesStock(Handling("approve", d))
    BY <1>2 DEF ApproveDocument, StatusFits, Handling, MovesStock
  <2> QED
    BY <1>0, <1>2, <2>1, HandlingFits, StartWork DEF ApproveDocument, Steps
<1>3. ASSUME NEW d \in Requests, CancelDocument(r, d)
      PROVE  (Moved /\ LocksHeld /\ StillAsRead)'
  <2>1. StatusFits(Handling("cancel", d)) /\ ~MovesStock(Handling("cancel", d))
    BY <1>3 DEF CancelDocument, StatusFits, Handling, MovesStock
  <2> QED
    BY <1>0, <1>3, <2>1, HandlingFits, StartWork DEF CancelDocument, Steps
<1>4. ASSUME NEW d \in Requests, VoidDocument(r, d)
      PROVE  (Moved /\ LocksHeld /\ StillAsRead)'
  <2>1. StatusFits(Handling("void", d)) /\ MovesStock(Handling("void", d))
    BY <1>4 DEF VoidDocument, StatusFits, Handling, MovesStock
  <2> QED
    BY <1>0, <1>4, <2>1, HandlingFits, StartWork DEF VoidDocument, Steps
<1> QED
  BY <1>1, <1>2, <1>3, <1>4
     DEF Begin, CreateIngreso, CreateEgreso, CreateBaja, CreateAjuste, Kinds

\* WorkInv is inductive, too.
LEMMA NextWork == WorkInv /\ [Next]_vars => WorkInv'
<1> SUFFICES ASSUME WorkInv, [Next]_vars PROVE WorkInv'
  OBVIOUS
<1>1. IInv'
  BY NextInv DEF WorkInv
<1> SUFFICES (Moved /\ LocksHeld /\ StillAsRead)'
  BY <1>1 DEF WorkInv
<1>2. CASE UNCHANGED vars
  BY <1>2 DEF vars, committed, locks, private, WorkInv, Moved, LocksHeld,
              HoldsSequences, HoldsRows, SharesRows, Inserted,
              StillAsRead, Active
<1>3. ASSUME NEW r \in Requests, LockSequence(r) \/ InsertSequence(r)
      PROVE  (Moved /\ LocksHeld /\ StillAsRead)'
  BY <1>3, TakeNumberWork DEF LockSequence, InsertSequence
<1>4. ASSUME NEW r \in Requests,
             DuplicateSequence(r) \/ RefuseLine(r) \/ DeadlockVictim(r) \/ Abort(r)
      PROVE  (Moved /\ LocksHeld /\ StillAsRead)'
  BY <1>4, RollbackWork DEF DuplicateSequence, RefuseLine, DeadlockVictim, Abort
<1> QED
  BY <1>2, <1>3, <1>4, BeginWork, ReadingWork, InsertLineWork, MoveLineWork, CommitWork
     DEF Next, Step

\* The invariant of the refinement and of OnlyCreatorsDeadlock.
THEOREM WorkInvariance == Spec => []WorkInv
BY InitWork, NextWork, PTL DEF Spec

-----------------------------------------------------------------------------
(* The refinement: a commit is a step of the Ledger, nothing else is.      *)

\* What a committing handler has moved is the whole effect of its document.
LEMMA CommitMoves ==
  ASSUME WorkInv, NEW r \in Requests, Commit(r)
  PROVE  /\ task[r] \in Task
         /\ \A p \in Products : stock[p] + change[r][p] >= 0
         /\ stock' = [p \in Products |-> stock[p] + change[r][p]]
         /\ MovesStock(task[r]) => \A p \in Products : change[r][p] = Signed(task[r], p)
         /\ ~MovesStock(task[r]) => stock' = stock
<1> USE DEF WorkInv, IInv, TypeOK
<1>1. Active(r) /\ pc[r] = "commit"
  BY DEF Commit, Active, Steps
<1>2. task[r] \in Task /\ task[r].lines \in LineChoices
  BY <1>1, ActiveTask
<1>3. /\ \A p \in Products : stock[p] + change[r][p] >= 0
      /\ stock' = [p \in Products |-> stock[p] + change[r][p]]
  BY DEF RowOwner, Commit
<1>4. \A p \in Products :
        change[r][p] = IF p \in LinesBefore(task[r].lines, position[r])
                       THEN Signed(task[r], p) ELSE 0
  BY <1>1 DEF Moved
<1>5. CASE MovesStock(task[r])
  <2>1. position[r] = Len(task[r].lines) + 1
    BY <1>1, <1>5 DEF Moved
  <2>2. LinesBefore(task[r].lines, position[r]) = ProductsOf(task[r].lines)
    BY <1>2, <2>1, LinesBeforeFacts
  <2>3. \A p \in Products : p \notin ProductsOf(task[r].lines) => Signed(task[r], p) = 0
    BY <1>2, QuantityOfLine DEF Signed
  <2> QED
    BY <1>2, <1>3, <1>4, <1>5, <2>2, <2>3
<1>6. CASE ~MovesStock(task[r])
  <2>1. position[r] = 1
    BY <1>1, <1>6 DEF Moved
  <2>2. \A p \in Products : change[r][p] = 0
    BY <1>2, <1>4, <2>1, LinesBeforeFacts
  <2>3. ASSUME NEW p \in Products PROVE stock[p] + change[r][p] = stock[p]
    <3>1. stock[p] \in Nat /\ change[r][p] = 0
      BY <2>2
    <3> QED
      BY ONLY <3>1
  <2>4. stock' = stock
    BY <1>3, <2>3
  <2> QED
    BY <1>2, <1>3, <1>6, <2>4
<1> QED
  BY <1>5, <1>6

\* The Ledger and its implementation speak of the same documents.
LEMMA SameVocabulary ==
  /\ LedgerOfDocuments!Kinds = Kinds
  /\ LedgerOfDocuments!DistinctLines = DistinctLines
  /\ \A kind : LedgerOfDocuments!InitialStatus(kind) = InitialStatus(kind)
  /\ \A kind : LedgerOfDocuments!DocType(kind) = DocType(kind)
  /\ \A kind, lines : LedgerOfDocuments!Effect(kind, lines) = Effect(kind, lines)
  /\ \A kind, lines : LedgerOfDocuments!VoidEffect(kind, lines) = VoidEffect(kind, lines)
<1> USE DEF LedgerOfDocuments!Kinds, LedgerOfDocuments!Line, LedgerOfDocuments!DistinctLines,
            LedgerOfDocuments!InitialStatus, LedgerOfDocuments!DocType,
            LedgerOfDocuments!ProductsOf, LedgerOfDocuments!QuantityOf,
            LedgerOfDocuments!Effect, LedgerOfDocuments!VoidEffect
<1>1. LedgerOfDocuments!Kinds = Kinds
  BY DEF Kinds
<1>2. LedgerOfDocuments!DistinctLines = DistinctLines
  BY DEF DistinctLines, Line
<1>3. \A kind : LedgerOfDocuments!InitialStatus(kind) = InitialStatus(kind)
  BY DEF InitialStatus
<1>4. \A kind : LedgerOfDocuments!DocType(kind) = DocType(kind)
  BY DEF DocType
<1>5. \A kind, lines : LedgerOfDocuments!Effect(kind, lines) = Effect(kind, lines)
  BY DEF Effect, QuantityOf, ProductsOf
<1>6. \A kind, lines : LedgerOfDocuments!VoidEffect(kind, lines) = VoidEffect(kind, lines)
  BY DEF VoidEffect, Effect, QuantityOf, ProductsOf
<1> QED
  BY <1>1, <1>2, <1>3, <1>4, <1>5, <1>6

\* The Ledger's rule for stock.
LEMMA CommitMovesStock ==
  ASSUME WorkInv, NEW r \in Requests, Commit(r), MovesStock(task[r]),
         NEW effect \in [Products -> Int],
         \A p \in Products : effect[p] = Signed(task[r], p)
  PROVE  LedgerOfDocuments!MoveStock(effect)
<1>1. \A p \in Products : change[r][p] = effect[p]
  BY CommitMoves
<1> QED
  BY <1>1, CommitMoves DEF LedgerOfDocuments!MoveStock

\* The committed tables start as the Ledger does.
LEMMA LedgerInit == Init => LedgerOfDocuments!Init
BY DEF Init, LedgerOfDocuments!Init

\* The commit of a new document posts it.
LEMMA CommitPosts ==
  ASSUME WorkInv, NEW r \in Requests, Commit(r), task[r].operation = "create"
  PROVE  LedgerOfDocuments!Post(r)
<1> DEFINE t == task[r]
           doc == [kind |-> t.kind, lines |-> t.lines, status |-> NewStatus(t),
                   number |-> number[r], saleNumber |-> t.saleNumber]
<1>1. Active(r) /\ pc[r] = "commit"
  BY DEF Commit, Active, Steps
<1>2. t.kind \in Kinds /\ t.lines \in LineChoices
  BY <1>1, ActiveTask DEF WorkInv, IInv
<1>3. documents[r] = Nil /\ documents'[r] # Nil
  BY <1>1, CommittedDocuments DEF WorkInv, IInv, HandlerTarget
<1>4. documents' = [documents EXCEPT ![r] = doc] /\ documents'[r] = doc
  BY DEF Commit, WorkInv, IInv, TypeOK
<1>5. /\ doc.kind = t.kind /\ doc.lines = t.lines /\ doc.number = number[r]
      /\ doc.status = InitialStatus(t.kind)
  BY DEF NewStatus
<1>6. /\ number[r] = lastNumber[DocType(t.kind)] + 1
      /\ lastNumber' = [lastNumber EXCEPT ![DocType(t.kind)] = number[r]]
  BY <1>1 DEF WorkInv, IInv, SequenceOwner, TaskType, Commit
<1> HIDE DEF doc
<1>7. /\ documents[r] = Nil
      /\ documents'[r] # Nil
      /\ documents' = [documents EXCEPT ![r] = documents'[r]]
      /\ documents'[r].kind \in LedgerOfDocuments!Kinds
      /\ documents'[r].lines \in LedgerOfDocuments!DistinctLines
      /\ documents'[r].status = LedgerOfDocuments!InitialStatus(documents'[r].kind)
      /\ documents'[r].number
           = lastNumber[LedgerOfDocuments!DocType(documents'[r].kind)] + 1
      /\ lastNumber' = [lastNumber EXCEPT
           ![LedgerOfDocuments!DocType(documents'[r].kind)] = documents'[r].number]
  <2>1. documents' = [documents EXCEPT ![r] = documents'[r]]
    BY <1>4
  <2>2. /\ documents'[r].kind = t.kind /\ documents'[r].lines = t.lines
        /\ documents'[r].number = number[r]
        /\ documents'[r].status = InitialStatus(t.kind)
    BY <1>4, <1>5
  <2>3. t.lines \in DistinctLines
    BY <1>2
  <2>4. lastNumber' = [lastNumber EXCEPT ![DocType(documents'[r].kind)] = documents'[r].number]
    BY <1>6, <2>2
  <2> QED
    BY ONLY <1>2, <1>3, <1>6, <2>1, <2>2, <2>3, <2>4, SameVocabulary
<1>8. CASE doc.status = "approved"
  <2> DEFINE effect == Effect(t.kind, t.lines)
  <2>1. MovesStock(t)
    BY <1>5, <1>8 DEF MovesStock
  <2>2. effect \in [Products -> Int]
    BY <1>2, QuantityOfLine DEF Effect
  <2>3. \A p \in Products : effect[p] = Signed(t, p)
    BY DEF Effect, Signed, Adds
  <2>4. LedgerOfDocuments!MoveStock(effect)
    <3> HIDE DEF effect
    <3> QED
      BY <2>1, <2>2, <2>3, CommitMovesStock
  <2> QED
    BY <1>4, <1>5, <1>7, <1>8, <2>4, SameVocabulary DEF LedgerOfDocuments!Post
<1>9. CASE doc.status # "approved"
  <2>1. ~MovesStock(t)
    BY <1>5, <1>9 DEF MovesStock
  <2>2. stock' = stock
    BY <2>1, CommitMoves
  <2> QED
    BY <1>4, <1>7, <1>9, <2>2 DEF LedgerOfDocuments!Post
<1> QED
  BY <1>8, <1>9

\* The commit of an approval, a cancellation or a void finds the status that
\* its handler had checked.
LEMMA CommitHandles ==
  ASSUME WorkInv, ~SameDocument, NEW r \in Requests, Commit(r),
         task[r].operation # "create"
  PROVE  LET d == task[r].target IN
           LedgerOfDocuments!Approve(d) \/ LedgerOfDocuments!Cancel(d)
             \/ LedgerOfDocuments!Void(d)
<1> DEFINE t == task[r]
           d == t.target
<1>1. Active(r) /\ pc[r] = "commit"
  BY DEF Commit, Active, Steps
<1>2. /\ t.kind \in Kinds /\ t.lines \in LineChoices /\ d \in Requests
      /\ t.operation \in {"approve", "cancel", "void"}
  BY <1>1, ActiveTask DEF WorkInv, IInv, Task
<1>3. documents[d] # Nil /\ documents[d].kind = t.kind /\ documents[d].lines = t.lines
  BY <1>1 DEF WorkInv, IInv, HandlerTarget
<1>4. /\ t.operation \in {"approve", "cancel"} => documents[d].status = "pending"
      /\ t.operation = "void" => documents[d].status = "approved"
  BY <1>1 DEF WorkInv, StillAsRead
<1>5. documents' = [documents EXCEPT ![d].status = NewStatus(t)] /\ lastNumber' = lastNumber
  BY DEF Commit
<1>6. CASE t.operation = "cancel"
  <2>1. stock' = stock
    BY <1>6, CommitMoves DEF MovesStock
  <2> QED
    BY <1>3, <1>4, <1>5, <1>6, <2>1 DEF LedgerOfDocuments!Cancel, NewStatus
<1>7. CASE t.operation = "approve"
  <2> DEFINE effect == Effect(t.kind, t.lines)
  <2>1. MovesStock(t)
    BY <1>7 DEF MovesStock
  <2>2. effect \in [Products -> Int]
    BY <1>2, QuantityOfLine DEF Effect
  <2>3. \A p \in Products : effect[p] = Signed(t, p)
    BY <1>7 DEF Effect, Signed, Adds
  <2>4. LedgerOfDocuments!MoveStock(effect)
    <3> HIDE DEF effect
    <3> QED
      BY <2>1, <2>2, <2>3, CommitMovesStock
  <2> QED
    BY <1>3, <1>4, <1>5, <1>7, <2>4, SameVocabulary DEF LedgerOfDocuments!Approve, NewStatus
<1>8. CASE t.operation = "void"
  <2> DEFINE effect == VoidEffect(t.kind, t.lines)
  <2>1. MovesStock(t)
    BY <1>8 DEF MovesStock
  <2>2. \A p \in Products : QuantityOf(t.lines, p) \in Nat
    BY <1>2, QuantityOfLine
  <2>3. effect \in [Products -> Int] /\ \A p \in Products : effect[p] = Signed(t, p)
    BY <1>8, <2>2 DEF VoidEffect, Effect, Signed, Adds
  <2>4. LedgerOfDocuments!MoveStock(effect)
    <3> HIDE DEF effect
    <3> QED
      BY <2>1, <2>3, CommitMovesStock
  <2> QED
    BY <1>3, <1>4, <1>5, <1>8, <2>4, SameVocabulary DEF LedgerOfDocuments!Void, NewStatus
<1> QED
  BY <1>2, <1>6, <1>7, <1>8

\* Every step of the handlers is a step of the Ledger or none at all.
LEMMA LedgerNext ==
  ASSUME ~SameDocument, WorkInv, [Next]_vars
  PROVE  [LedgerOfDocuments!Next]_(LedgerOfDocuments!ledger)
<1>1. CASE UNCHANGED vars
  BY <1>1 DEF vars, committed, LedgerOfDocuments!ledger
<1>2. ASSUME NEW r \in Requests, Commit(r)
      PROVE  LedgerOfDocuments!Next
  <2>1. task[r].target \in Requests
    BY <1>2, CommitStatus DEF WorkInv
  <2> QED
    BY <1>2, <2>1, CommitPosts, CommitHandles DEF LedgerOfDocuments!Next
<1>3. ASSUME NEW r \in Requests, Begin(r)
      PROVE  UNCHANGED committed
  BY <1>3 DEF Begin, CreateIngreso, CreateEgreso, CreateBaja, CreateAjuste,
              ApproveDocument, CancelDocument, VoidDocument, Start
<1>4. ASSUME NEW r \in Requests, Step(r), ~Commit(r)
      PROVE  UNCHANGED committed
  BY <1>4 DEF Step, LockSequence, MissSequence, InsertSequence, DuplicateSequence,
              TakeNumber, InsertLine, ReverseKardex, MoveLine, RefuseLine, Rollback
<1>5. ASSUME NEW r \in Requests, DeadlockVictim(r) \/ Abort(r)
      PROVE  UNCHANGED committed
  BY <1>5 DEF DeadlockVictim, Abort, Rollback
<1> QED
  BY <1>1, <1>2, <1>3, <1>4, <1>5 DEF Next, committed, LedgerOfDocuments!ledger

\* The handlers implement the Ledger when no two of them work on one document
\* at a time: no interleaving, refusal, deadlock or crash loses a movement,
\* applies part of one or takes a document along a forbidden edge.
THEOREM ImplementsLedger ==
  ASSUME ~SameDocument
  PROVE  Spec => LedgerSpec
<1>1. WorkInv /\ [Next]_vars => [LedgerOfDocuments!Next]_(LedgerOfDocuments!ledger)
  BY LedgerNext
<1> QED
  BY <1>1, LedgerInit, WorkInvariance, PTL DEF Spec, LedgerSpec, LedgerOfDocuments!Spec

-----------------------------------------------------------------------------
(* Stock is the sum of the approved documents, as it is in the Ledger.     *)

\* Effects are whole numbers.
LEMMA EffectsAreIntegers ==
  ASSUME NEW doc \in Document, NEW p \in Products
  PROVE  /\ Effect(doc.kind, doc.lines)[p] \in Int
         /\ VoidEffect(doc.kind, doc.lines)[p] = -Effect(doc.kind, doc.lines)[p]
<1>1. doc.lines \in LineChoices
  BY DEF Document
<1>2. QuantityOf(doc.lines, p) \in Nat
  BY <1>1, QuantityOfLine
<1> QED
  BY <1>2 DEF Effect, VoidEffect

\* The same documents are approved, with the same effects.
LEMMA SumStays ==
  ASSUME IsFiniteSet(Requests), StockIsSumOfApproved, stock' = stock,
         Approved' = Approved,
         \A d \in Approved : /\ documents'[d].kind = documents[d].kind
                             /\ documents'[d].lines = documents[d].lines
  PROVE  StockIsSumOfApproved'
<1> SUFFICES ASSUME NEW p \in Products
             PROVE  stock[p] = InitialStock[p] + SumFunctionOnSet(EffectsOn(p)', Approved)
  BY DEF StockIsSumOfApproved
<1>1. \A d \in Approved : EffectsOn(p)'[d] = EffectsOn(p)[d]
  BY DEF EffectsOn
<1>2. IsFiniteSet(Approved)
  BY FS_Subset DEF Approved
<1>3. SumFunctionOnSet(EffectsOn(p)', Approved) = SumFunctionOnSet(EffectsOn(p), Approved)
  BY <1>1, <1>2, SumEqual
<1> QED
  BY <1>3 DEF StockIsSumOfApproved

\* One document more is approved, and its effect is added.
LEMMA SumGains ==
  ASSUME IsFiniteSet(Requests), TypeOK, TypeOK', StockIsSumOfApproved,
         NEW d \in Requests, d \notin Approved, Approved' = Approved \cup {d},
         stock' = [p \in Products |->
                     stock[p] + Effect(documents'[d].kind, documents'[d].lines)[p]],
         \A e \in Approved : /\ documents'[e].kind = documents[e].kind
                             /\ documents'[e].lines = documents[e].lines
  PROVE  StockIsSumOfApproved'
<1> SUFFICES ASSUME NEW p \in Products
             PROVE  stock'[p] = InitialStock[p] + SumFunctionOnSet(EffectsOn(p)', Approved')
  BY DEF StockIsSumOfApproved
<1> DEFINE f == EffectsOn(p)
           g == EffectsOn(p)'
           x == Effect(documents'[d].kind, documents'[d].lines)[p]
<1>1. IsFiniteSet(Approved)
  BY FS_Subset DEF Approved
<1>2. (\A e \in Approved : g[e] = f[e]) /\ g[d] = x
  BY DEF EffectsOn
<1>3. \A e \in Approved \cup {d} : g[e] \in Int
  <2>1. \A e \in Approved' : documents'[e] \in Document
    BY DEF TypeOK, Approved
  <2> QED
    BY <2>1, EffectsAreIntegers DEF EffectsOn
<1>4. stock'[p] = stock[p] + x /\ stock[p] \in Int /\ InitialStock[p] \in Int
  BY DEF TypeOK
<1>5. stock[p] = InitialStock[p] + SumFunctionOnSet(f, Approved)
  BY DEF StockIsSumOfApproved
<1> HIDE DEF f, g, x
<1>6. SumFunctionOnSet(g, Approved) = SumFunctionOnSet(f, Approved)
  BY <1>1, <1>2, SumEqual
<1>7. /\ SumFunctionOnSet(g, Approved) \in Int
      /\ SumFunctionOnSet(g, Approved \cup {d}) = SumFunctionOnSet(g, Approved) + g[d]
  BY <1>1, <1>3, SumAdd
<1>8. x \in Int
  BY <1>2, <1>3
<1>9. stock'[p] = InitialStock[p] + SumFunctionOnSet(g, Approved')
  BY <1>2, <1>4, <1>5, <1>6, <1>7, <1>8
<1> QED
  BY <1>9 DEF g

\* One document less is approved, and its effect is taken off.
LEMMA SumLoses ==
  ASSUME IsFiniteSet(Requests), TypeOK, StockIsSumOfApproved,
         NEW d \in Approved, Approved' = Approved \ {d},
         stock' = [p \in Products |->
                     stock[p] + VoidEffect(documents[d].kind, documents[d].lines)[p]],
         \A e \in Approved : /\ documents'[e].kind = documents[e].kind
                             /\ documents'[e].lines = documents[e].lines
  PROVE  StockIsSumOfApproved'
<1> SUFFICES ASSUME NEW p \in Products
             PROVE  stock'[p] = InitialStock[p] + SumFunctionOnSet(EffectsOn(p)', Approved')
  BY DEF StockIsSumOfApproved
<1> DEFINE f == EffectsOn(p)
           g == EffectsOn(p)'
           x == Effect(documents[d].kind, documents[d].lines)[p]
<1>1. IsFiniteSet(Approved) /\ IsFiniteSet(Approved \ {d})
  BY FS_Subset, FS_RemoveElement DEF Approved
<1>2. (\A e \in Approved \ {d} : g[e] = f[e]) /\ f[d] = x
  BY DEF EffectsOn
<1>30. \A e \in Approved : documents[e] \in Document
  BY DEF TypeOK, Approved
<1>3. \A e \in Approved : f[e] \in Int
  BY <1>30, EffectsAreIntegers DEF EffectsOn
<1>4. stock'[p] = stock[p] + (-x) /\ stock[p] \in Int /\ InitialStock[p] \in Int
  BY <1>30, EffectsAreIntegers DEF TypeOK
<1>5. stock[p] = InitialStock[p] + SumFunctionOnSet(f, Approved)
  BY DEF StockIsSumOfApproved
<1> HIDE DEF f, g, x
<1>6. SumFunctionOnSet(g, Approved \ {d}) = SumFunctionOnSet(f, Approved \ {d})
  BY <1>1, <1>2, SumEqual
<1>7. /\ SumFunctionOnSet(f, Approved \ {d}) \in Int
      /\ SumFunctionOnSet(f, Approved) = SumFunctionOnSet(f, Approved \ {d}) + f[d]
  <2> DEFINE T == Approved \ {d}
  <2>1. IsFiniteSet(T) /\ d \notin T /\ T \cup {d} = Approved
    BY <1>1
  <2>2. \A e \in T \cup {d} : f[e] \in Int
    BY <1>3, <2>1
  <2> HIDE DEF T
  <2>3. /\ SumFunctionOnSet(f, T) \in Int
        /\ SumFunctionOnSet(f, T \cup {d}) = SumFunctionOnSet(f, T) + f[d]
    BY ONLY <2>1, <2>2, SumAdd
  <2> QED
    BY <2>1, <2>3 DEF T
<1>8. x \in Int
  BY <1>2, <1>3
<1>9. stock'[p] = InitialStock[p] + SumFunctionOnSet(g, Approved')
  BY <1>2, <1>4, <1>5, <1>6, <1>7, <1>8
<1> QED
  BY <1>9 DEF g

\* Every step of the Ledger keeps the sum.
LEMMA LedgerKeepsSum ==
  ASSUME IsFiniteSet(Requests), TypeOK, TypeOK', StockIsSumOfApproved,
         NEW d \in Requests,
         \/ LedgerOfDocuments!Post(d) \/ LedgerOfDocuments!Approve(d)
         \/ LedgerOfDocuments!Cancel(d) \/ LedgerOfDocuments!Void(d)
  PROVE  StockIsSumOfApproved'
<1>1. \A e \in Requests : documents[e] # Nil => documents[e] \in Document
  BY DEF TypeOK
<1>2. CASE LedgerOfDocuments!Post(d)
  <2> DEFINE doc == documents'[d]
  <2>1. /\ d \notin Approved /\ doc # Nil
        /\ documents' = [documents EXCEPT ![d] = doc]
        /\ doc.status = InitialStatus(doc.kind)
        /\ IF doc.status = "approved"
           THEN LedgerOfDocuments!MoveStock(Effect(doc.kind, doc.lines))
           ELSE UNCHANGED stock
    BY <1>2, SameVocabulary DEF LedgerOfDocuments!Post, Approved
  <2>2. \A e \in Requests \ {d} : documents'[e] = documents[e]
    BY <2>1 DEF TypeOK
  <2>3. CASE doc.status = "approved"
    <3>1. Approved' = Approved \cup {d}
      BY <2>1, <2>2, <2>3 DEF Approved
    <3>2. stock' = [p \in Products |-> stock[p] + Effect(doc.kind, doc.lines)[p]]
      BY <2>1, <2>3 DEF LedgerOfDocuments!MoveStock
    <3>3. \A e \in Approved : documents'[e] = documents[e]
      BY <2>1, <2>2 DEF Approved
    <3> QED
      BY <2>1, <3>1, <3>2, <3>3, SumGains
  <2>4. CASE doc.status # "approved"
    <3>1. Approved' = Approved
      BY <2>1, <2>2, <2>4 DEF Approved
    <3>2. \A e \in Approved : documents'[e] = documents[e]
      BY <2>1, <2>2 DEF Approved
    <3> QED
      BY <2>1, <2>4, <3>1, <3>2, SumStays
  <2> QED
    BY <2>3, <2>4
<1>3. ASSUME NEW s \in Statuses, documents[d] # Nil, documents' = [documents EXCEPT ![d].status = s]
      PROVE  /\ documents'[d].status = s /\ documents'[d] # Nil
             /\ \A e \in Requests \ {d} : documents'[e] = documents[e]
             /\ \A e \in Requests : documents[e] # Nil =>
                  /\ documents'[e].kind = documents[e].kind
                  /\ documents'[e].lines = documents[e].lines
  <2> DEFINE new == [documents[d] EXCEPT !.status = s]
  <2>1. /\ new.status = s /\ new.kind = documents[d].kind
        /\ new.lines = documents[d].lines
        /\ new \in Document
    BY <1>1, <1>3 DEF Document
  <2>2. documents'[d] = new
    BY <1>3 DEF TypeOK
  <2>3. \A e \in Requests \ {d} : documents'[e] = documents[e]
    BY <1>3 DEF TypeOK
  <2>4. documents'[d] # Nil
    BY <2>1, <2>2
  <2> HIDE DEF new
  <2> QED
    BY <2>1, <2>2, <2>3, <2>4
<1>4. CASE LedgerOfDocuments!Approve(d)
  <2>1. /\ documents[d] # Nil /\ documents[d].status = "pending"
        /\ documents' = [documents EXCEPT ![d].status = "approved"]
        /\ LedgerOfDocuments!MoveStock(Effect(documents[d].kind, documents[d].lines))
    BY <1>4, SameVocabulary DEF LedgerOfDocuments!Approve
  <2>2. d \notin Approved /\ Approved' = Approved \cup {d}
    BY <1>3, <2>1 DEF Approved, Statuses
  <2>3. \A e \in Approved \cup {d} : /\ documents'[e].kind = documents[e].kind
                                     /\ documents'[e].lines = documents[e].lines
    BY <1>3, <2>1 DEF Approved, Statuses
  <2>4. stock' = [p \in Products |->
                    stock[p] + Effect(documents'[d].kind, documents'[d].lines)[p]]
    BY <2>1, <2>3 DEF LedgerOfDocuments!MoveStock
  <2> QED
    BY <2>2, <2>3, <2>4, SumGains
<1>5. CASE LedgerOfDocuments!Cancel(d)
  <2>1. /\ documents[d] # Nil /\ documents[d].status = "pending"
        /\ documents' = [documents EXCEPT ![d].status = "cancelled"]
        /\ stock' = stock
    BY <1>5 DEF LedgerOfDocuments!Cancel
  <2>2. Approved' = Approved
    BY <1>3, <2>1 DEF Approved, Statuses
  <2>3. \A e \in Approved : /\ documents'[e].kind = documents[e].kind
                            /\ documents'[e].lines = documents[e].lines
    BY <1>3, <2>1 DEF Approved, Statuses
  <2> QED
    BY <2>1, <2>2, <2>3, SumStays
<1>6. CASE LedgerOfDocuments!Void(d)
  <2>1. /\ documents[d] # Nil /\ documents[d].status = "approved"
        /\ documents' = [documents EXCEPT ![d].status = "voided"]
        /\ LedgerOfDocuments!MoveStock(VoidEffect(documents[d].kind, documents[d].lines))
    BY <1>6, SameVocabulary DEF LedgerOfDocuments!Void
  <2>2. d \in Approved /\ Approved' = Approved \ {d}
    BY <1>3, <2>1 DEF Approved, Statuses
  <2>3. \A e \in Approved : /\ documents'[e].kind = documents[e].kind
                            /\ documents'[e].lines = documents[e].lines
    BY <1>3, <2>1 DEF Approved, Statuses
  <2>4. stock' = [p \in Products |->
                    stock[p] + VoidEffect(documents[d].kind, documents[d].lines)[p]]
    BY <2>1 DEF LedgerOfDocuments!MoveStock
  <2> QED
    BY <2>2, <2>3, <2>4, SumLoses
<1> QED
  BY <1>2, <1>4, <1>5, <1>6

LEMMA InitSum == Init => StockIsSumOfApproved
<1> SUFFICES ASSUME Init, NEW p \in Products
             PROVE  stock[p] = InitialStock[p] + SumFunctionOnSet(EffectsOn(p), Approved)
  BY DEF StockIsSumOfApproved
<1>1. Approved = {}
  BY DEF Init, Approved
<1>2. SumFunctionOnSet(EffectsOn(p), Approved) = 0
  BY <1>1, SumEmpty
<1>3. stock[p] = InitialStock[p] /\ stock[p] \in Nat
  BY DEF Init
<1> QED
  BY <1>2, <1>3

\* Stock is what the approved documents add up to, when no two requests work
\* on one document at a time (two voids of one document break it otherwise).
THEOREM StockAddsUp ==
  ASSUME IsFiniteSet(Requests), ~SameDocument
  PROVE  Spec => []StockIsSumOfApproved
<1>1. ASSUME WorkInv, WorkInv', StockIsSumOfApproved, [Next]_vars
      PROVE  StockIsSumOfApproved'
  <2>0. TypeOK /\ TypeOK'
    BY <1>1 DEF WorkInv, IInv
  <2>1. [LedgerOfDocuments!Next]_(LedgerOfDocuments!ledger)
    BY <1>1, LedgerNext
  <2>2. CASE UNCHANGED LedgerOfDocuments!ledger
    <3>1. Approved' = Approved /\ stock' = stock /\ documents' = documents
      BY <2>2 DEF Approved, LedgerOfDocuments!ledger
    <3> QED
      BY <1>1, <3>1, SumStays
  <2>3. CASE LedgerOfDocuments!Next
    BY <1>1, <2>0, <2>3, LedgerKeepsSum DEF LedgerOfDocuments!Next
  <2> QED
    BY <2>1, <2>2, <2>3
<1>2. WorkInv /\ WorkInv' /\ StockIsSumOfApproved /\ [Next]_vars => StockIsSumOfApproved'
  BY <1>1
<1> QED
  BY <1>2, InitSum, WorkInvariance, PTL DEF Spec

-----------------------------------------------------------------------------
(* Deadlocks, when the lists of lines agree on an order.                   *)

\* The product of the line a handler inserts or moves next.
LEMMA AtLine ==
  ASSUME WorkInv, NEW q \in Requests, pc[q] \in {"lines", "move"}
  PROVE  /\ Active(q) /\ TaskType(q) \in DocTypes
         /\ task[q].lines \in LineChoices /\ NextLine(q).product \in Products
         /\ position[q] \in DOMAIN task[q].lines
         /\ \A p \in LinesBefore(task[q].lines, position[q]) :
              \E i \in DOMAIN task[q].lines : i < position[q] /\ p = task[q].lines[i].product
<1>1. /\ task[q] \in Task /\ NextLine(q).product \in Products
      /\ position[q] \in 1 .. Len(task[q].lines) /\ Len(task[q].lines) \in Nat
  BY NextLineFacts DEF WorkInv
<1>2. Active(q) /\ task[q].lines \in LineChoices /\ TaskType(q) \in DocTypes
  BY ActiveTask DEF WorkInv, IInv, Active, Steps
<1>3. DOMAIN task[q].lines = 1 .. Len(task[q].lines)
  BY <1>2, LineFacts
<1>4. ASSUME NEW p \in LinesBefore(task[q].lines, position[q])
      PROVE  \E i \in DOMAIN task[q].lines : i < position[q] /\ p = task[q].lines[i].product
  <2>1. PICK i \in 1 .. (position[q] - 1) : p = task[q].lines[i].product
    BY DEF LinesBefore
  <2>2. i \in DOMAIN task[q].lines /\ i < position[q]
    BY <1>1, <1>3
  <2> QED
    BY <2>1, <2>2
<1> QED
  BY <1>1, <1>2, <1>3, <1>4

\* A creator that moves stock waits only for creators of other types: the
\* product of its next line is one it has shared, so nobody updates the row.
LEMMA CreatorWaits ==
  ASSUME WorkInv, NEW c \in Requests, NEW d \in Requests, pc[c] = "move",
         task[c].operation = "create", WaitsFor(c, d)
  PROVE  /\ task[d].operation = "create" /\ TaskType(c) # TaskType(d)
         /\ d \in keyLock[NextLine(c).product]
<1> DEFINE p == NextLine(c).product
<1>1. p \in Products /\ p \in ProductsOf(task[c].lines) /\ Active(c)
  BY AtLine DEF NextLine, ProductsOf
<1>2. c \in keyLock[p]
  BY <1>1 DEF WorkInv, LocksHeld, HoldsSequences, HoldsRows, SharesRows, Inserted
<1>3. d # c /\ rowLock[p] # d
  BY <1>1, <1>2 DEF WaitsFor, WorkInv, LocksHeld, HoldsRows
<1>4. d \in keyLock[p]
  BY <1>3 DEF WaitsFor
<1>5. p \in Inserted(d)
  BY <1>1, <1>4 DEF WorkInv, LocksHeld, HoldsSequences, HoldsRows, SharesRows
<1>6. task[d].operation = "create" /\ pc[d] \in {"lines", "move", "commit"}
  <2> HIDE DEF p
  <2>1. Inserted(d) # {}
    BY <1>5
  <2> QED
    BY ONLY <2>1 DEF Inserted
<1>7. sequenceLock[TaskType(c)] = c /\ sequenceLock[TaskType(d)] = d
  BY <1>6 DEF WorkInv, IInv, SequenceOwner
<1> QED
  BY <1>3, <1>4, <1>6, <1>7

\* Otherwise what a request waits for ranks above what the holder moves or
\* inserts before it.
LEMMA HeldBefore ==
  ASSUME WorkInv, NEW w \in Requests, NEW h \in Requests, WaitsFor(w, h),
         pc[w] \in {"lines", "move"}, pc[h] \in {"lines", "move"},
         pc[h] = "move" => task[h].operation # "create"
  PROVE  NextLine(w).product \in LinesBefore(task[h].lines, position[h])
<1>1. NextLine(w).product \in Products
  BY AtLine
<1>2. CASE rowLock[NextLine(w).product] = h
  BY <1>1, <1>2 DEF WorkInv, LocksHeld, HoldsSequences, HoldsRows, SharesRows
<1>3. CASE h \in keyLock[NextLine(w).product]
  <2>1. NextLine(w).product \in Inserted(h)
    BY <1>1, <1>3 DEF WorkInv, LocksHeld, HoldsSequences, HoldsRows, SharesRows
  <2> QED
    BY <2>1 DEF Inserted
<1> QED
  BY <1>2, <1>3 DEF WaitsFor

LEMMA WaitingAscends ==
  ASSUME WorkInv, NEW rank \in [Products -> Nat],
         \A lines \in LineChoices : \A i, j \in DOMAIN lines :
           i < j => rank[lines[i].product] < rank[lines[j].product],
         NEW w \in Requests, NEW h \in Requests, WaitsFor(w, h),
         pc[w] \in {"lines", "move"}, pc[h] \in {"lines", "move"},
         pc[h] = "move" => task[h].operation # "create"
  PROVE  rank[NextLine(w).product] < rank[NextLine(h).product]
<1>1. PICK i \in DOMAIN task[h].lines :
        i < position[h] /\ NextLine(w).product = task[h].lines[i].product
  BY HeldBefore, AtLine
<1>2. task[h].lines \in LineChoices /\ position[h] \in DOMAIN task[h].lines
  BY AtLine
<1> QED
  BY <1>1, <1>2 DEF NextLine

\* In a cycle everybody is waited for, so everybody has its sequence and waits
\* for a row.  Without a creator that moves stock, who waits for the row of the
\* least rank would be waited for by nobody.
LEMMA CyclesNeedCreators ==
  ASSUME WorkInv, LinesInOneOrder
  PROVE  OnlyCreatorsDeadlock
<1> SUFFICES ASSUME NEW S \in SUBSET Requests, S # {}, WaitInCycle(S)
             PROVE  \E c, d \in S :
                      /\ task[c].operation = "create" /\ task[d].operation = "create"
                      /\ TaskType(c) # TaskType(d)
                      /\ pc[c] = "move" /\ d \in keyLock[NextLine(c).product]
  BY DEF OnlyCreatorsDeadlock
<1>1. PICK rank \in [Products -> Nat] :
        \A lines \in LineChoices : \A i, j \in DOMAIN lines :
          i < j => rank[lines[i].product] < rank[lines[j].product]
  BY DEF LinesInOneOrder
<1>2. \A q \in S : pc[q] \in {"lines", "move"}
  <2> SUFFICES ASSUME NEW q \in S PROVE pc[q] \in {"lines", "move"}
    OBVIOUS
  <2>1. PICK w \in S : WaitsFor(w, q)
    BY DEF WaitInCycle
  <2>5. pc[q] \in {"number", "insert", "lines", "move"}
    BY DEF WaitInCycle, WaitsFor
  <2>2. CASE pc[w] \in {"number", "insert"}
    <3>1. TaskType(w) \in DocTypes
      BY <2>2, ActiveTask DEF WorkInv, IInv, Active, Steps
    <3>2. sequenceLock[TaskType(w)] = q
      BY <2>1, <2>2 DEF WaitsFor
    <3> QED
      BY <3>1, <3>2, <2>5 DEF WorkInv, LocksHeld, HoldsSequences, HoldsRows, SharesRows
  <2>3. CASE pc[w] \in {"lines", "move"}
    <3>1. NextLine(w).product \in Products
      BY <2>3, AtLine
    <3>2. CASE rowLock[NextLine(w).product] = q
      BY <3>1, <3>2, <2>5 DEF WorkInv, LocksHeld, HoldsSequences, HoldsRows, SharesRows
    <3>3. CASE q \in keyLock[NextLine(w).product]
      <4>1. NextLine(w).product \in Inserted(q)
        BY <3>1, <3>3 DEF WorkInv, LocksHeld, HoldsSequences, HoldsRows, SharesRows
      <4> QED
        BY <4>1, <2>5 DEF Inserted
    <3> QED
      BY <2>1, <2>3, <3>2, <3>3 DEF WaitsFor
  <2> QED
    BY <2>1, <2>2, <2>3 DEF WaitsFor
<1>3. CASE \E c \in S : pc[c] = "move" /\ task[c].operation = "create"
  <2>1. PICK c \in S : pc[c] = "move" /\ task[c].operation = "create"
    BY <1>3
  <2>2. PICK d \in S : WaitsFor(c, d)
    BY DEF WaitInCycle
  <2>3. /\ task[d].operation = "create" /\ TaskType(c) # TaskType(d)
        /\ d \in keyLock[NextLine(c).product]
    BY <2>1, <2>2, CreatorWaits
  <2> QED
    BY <2>1, <2>3
<1>4. CASE \A c \in S : pc[c] = "move" => task[c].operation # "create"
  <2> DEFINE Ranks == {rank[NextLine(q).product] : q \in S}
  <2>1. Ranks \subseteq Nat /\ Ranks # {}
    <3>1. \A q \in S : rank[NextLine(q).product] \in Nat
      BY <1>2, AtLine
    <3> QED
      BY ONLY <3>1, S # {}
  <2>2. PICK m \in Ranks : \A n \in Ranks : ~(n < m)
    <3> HIDE DEF Ranks
    <3> QED
      BY <2>1, LeastNumber
  <2>3. PICK q \in S : m = rank[NextLine(q).product]
    OBVIOUS
  <2>4. PICK w \in S : WaitsFor(w, q)
    BY DEF WaitInCycle
  <2>5. rank[NextLine(w).product] < rank[NextLine(q).product]
    BY <1>1, <1>2, <1>4, <2>4, WaitingAscends
  <2> QED
    BY <2>2, <2>3, <2>5
<1> QED
  BY <1>3, <1>4

\* When the lists of lines ascend by one ranking of the products, requests wait
\* for each other in a cycle of any length only if two creations of different
\* types share a product: what is left is the foreign key's FOR KEY SHARE, taken
\* by every line before FOR UPDATE.
THEOREM DeadlocksNeedCreators ==
  ASSUME LinesInOneOrder
  PROVE  Spec => []OnlyCreatorsDeadlock
<1>1. WorkInv => OnlyCreatorsDeadlock
  BY CyclesNeedCreators
<1> QED
  BY <1>1, WorkInvariance, PTL

-----------------------------------------------------------------------------
(* The Kardex and the stock are two records of the same movements, for any *)
(* products, requests and quantities and however the requests overlap, as  *)
(* long as no two requests work on one document and there are no           *)
(* increments (these are recorded as exits).                               *)
(*                                                                         *)
(* The movements follow from what each commit records (Recorded); a void   *)
(* undoes what it read before its locks, which nobody else touches, as it  *)
(* is of its own document (ReadStands).  The balance it read stands if     *)
(* every entry there is was written before the request started; a commit   *)
(* that comes after that read ends the hypothesis InOrder.                 *)

EntryRow == [document : Requests \cup {Nil}, change : Int, balance : Int, at : Nat,
             reversal : BOOLEAN, written : Nat]

KardexShape ==
  /\ kardex \in [Products -> Seq(EntryRow)]
  /\ clock \in Nat /\ begun \in [Requests -> Nat]
  /\ reading \in [Requests -> [Products -> [balance : Int, net : Int]]]
  /\ \A r \in Requests : begun[r] <= clock
  /\ \A p \in Products : \A i \in 1..Len(kardex[p]) : kardex[p][i].at <= clock

Works(r, p) == Active(r) /\ p \in ProductsOf(task[r].lines)

NoIncrements ==
  /\ \A d \in Requests : documents[d] # Nil => documents[d].kind # "increment"
  /\ \A r \in Requests : Active(r) => task[r].kind # "increment"

\* The sum of the changes at some places of a list of entries.
SumAt(k, D) == SumFunctionOnSet([i \in DOMAIN k |-> k[i].change], D)

PlacesOf(k, d) == {i \in DOMAIN k : k[i].document = d}

LastBalance(p) == kardex[p][Len(kardex[p])].balance

\* A document in force has been recorded with its effect, one that is not yet has not.
Recorded ==
  \A p \in Products, d \in Requests :
    LET net == SumAt(kardex[p], PlacesOf(kardex[p], d)) IN
    IF documents[d] = Nil THEN net = 0
    ELSE /\ documents[d].status = "pending" => net = 0
         /\ documents[d].status = "approved" => net = Effect(documents[d].kind, documents[d].lines)[p]

LastWritten(p) == kardex[p][Len(kardex[p])].written

\* What a void has read of its document stands until it commits, and the
\* balance as long as the last entry is one from before it started.
ReadStands ==
  \A r \in Requests, p \in Products :
    (Works(r, p) /\ task[r].operation = "void" /\ pc[r] # "reverse") =>
      /\ reading[r][p].net = Effect(task[r].kind, task[r].lines)[p]
      /\ (InOrder(p) /\ LastWritten(p) < begun[r]) =>
           reading[r][p].balance = LastBalance(p)

AddedUp ==
  \A p \in Products :
    kardex[p] # <<>> /\ SumAt(kardex[p], 1..Len(kardex[p])) = stock[p]

Balanced == \A p \in Products : InOrder(p) => LastBalance(p) = stock[p]

KInv ==
  /\ WorkInv /\ KardexShape /\ NoIncrements
  /\ Recorded /\ ReadStands /\ AddedUp /\ Balanced

-----------------------------------------------------------------------------
(* Lists of entries.                                                       *)

\* A list of entries, its places and its sums.
LEMMA ListIs ==
  ASSUME NEW k \in Seq(EntryRow)
  PROVE  /\ Len(k) \in Nat /\ DOMAIN k = 1..Len(k)
         /\ \A i \in 1..Len(k) : /\ k[i].change \in Int /\ k[i].balance \in Int
                                 /\ k[i].at \in Nat /\ k[i].written \in Nat
                                 /\ k[i].document \in Requests \cup {Nil}
         /\ IsFiniteSet(DOMAIN k)
<1>1. Len(k) \in Nat /\ DOMAIN k = 1..Len(k) /\ \A i \in 1..Len(k) : k[i] \in EntryRow
  OBVIOUS
<1>2. \A e \in EntryRow : /\ e.change \in Int /\ e.balance \in Int
                          /\ e.at \in Nat /\ e.written \in Nat
                          /\ e.document \in Requests \cup {Nil}
  BY DEF EntryRow
<1>3. IsFiniteSet(1..Len(k))
  BY <1>1, FS_Interval
<1> QED
  BY <1>1, <1>2, <1>3

\* Sums over some of the places.
LEMMA SumAtIs ==
  ASSUME NEW k \in Seq(EntryRow), NEW D \in SUBSET (DOMAIN k)
  PROVE  /\ SumAt(k, D) \in Int
         /\ SumFunction([i \in D |-> k[i].change]) = SumAt(k, D)
<1>1. PICK f, g : f = [i \in DOMAIN k |-> k[i].change] /\ g = [i \in D |-> k[i].change]
  OBVIOUS
<1>2. IsFiniteSet(D)
  BY ListIs, FS_Subset
<1>3. \A i \in D : f[i] \in Int /\ g[i] = f[i]
  BY <1>1, ListIs
<1>4. SumFunctionOnSet(f, D) \in Int /\ SumFunctionOnSet(g, D) = SumFunctionOnSet(f, D)
  BY <1>2, <1>3, SumType, SumEqual
<1>5. DOMAIN g = D
  BY <1>1
<1> QED
  BY <1>1, <1>4, <1>5 DEF SumAt, SumFunction

\* An entry more leaves the sums over the old places alone.
LEMMA SumAtAppended ==
  ASSUME NEW k \in Seq(EntryRow), NEW e \in EntryRow, NEW D \in SUBSET (DOMAIN k)
  PROVE  /\ SumAt(Append(k, e), D) = SumAt(k, D)
         /\ SumAt(Append(k, e), D \cup {Len(k) + 1}) = SumAt(k, D) + e.change
<1>1. PICK m, n, f, g : /\ m = Append(k, e) /\ n = Len(k) + 1
                        /\ f = [i \in DOMAIN k |-> k[i].change]
                        /\ g = [i \in DOMAIN m |-> m[i].change]
  OBVIOUS
<1>2. /\ m \in Seq(EntryRow) /\ Len(m) = n /\ DOMAIN m = 1..n /\ m[n] = e
      /\ \A i \in 1..Len(k) : m[i] = k[i]
  BY <1>1
<1>3. /\ Len(k) \in Nat /\ DOMAIN k = 1..Len(k) /\ IsFiniteSet(D)
  BY ListIs, FS_Subset
<1>4. n \notin D /\ D \subseteq 1..n /\ n \in 1..n
  BY <1>1, <1>3
<1>5. \A i \in 1..n : g[i] \in Int
  BY <1>1, <1>2, ListIs
<1>6. g[n] = e.change /\ \A i \in D : g[i] = f[i]
  BY <1>1, <1>2, <1>3, <1>4
<1>7. SumFunctionOnSet(g, D) = SumFunctionOnSet(f, D)
  BY <1>3, <1>6, SumEqual
<1>8. SumFunctionOnSet(g, D \cup {n}) = SumFunctionOnSet(g, D) + g[n]
  BY <1>3, <1>4, <1>5, SumAdd
<1> QED
  BY <1>1, <1>6, <1>7, <1>8 DEF SumAt

\* What an entry more adds to the sum of each document, and to the last sum.
LEMMA Appended ==
  ASSUME NEW k \in Seq(EntryRow), NEW e \in EntryRow
  PROVE  /\ \A d : SumAt(Append(k, e), PlacesOf(Append(k, e), d)) =
                     SumAt(k, PlacesOf(k, d)) + (IF e.document = d THEN e.change ELSE 0)
         /\ SumAt(Append(k, e), 1..(Len(k) + 1)) = SumAt(k, 1..Len(k)) + e.change
<1>1. Len(k) \in Nat /\ DOMAIN k = 1..Len(k) /\ DOMAIN Append(k, e) = 1..(Len(k) + 1)
      /\ Append(k, e)[Len(k) + 1] = e /\ \A i \in 1..Len(k) : Append(k, e)[i] = k[i]
  OBVIOUS
<1>2. ASSUME NEW d
      PROVE  SumAt(Append(k, e), PlacesOf(Append(k, e), d)) =
               SumAt(k, PlacesOf(k, d)) + (IF e.document = d THEN e.change ELSE 0)
  <2>1. PICK D : D = PlacesOf(k, d)
    OBVIOUS
  <2>2. D \in SUBSET (DOMAIN k) /\ SumAt(k, D) \in Int
    BY <2>1, SumAtIs DEF PlacesOf
  <2>3. PlacesOf(Append(k, e), d) = IF e.document = d THEN D \cup {Len(k) + 1} ELSE D
    BY <1>1, <2>1 DEF PlacesOf
  <2>4. SumAt(Append(k, e), D) = SumAt(k, D)
        /\ SumAt(Append(k, e), D \cup {Len(k) + 1}) = SumAt(k, D) + e.change
    BY <2>2, SumAtAppended
  <2>5. CASE e.document = d
    BY <2>1, <2>3, <2>4, <2>5
  <2>6. CASE e.document # d
    BY <2>1, <2>2, <2>3, <2>4, <2>6
  <2> QED
    BY <2>5, <2>6
<1>4. SumAt(Append(k, e), 1..(Len(k) + 1)) = SumAt(k, 1..Len(k)) + e.change
  <2>1. PICK D : D = 1..Len(k)
    OBVIOUS
  <2>2. D \in SUBSET (DOMAIN k) /\ 1..(Len(k) + 1) = D \cup {Len(k) + 1}
    BY <1>1, <2>1
  <2> QED
    BY <2>1, <2>2, SumAtAppended
<1> QED
  BY <1>2, <1>4

\* The balance that the program finds is that of the last entry written.
LEMMA CurrentIsLast ==
  ASSUME KardexShape, NEW p \in Products, kardex[p] # <<>>, InOrder(p)
  PROVE  CurrentBalance(p) = LastBalance(p) /\ LastBalance(p) \in Int
<1>1. PICK k, n : k = kardex[p] /\ n = Len(k)
  OBVIOUS
<1>2. k \in Seq(EntryRow) /\ k # <<>>
  BY <1>1 DEF KardexShape
<1>3. DOMAIN k = 1..n /\ n \in Nat /\ n # 0 /\ n \in 1..n
  BY <1>1, <1>2
<1>4. \A i, j \in 1..n : Before(p, i, j) <=> i < j
  <2>1. \A i \in 1..n : k[i].at \in Nat
    BY <1>1, <1>2, ListIs
  <2>2. \A i, j \in 1..n : i < j => k[i].at < k[j].at
    BY <1>1, <1>3 DEF InOrder
  <2>3. ASSUME NEW i \in 1..n, NEW j \in 1..n PROVE Before(p, i, j) <=> i < j
    <3>1. i < j \/ j < i \/ i = j
      OBVIOUS
    <3> QED
      BY <1>1, <2>1, <2>2, <3>1 DEF Before
  <2> QED
    BY <2>3
<1>5. (CHOOSE i \in DOMAIN k : \A j \in DOMAIN k \ {i} : Before(p, j, i)) = n
  <2>1. \A j \in 1..n \ {n} : j < n
    BY <1>3
  <2>2. \A j \in DOMAIN k \ {n} : Before(p, j, n)
    BY <1>3, <1>4, <2>1
  <2>3. ASSUME NEW i \in DOMAIN k, \A j \in DOMAIN k \ {i} : Before(p, j, i)
        PROVE  i = n
    <3> SUFFICES ASSUME i # n PROVE FALSE
      OBVIOUS
    <3>1. Before(p, n, i)
      BY <1>3, <2>3
    <3> QED
      BY <1>3, <1>4, <3>1
  <2> QED
    BY <1>3, <2>2, <2>3
<1>6. CurrentBalance(p) = k[n].balance
  BY <1>1, <1>5 DEF CurrentBalance
<1> QED
  BY <1>1, <1>2, <1>3, <1>6, ListIs DEF LastBalance

\* Whatever the order, the balance found is that of some entry.
LEMMA CurrentType ==
  ASSUME KardexShape, NEW p \in Products, kardex[p] # <<>>
  PROVE  CurrentBalance(p) \in Int
<1>1. PICK k, n : k = kardex[p] /\ n = Len(k)
  OBVIOUS
<1>2. /\ k \in Seq(EntryRow) /\ n \in Nat /\ n # 0 /\ DOMAIN k = 1..n /\ 1 \in 1..n
      /\ \A i \in 1..n : k[i].at \in Nat /\ k[i].at <= clock
  <2>1. k \in Seq(EntryRow)
    BY <1>1 DEF KardexShape
  <2> QED
    BY <1>1, <2>1, ListIs DEF KardexShape
\* the latest date,
<1>3. PICK U : U = {c \in Nat : \A i \in 1..n : k[i].at <= c}
  OBVIOUS
<1>4. PICK m \in U : \A c \in U : ~(c < m)
  <2>1. U \subseteq Nat /\ clock \in U
    BY <1>2, <1>3 DEF KardexShape
  <2> QED
    BY <2>1, LeastNumber
<1>5. PICK h \in 1..n : k[h].at = m
  <2> SUFFICES ASSUME \A i \in 1..n : k[i].at # m PROVE FALSE
    OBVIOUS
  <2>1. m \in Nat /\ \A i \in 1..n : k[i].at < m
    BY <1>2, <1>3, <1>4
  <2>2. m - 1 \in Nat /\ \A i \in 1..n : k[i].at <= m - 1
    BY <1>2, <2>1
  <2> QED
    BY <1>3, <1>4, <2>1, <2>2
\* and the last of the entries that have it.
<1>6. PICK V : V = {c \in Nat : \E i \in 1..n : c = n - i /\ k[i].at = m}
  OBVIOUS
<1>7. PICK v \in V : \A c \in V : ~(c < v)
  <2>1. V \subseteq Nat /\ n - h \in V
    BY <1>2, <1>5, <1>6
  <2> QED
    BY <2>1, LeastNumber
<1>8. PICK l \in 1..n : v = n - l /\ k[l].at = m
  BY <1>6, <1>7
<1>9. ASSUME NEW j \in DOMAIN k \ {l} PROVE Before(p, j, l)
  <2>1. j \in 1..n /\ k[j].at <= m /\ m \in Nat
    BY <1>2, <1>3, <1>4
  <2>2. ASSUME k[j].at = m PROVE ~(n - j < n - l)
    <3>1. n - j \in Nat
      BY <1>2, <2>1
    <3>2. n - j \in V
      BY <1>6, <2>1, <2>2, <3>1
    <3> QED
      BY <1>7, <1>8, <3>2
  <2> QED
    BY <1>1, <1>2, <1>8, <1>9, <2>1, <2>2 DEF Before
<1>10. \E i \in DOMAIN k : \A j \in DOMAIN k \ {i} : Before(p, j, i)
  BY <1>2, <1>9
<1>11. (CHOOSE i \in DOMAIN k : \A j \in DOMAIN k \ {i} : Before(p, j, i)) \in DOMAIN k
  BY <1>10
<1> QED
  BY <1>1, <1>2, <1>11, ListIs DEF CurrentBalance

\* What is in order was in order one entry before, and a reversal among the
\* entries began after the others were written.
LEMMA InOrderBefore ==
  ASSUME NEW p \in Products, NEW e \in EntryRow, kardex[p] \in Seq(EntryRow), kardex[p] # <<>>,
         kardex'[p] = Append(kardex[p], e), InOrder(p)'
  PROVE  InOrder(p) /\ (e.reversal => LastWritten(p) < e.at)
<1>1. PICK k, n, m : k = kardex[p] /\ n = Len(k) /\ m = kardex'[p]
  OBVIOUS
<1>2. /\ n \in Nat /\ n # 0 /\ DOMAIN k = 1..n /\ DOMAIN m = 1..(n + 1) /\ m[n + 1] = e
      /\ \A i \in 1..n : m[i] = k[i]
  BY <1>1
<1>3. \A i, j \in DOMAIN m : i < j =>
        (m[i].at < m[j].at /\ (m[j].reversal => m[i].written < m[j].at))
  BY <1>1 DEF InOrder
<1>4. InOrder(p)
  <2>1. \A i \in 1..n : i \in DOMAIN m
    BY <1>2
  <2> QED
    BY <1>1, <1>2, <1>3, <2>1 DEF InOrder
<1>5. e.reversal => LastWritten(p) < e.at
  <2>1. n \in DOMAIN m /\ n + 1 \in DOMAIN m /\ n < n + 1 /\ m[n] = k[n]
    BY <1>2
  <2> QED
    BY <1>1, <1>2, <1>3, <2>1 DEF LastWritten
<1> QED
  BY <1>4, <1>5

-----------------------------------------------------------------------------
(* Steps that write no entry.                                              *)

\* One entry per product, with the opening balance.
LEMMA InitKardex == KardexInit => KInv
<1> SUFFICES ASSUME KardexInit PROVE KInv
  OBVIOUS
<1>1. Init /\ WorkInv
  BY InitWork DEF KardexInit
<1>2. /\ documents = [d \in Requests |-> Nil] /\ stock = InitialStock
      /\ \A r \in Requests : ~Active(r)
  BY <1>1 DEF Init, Active, Steps
<1>3. /\ clock = 0 /\ begun = [r \in Requests |-> 0]
      /\ reading = [r \in Requests |-> NothingRead]
  BY DEF KardexInit
<1>4. ASSUME NEW p \in Products
      PROVE  /\ kardex[p] \in Seq(EntryRow) /\ kardex[p] # <<>> /\ Len(kardex[p]) = 1
             /\ LastBalance(p) = stock[p]
             /\ \A d \in Requests : SumAt(kardex[p], PlacesOf(kardex[p], d)) = 0
             /\ SumAt(kardex[p], 1..1) = stock[p]
             /\ \A i \in 1..1 : kardex[p][i].at = 0
  <2>1. PICK e : e = [document |-> Nil, change |-> InitialStock[p], balance |-> InitialStock[p],
                      at |-> 0, reversal |-> FALSE, written |-> 0]
    OBVIOUS
  <2>2. kardex[p] = <<e>>
    BY <2>1 DEF KardexInit
  <2>3. InitialStock[p] \in Int
    OBVIOUS
  <2>4. e \in EntryRow /\ e.document = Nil /\ e.change = InitialStock[p]
        /\ e.balance = InitialStock[p] /\ e.at = 0
    BY <2>1, <2>3 DEF EntryRow
  <2>5. <<e>> \in Seq(EntryRow) /\ Len(<<e>>) = 1 /\ <<e>>[1] = e /\ DOMAIN <<e>> = {1}
    BY <2>4
  <2>6. \A d \in Requests : PlacesOf(<<e>>, d) = {}
    BY <2>4, <2>5 DEF PlacesOf
  <2>7. SumAt(<<e>>, {}) = 0
    BY SumEmpty DEF SumAt
  <2>8. SumAt(<<e>>, {1}) = InitialStock[p]
    <3>1. PICK f : f = [i \in DOMAIN <<e>> |-> <<e>>[i].change]
      OBVIOUS
    <3>2. f[1] = InitialStock[p]
      BY <2>4, <2>5, <3>1
    <3>3. SumFunctionOnSet(f, {1}) = f[1]
      BY <2>3, <3>2, SumOne
    <3> QED
      BY <3>1, <3>2, <3>3 DEF SumAt
  <2>9. 1..1 = {1}
    OBVIOUS
  <2>10. LastBalance(p) = stock[p]
    BY <1>2, <2>2, <2>4, <2>5 DEF LastBalance
  <2>11. \A d \in Requests : SumAt(kardex[p], PlacesOf(kardex[p], d)) = 0
    BY ONLY <2>2, <2>6, <2>7
  <2>12. SumAt(kardex[p], 1..1) = stock[p]
    BY <1>2, <2>2, <2>8, <2>9
  <2>13. \A i \in 1..1 : kardex[p][i].at = 0
    BY <2>2, <2>4, <2>5, <2>9
  <2> QED
    BY <2>2, <2>5, <2>10, <2>11, <2>12, <2>13
<1>5. KardexShape
  <2>1. NothingRead \in [Products -> [balance : Int, net : Int]]
    BY DEF NothingRead
  <2>2. kardex \in [Products -> Seq(EntryRow)]
    BY <1>4 DEF KardexInit
  <2>3. \A p \in Products : \A i \in 1..Len(kardex[p]) : kardex[p][i].at <= clock
    BY <1>3, <1>4
  <2> QED
    BY <1>3, <2>1, <2>2, <2>3 DEF KardexShape
<1>7. NoIncrements /\ ReadStands
  BY <1>2 DEF Works, NoIncrements, ReadStands
<1>8. Recorded
  BY <1>2, <1>4 DEF Recorded
<1>9. AddedUp /\ Balanced
  BY <1>4 DEF AddedUp, Balanced
<1> QED
  BY <1>1, <1>5, <1>7, <1>8, <1>9 DEF KInv

\* What the parts of the invariant that speak of committed rows depend on.
LEMMA SameRows ==
  ASSUME KInv, UNCHANGED <<kardex, documents, stock>>
  PROVE  /\ Recorded' /\ AddedUp' /\ Balanced'
         /\ \A p \in Products : /\ LastBalance(p)' = LastBalance(p)
                               /\ LastWritten(p)' = LastWritten(p)
                               /\ (InOrder(p)' <=> InOrder(p))
<1>1. \A p \in Products : /\ LastBalance(p)' = LastBalance(p)
                         /\ LastWritten(p)' = LastWritten(p)
                         /\ (InOrder(p)' <=> InOrder(p))
  BY DEF LastBalance, LastWritten, InOrder
<1> QED
  BY <1>1 DEF KInv, Recorded, AddedUp, Balanced

\* A step on the way: some request may end, none starts or reads.
LEMMA QuietKeeps ==
  ASSUME KInv, WorkInv', UNCHANGED kardexVars, UNCHANGED <<documents, stock>>,
         \A q \in Requests : Active(q)' =>
           /\ Active(q) /\ task'[q] = task[q]
           /\ pc[q] = "reverse" => pc'[q] = "reverse"
  PROVE  KInv'
<1>1. kardex' = kardex /\ clock' = clock /\ begun' = begun /\ reading' = reading
  BY DEF kardexVars
<1>2. \A q \in Requests, p \in Products : Works(q, p)' => Works(q, p)
  BY DEF Works
<1>3. /\ Recorded' /\ AddedUp' /\ Balanced'
      /\ \A p \in Products : /\ LastBalance(p)' = LastBalance(p)
                            /\ LastWritten(p)' = LastWritten(p)
                            /\ (InOrder(p)' <=> InOrder(p))
  BY <1>1, SameRows
<1>4. KardexShape'
  BY <1>1 DEF KInv, KardexShape
<1>6. NoIncrements'
  BY DEF KInv, NoIncrements
<1>7. ReadStands'
  <2> SUFFICES ASSUME NEW r \in Requests, NEW p \in Products, Works(r, p)',
                      task'[r].operation = "void", pc'[r] # "reverse"
               PROVE  /\ reading[r][p].net = Effect(task'[r].kind, task'[r].lines)[p]
                      /\ (InOrder(p) /\ LastWritten(p) < begun[r]) =>
                           reading[r][p].balance = LastBalance(p)
    BY <1>1, <1>3 DEF ReadStands
  <2>1. Works(r, p) /\ task'[r] = task[r] /\ pc[r] # "reverse"
    BY DEF Works
  <2> QED
    BY <2>1 DEF KInv, ReadStands
<1> QED
  BY <1>3, <1>4, <1>6, <1>7 DEF KInv

\* Which the steps of OtherStep are.
LEMMA OtherKeeps ==
  ASSUME KInv, WorkInv', NEW r \in Requests, OtherStep(r)
  PROVE  KInv'
<1>1. UNCHANGED kardexVars /\ TypeOK
  BY DEF OtherStep, KInv, WorkInv, IInv
<1>2. CASE LockSequence(r) \/ InsertSequence(r) \/ MissSequence(r)
           \/ InsertLine(r) \/ MoveLine(r)
  <2>1. UNCHANGED <<documents, stock>> /\ task' = task
    BY <1>2 DEF LockSequence, InsertSequence, MissSequence, InsertLine, MoveLine, TakeNumber, committed
  <2>2. pc[r] \in {"number", "insert", "lines", "move"} /\ \A q \in Requests \ {r} : pc'[q] = pc[q]
    BY <1>1, <1>2 DEF LockSequence, InsertSequence, MissSequence, InsertLine, MoveLine, TakeNumber, TypeOK
  <2>3. \A q \in Requests : Active(q)' => Active(q)
    BY <2>2 DEF Active, Steps
  <2> QED
    BY <1>1, <2>1, <2>2, <2>3, QuietKeeps
<1>3. CASE DuplicateSequence(r) \/ RefuseLine(r) \/ DeadlockVictim(r) \/ Abort(r)
  <2>1. Rollback(r)
    BY <1>3 DEF DuplicateSequence, RefuseLine, DeadlockVictim, Abort
  <2>2. UNCHANGED <<documents, stock>>
    BY <2>1 DEF Rollback, committed
  <2>3. pc'[r] = "failed" /\ \A q \in Requests \ {r} : pc'[q] = pc[q] /\ task'[q] = task[q]
    BY <1>1, <2>1 DEF Rollback, End, TypeOK
  <2>4. \A q \in Requests : Active(q)' => q # r /\ Active(q)
    BY <2>3 DEF Active, Steps
  <2> QED
    BY <1>1, <2>2, <2>3, <2>4, QuietKeeps
<1> QED
  BY <1>2, <1>3 DEF OtherStep

\* What the handlers start with.
StartsWith(r, t, step) ==
  /\ Start(r, t, step) /\ t \in Task /\ step \in Steps /\ t.kind # "increment"
  /\ t.operation = "void" => step = "reverse"

LEMMA BeginStarts ==
  ASSUME KInv, "increment" \notin Operations, NEW r \in Requests, Begin(r)
  PROVE  \E t, step : StartsWith(r, t, step)
<1>1. IInv /\ NoIncrements
  BY DEF KInv, WorkInv
<1>2. ASSUME NEW kind \in Kinds \ {"increment"}, NEW lines \in LineChoices,
             NEW n \in SaleNumbers \cup {Nil}, Start(r, Creation(r, kind, lines, n), "number")
      PROVE  \E t, step : StartsWith(r, t, step)
  <2>1. PICK t : t = Creation(r, kind, lines, n)
    OBVIOUS
  <2>2. t \in Task /\ t.kind = kind /\ t.operation = "create"
    BY <2>1, CreationFits DEF Creation
  <2>3. StartsWith(r, t, "number")
    BY <1>2, <2>1, <2>2 DEF StartsWith, Steps
  <2> QED
    BY <2>3
<1>3. ASSUME NEW d \in Requests, documents[d] # Nil,
             NEW operation \in {"approve", "cancel", "void"},
             NEW step \in {"reverse", "move", "commit"}, step = "reverse" <=> operation = "void",
             Start(r, Handling(operation, d), step)
      PROVE  \E t, s : StartsWith(r, t, s)
  <2>1. PICK t : t = Handling(operation, d)
    OBVIOUS
  <2>2. t \in Task /\ t.kind = documents[d].kind /\ t.operation = operation
    BY <1>1, <1>3, <2>1, HandlingFits DEF Handling
  <2>3. StartsWith(r, t, step)
    BY <1>1, <1>3, <2>1, <2>2 DEF StartsWith, Steps, NoIncrements
  <2> QED
    BY <2>3
<1>4. CASE CreateIngreso(r) \/ CreateEgreso(r) \/ CreateBaja(r) \/ CreateAjuste(r)
  BY <1>2, <1>4 DEF CreateIngreso, CreateEgreso, CreateBaja, CreateAjuste, Kinds
<1>5. ASSUME NEW d \in Requests, ApproveDocument(r, d) PROVE \E t, s : StartsWith(r, t, s)
  BY <1>3, <1>5 DEF ApproveDocument
<1>6. ASSUME NEW d \in Requests, CancelDocument(r, d) PROVE \E t, s : StartsWith(r, t, s)
  BY <1>3, <1>6 DEF CancelDocument
<1>7. ASSUME NEW d \in Requests, VoidDocument(r, d) PROVE \E t, s : StartsWith(r, t, s)
  BY <1>3, <1>7 DEF VoidDocument
<1> QED
  BY <1>4, <1>5, <1>6, <1>7 DEF Begin

\* A request that starts has read nothing yet.
LEMMA BeginKeeps ==
  ASSUME "increment" \notin Operations, KInv, WorkInv',
         NEW r \in Requests, BeginKardex(r)
  PROVE  KInv'
<1>1. /\ Begin(r) /\ clock' = clock + 1 /\ begun' = [begun EXCEPT ![r] = clock']
      /\ kardex' = kardex /\ reading' = reading
  BY DEF BeginKardex
<1>2. PICK t, step : StartsWith(r, t, step)
  BY <1>1, BeginStarts
<1>3. /\ Start(r, t, step) /\ t \in Task /\ t.kind # "increment"
      /\ t.operation = "void" => step = "reverse"
  BY <1>2 DEF StartsWith
<1>4. UNCHANGED <<documents, stock>> /\ pc[r] = "idle"
  BY <1>3 DEF Start, committed
<1>5. /\ pc'[r] = step /\ task'[r] = t
      /\ \A q \in Requests \ {r} : pc'[q] = pc[q] /\ task'[q] = task[q]
  BY <1>3 DEF Start, KInv, WorkInv, IInv, TypeOK
<1>6. /\ ~Active(r) /\ \A q \in Requests \ {r} : Active(q)' <=> Active(q)
  BY <1>4, <1>5 DEF Active, Steps
<1>7. \A q \in Requests \ {r}, p \in Products : Works(q, p)' <=> Works(q, p)
  BY <1>5, <1>6 DEF Works
<1>8. /\ clock \in Nat /\ clock' \in Nat /\ begun' \in [Requests -> Nat] /\ begun'[r] = clock + 1
      /\ \A q \in Requests \ {r} : begun'[q] = begun[q]
  BY <1>1 DEF KInv, KardexShape
<1>9. /\ Recorded' /\ AddedUp' /\ Balanced'
      /\ \A p \in Products : /\ LastBalance(p)' = LastBalance(p)
                            /\ LastWritten(p)' = LastWritten(p)
                            /\ (InOrder(p)' <=> InOrder(p))
  BY <1>1, <1>4, SameRows
<1>10. KardexShape'
  <2>1. KardexShape /\ clock' = clock + 1 /\ kardex' = kardex /\ reading' = reading
    BY <1>1 DEF KInv
  <2>2. \A q \in Requests : begun'[q] <= clock'
    <3>1. \A q \in Requests : begun[q] <= clock /\ begun[q] \in Nat
      BY <2>1 DEF KardexShape
    <3> QED
      BY <1>8, <2>1, <3>1
  <2>3. ASSUME NEW p \in Products, NEW i \in 1..Len(kardex[p])
        PROVE  kardex[p][i].at <= clock + 1
    <3>1. PICK k : k = kardex[p]
      OBVIOUS
    <3>2. k \in Seq(EntryRow) /\ k[i].at <= clock
      BY <2>1, <3>1 DEF KardexShape
    <3>3. k[i].at \in Nat
      BY <3>1, <3>2, ListIs
    <3> QED
      BY <1>8, <3>1, <3>2, <3>3
  <2> QED
    BY <1>8, <2>1, <2>2, <2>3 DEF KardexShape
<1>15. NoIncrements'
  BY <1>3, <1>4, <1>5, <1>6 DEF KInv, NoIncrements
<1>16. ReadStands'
  <2> SUFFICES ASSUME NEW q \in Requests, NEW p \in Products, Works(q, p)',
                      task'[q].operation = "void", pc'[q] # "reverse"
               PROVE  /\ reading[q][p].net = Effect(task'[q].kind, task'[q].lines)[p]
                      /\ (InOrder(p) /\ LastWritten(p) < begun'[q]) =>
                           reading[q][p].balance = LastBalance(p)
    BY <1>1, <1>9 DEF ReadStands
  <2>1. q # r
    BY <1>3, <1>5
  <2> QED
    BY <1>5, <1>7, <1>8, <2>1 DEF KInv, ReadStands
<1> QED
  BY <1>9, <1>10, <1>15, <1>16 DEF KInv

\* A void reads what is recorded of its document, which is in force.
LEMMA ReadKeeps ==
  ASSUME ~SameDocument, KInv, WorkInv', NEW r \in Requests, ReadKardex(r)
  PROVE  KInv'
<1>1. /\ ReverseKardex(r) /\ kardex' = kardex /\ clock' = clock /\ begun' = begun
      /\ reading' = [reading EXCEPT ![r] =
           [p \in Products |-> [balance |-> CurrentBalance(p), net |-> NetOf(p, task[r].target)]]]
  BY DEF ReadKardex
<1>2. /\ pc[r] = "reverse" /\ pc' = [pc EXCEPT ![r] = "move"] /\ task' = task
      /\ UNCHANGED <<documents, stock>>
  BY <1>1 DEF ReverseKardex, committed
<1>3. /\ KardexShape /\ AddedUp /\ Recorded /\ ReadStands /\ WorkInv /\ IInv /\ TypeOK
  BY DEF KInv, WorkInv, IInv
<1>4. \A q \in Requests \ {r} : pc'[q] = pc[q]
  BY <1>2, <1>3 DEF TypeOK
<1>5. \A q \in Requests : Active(q)' <=> Active(q)
  BY <1>2, <1>3, <1>4 DEF Active, Steps, TypeOK
<1>6. \A q \in Requests, p \in Products : Works(q, p)' <=> Works(q, p)
  BY <1>2, <1>5 DEF Works
<1>7. PICK d : d = task[r].target
  OBVIOUS
<1>8. /\ Active(r) /\ task[r].operation = "void" /\ d \in Requests
      /\ documents[d] # Nil /\ documents[d].status = "approved"
      /\ documents[d].kind = task[r].kind /\ documents[d].lines = task[r].lines
  <2>1. Active(r) /\ task[r].operation = "void"
    BY <1>2, <1>3 DEF Active, Steps, IInv, HandlerState, StateOf
  <2>2. d \in Requests
    BY <1>3, <1>7, <2>1, ActiveTask DEF IInv
  <2> QED
    BY <1>3, <1>7, <2>1, <2>2 DEF IInv, HandlerTarget, WorkInv, StillAsRead
<1>9. ASSUME NEW p \in Products
      PROVE  /\ CurrentBalance(p) \in Int /\ (InOrder(p) => CurrentBalance(p) = LastBalance(p))
             /\ NetOf(p, d) = Effect(task[r].kind, task[r].lines)[p] /\ NetOf(p, d) \in Int
  <2>1. PICK k, D : k = kardex[p] /\ D = PlacesOf(k, d)
    OBVIOUS
  <2>2. k \in Seq(EntryRow) /\ D \in SUBSET (DOMAIN k)
    BY <1>3, <2>1 DEF KardexShape, PlacesOf
  <2>3. NetOf(p, d) = SumFunction([i \in D |-> k[i].change])
    BY <2>1 DEF NetOf, PlacesOf
  <2>4. NetOf(p, d) = SumAt(k, D) /\ SumAt(k, D) \in Int
    BY <2>2, <2>3, SumAtIs
  <2>5. SumAt(k, D) = Effect(task[r].kind, task[r].lines)[p]
    BY <1>3, <1>8, <2>1 DEF Recorded
  <2> QED
    BY <1>3, <2>4, <2>5, CurrentIsLast, CurrentType DEF AddedUp
<1>10. \A p \in Products : /\ (InOrder(p) => reading'[r][p].balance = LastBalance(p))
                           /\ reading'[r][p].net = Effect(task[r].kind, task[r].lines)[p]
  BY <1>1, <1>3, <1>7, <1>9 DEF KardexShape
<1>11. \A q \in Requests \ {r} : reading'[q] = reading[q]
  BY <1>1, <1>3 DEF KardexShape
<1>12. KardexShape'
  <2>1. PICK f : f = [p \in Products |-> [balance |-> CurrentBalance(p), net |-> NetOf(p, d)]]
    OBVIOUS
  <2>2. f \in [Products -> [balance : Int, net : Int]]
    BY <1>9, <2>1
  <2>3. reading' = [reading EXCEPT ![r] = f]
    BY <1>1, <1>7, <2>1
  <2> QED
    BY <1>1, <1>3, <2>2, <2>3 DEF KardexShape
<1>13. /\ Recorded' /\ AddedUp' /\ Balanced'
       /\ \A p \in Products : /\ LastBalance(p)' = LastBalance(p)
                             /\ LastWritten(p)' = LastWritten(p)
                             /\ (InOrder(p)' <=> InOrder(p))
  BY <1>1, <1>2, SameRows
<1>14. NoIncrements'
  BY <1>2, <1>5 DEF KInv, NoIncrements
<1>15. ReadStands'
  <2> SUFFICES ASSUME NEW q \in Requests, NEW p \in Products, Works(q, p)',
                      task'[q].operation = "void", pc'[q] # "reverse"
               PROVE  /\ reading'[q][p].net = Effect(task[q].kind, task[q].lines)[p]
                      /\ (InOrder(p) /\ LastWritten(p) < begun[q]) =>
                           reading'[q][p].balance = LastBalance(p)
    BY <1>1, <1>2, <1>13 DEF ReadStands
  <2>1. CASE q = r
    <3>1. InOrder(p) => reading'[r][p].balance = LastBalance(p)
      BY ONLY <1>10
    <3>2. reading'[r][p].net = Effect(task[r].kind, task[r].lines)[p]
      BY ONLY <1>10
    <3> QED
      BY ONLY <2>1, <3>1, <3>2
  <2>2. CASE q # r
    BY <1>2, <1>3, <1>4, <1>6, <1>11, <2>2 DEF ReadStands
  <2> QED
    BY <2>1, <2>2
<1> QED
  BY <1>12, <1>13, <1>14, <1>15 DEF KInv

-----------------------------------------------------------------------------
(* Commits: the stock a request has moved is what it writes.               *)

\* What a commit moves of one product.
Moves(r, p) == IF MovesStock(task[r]) THEN Signed(task[r], p) ELSE 0

\* The entry a commit writes for one product.
EntryOf(r, p) == IF task[r].operation = "void" THEN ReversalEntry(r, p) ELSE NewEntry(r, p)

\* A commit writes one entry for each product of its lines, if it moves stock,
\* and the entry says what it moves.  The balance it continues is the last one
\* written, if the entry leaves the list in order.
LEMMA CommitWrites ==
  ASSUME ~SameDocument, KInv, NEW r \in Requests, CommitKardex(r), NEW p \in Products
  PROVE  /\ Moves(r, p) \in Int /\ stock'[p] = stock[p] + Moves(r, p)
         /\ kardex[p] \in Seq(EntryRow) /\ kardex[p] # <<>>
         /\ \/ /\ Works(r, p) /\ kardex'[p] = Append(kardex[p], EntryOf(r, p))
               /\ EntryOf(r, p) \in EntryRow
               /\ EntryOf(r, p).document = task[r].target /\ EntryOf(r, p).change = Moves(r, p)
               /\ EntryOf(r, p).at = begun[r] /\ EntryOf(r, p).written = clock
               /\ (InOrder(p) /\ (EntryOf(r, p).reversal => LastWritten(p) < begun[r])) =>
                    EntryOf(r, p).balance = LastBalance(p) + Moves(r, p)
            \/ Moves(r, p) = 0 /\ kardex'[p] = kardex[p]
<1>1. /\ WorkInv /\ IInv /\ TypeOK /\ KardexShape /\ AddedUp /\ NoIncrements /\ ReadStands
      /\ Commit(r) /\ kardex[p] # <<>> /\ kardex[p] \in Seq(EntryRow)
      /\ begun[r] \in Nat /\ clock \in Nat
  BY DEF KInv, WorkInv, IInv, CommitKardex, KardexShape, AddedUp
<1>2. Active(r) /\ pc[r] = "commit"
  BY <1>1 DEF Commit, Active, Steps
<1>3. PICK t : t = task[r]
  OBVIOUS
<1>4. /\ t \in Task /\ t.lines \in LineChoices /\ t.kind \in Kinds \ {"increment"}
      /\ t.operation \in {"create", "approve", "cancel", "void"}
  <2>1. task[r] \in Task /\ task[r].lines \in LineChoices /\ task[r].kind \in Kinds
    BY <1>1, <1>2, ActiveTask DEF IInv
  <2>2. \A u \in Task : u.operation \in {"create", "approve", "cancel", "void"}
    BY DEF Task
  <2> QED
    BY <1>1, <1>2, <1>3, <2>1, <2>2 DEF NoIncrements
<1>5. PICK q : q = QuantityOf(t.lines, p)
  OBVIOUS
<1>6. q \in Nat /\ (p \notin ProductsOf(t.lines) => q = 0)
  BY <1>4, <1>5, QuantityOfLine
<1>7. PICK c : c = Moves(r, p)
  OBVIOUS
<1>8. c = IF MovesStock(t) THEN (IF Adds(t) THEN q ELSE -q) ELSE 0
  BY <1>3, <1>5, <1>7 DEF Moves, Signed
<1>9. c \in Int /\ (p \notin ProductsOf(t.lines) => c = 0)
  BY <1>6, <1>8
<1>10. stock'[p] = stock[p] + c
  <2>1. stock[p] \in Nat
    BY <1>1 DEF TypeOK
  <2>2. CASE MovesStock(t)
    BY <1>1, <1>3, <1>7, <2>2, CommitMoves DEF Moves
  <2>3. CASE ~MovesStock(t)
    <3>1. stock' = stock
      BY <1>1, <1>3, <2>3, CommitMoves
    <3> QED
      BY <1>8, <2>1, <2>3, <3>1
  <2> QED
    BY <2>2, <2>3
<1>11. kardex'[p] = IF p \notin ProductsOf(t.lines) THEN kardex[p]
                    ELSE IF Records(t) THEN Append(kardex[p], NewEntry(r, p))
                    ELSE IF t.operation = "void" THEN Append(kardex[p], ReversalEntry(r, p))
                    ELSE kardex[p]
  BY <1>3 DEF CommitKardex
<1>12. CASE p \notin ProductsOf(t.lines)
  BY <1>1, <1>7, <1>9, <1>10, <1>11, <1>12
<1>120. CurrentBalance(p) \in Int /\ (InOrder(p) => CurrentBalance(p) = LastBalance(p))
  BY <1>1, CurrentIsLast, CurrentType
<1>122. task[r].target \in Requests
  BY <1>1, CommitStatus
<1>13. CASE p \in ProductsOf(t.lines) /\ Records(t)
  <2>1. MovesStock(t) /\ t.operation # "void"
    BY <1>13 DEF Records, MovesStock
  <2>2. c = KardexChange(t, p)
    BY <1>4, <1>5, <1>8, <2>1 DEF Adds, KardexChange
  <2>3. PICK e : e = EntryOf(r, p)
    OBVIOUS
  <2>4. e = [document |-> task[r].target, change |-> c, balance |-> CurrentBalance(p) + c,
             at |-> begun[r], reversal |-> FALSE, written |-> clock]
    BY <1>3, <2>1, <2>2, <2>3 DEF NewEntry, EntryOf
  <2>5. CurrentBalance(p) + c \in Int
    BY <1>9, <1>120
  <2>6. e \in EntryRow
    BY ONLY <1>1, <1>9, <1>122, <2>4, <2>5 DEF EntryRow
  <2>7. /\ e.document = task[r].target /\ e.change = c /\ e.at = begun[r] /\ e.written = clock
        /\ InOrder(p) => e.balance = LastBalance(p) + c
    BY ONLY <1>120, <2>4
  <2>8. Works(r, p) /\ kardex'[p] = Append(kardex[p], e)
    BY <1>2, <1>3, <1>11, <1>13, <2>1, <2>3 DEF Works, EntryOf
  <2> QED
    BY <1>1, <1>7, <1>9, <1>10, <2>3, <2>6, <2>7, <2>8
<1>14. CASE p \in ProductsOf(t.lines) /\ t.operation = "void"
  <2>1. Works(r, p) /\ pc[r] # "reverse" /\ MovesStock(t) /\ ~Records(t)
    BY <1>2, <1>3, <1>14 DEF Works, MovesStock, Records
  <2>2. PICK b, net : b = reading[r][p].balance /\ net = reading[r][p].net
    OBVIOUS
  <2>3. /\ net = Effect(t.kind, t.lines)[p]
        /\ (InOrder(p) /\ LastWritten(p) < begun[r]) => b = LastBalance(p)
    BY <1>1, <1>3, <1>14, <2>1, <2>2 DEF ReadStands
  <2>4. c = -net
    BY <1>5, <1>6, <1>8, <1>14, <2>1, <2>3 DEF Adds, Effect
  <2>5. b \in Int /\ net \in Int
    BY <1>1, <2>2 DEF KardexShape
  <2>6. PICK e : e = EntryOf(r, p)
    OBVIOUS
  <2>7. e = [document |-> task[r].target, change |-> -net, balance |-> b - net,
             at |-> begun[r], reversal |-> TRUE, written |-> clock]
    BY <1>3, <1>14, <2>2, <2>6 DEF ReversalEntry, EntryOf
  <2>8. b - net = b + c /\ b - net \in Int /\ -net \in Int
    BY ONLY <2>4, <2>5
  <2>9. e \in EntryRow
    BY ONLY <1>1, <1>122, <2>7, <2>8 DEF EntryRow
  <2>10. /\ e.document = task[r].target /\ e.change = c /\ e.at = begun[r] /\ e.written = clock
         /\ (InOrder(p) /\ (e.reversal => LastWritten(p) < begun[r])) =>
              e.balance = LastBalance(p) + c
    BY ONLY <2>3, <2>4, <2>7, <2>8
  <2>11. kardex'[p] = Append(kardex[p], e)
    BY <1>3, <1>11, <1>14, <2>1, <2>6 DEF EntryOf
  <2> QED
    BY <1>1, <1>7, <1>9, <1>10, <2>1, <2>6, <2>9, <2>10, <2>11
<1>15. CASE p \in ProductsOf(t.lines) /\ ~Records(t) /\ t.operation # "void"
  <2>1. ~MovesStock(t)
    BY <1>15 DEF Records, MovesStock
  <2> QED
    BY <1>1, <1>7, <1>8, <1>9, <1>10, <1>11, <1>15, <2>1
<1> QED
  BY <1>12, <1>13, <1>14, <1>15

\* The entry a commit writes, if any, and the sums and balances after it.
LEMMA CommitSums ==
  ASSUME ~SameDocument, KInv, NEW r \in Requests, CommitKardex(r), NEW p \in Products
  PROVE  /\ kardex'[p] \in Seq(EntryRow)
         /\ \A d \in Requests :
              SumAt(kardex'[p], PlacesOf(kardex'[p], d)) =
                SumAt(kardex[p], PlacesOf(kardex[p], d))
                  + (IF d = task[r].target THEN Moves(r, p) ELSE 0)
         /\ kardex'[p] # <<>>
         /\ SumAt(kardex'[p], 1..Len(kardex'[p]))
              = SumAt(kardex[p], 1..Len(kardex[p])) + Moves(r, p)
         /\ InOrder(p)' => InOrder(p) /\ LastBalance(p)' = LastBalance(p) + Moves(r, p)
         /\ \A i \in 1..Len(kardex'[p]) : kardex'[p][i].at <= clock
<1>1. /\ KardexShape /\ AddedUp /\ Balanced /\ stock[p] \in Int
      /\ begun[r] <= clock
  BY DEF KInv, WorkInv, IInv, TypeOK, KardexShape
<1>2. PICK k, n, c, e : /\ k = kardex[p] /\ n = Len(k) /\ c = Moves(r, p)
                        /\ e = EntryOf(r, p)
  OBVIOUS
<1>3. /\ k \in Seq(EntryRow) /\ k # <<>> /\ n \in Nat /\ n # 0 /\ c \in Int
      /\ \A i \in 1..n : k[i].at <= clock
      /\ SumAt(k, 1..n) \in Int
      /\ InOrder(p) => LastBalance(p) \in Int
  <2>1. k \in Seq(EntryRow) /\ k # <<>> /\ c \in Int
    BY <1>2, CommitWrites
  <2>2. n \in Nat /\ n # 0
    BY <1>2, <2>1
  <2> QED
    BY <1>1, <1>2, <2>1, <2>2 DEF AddedUp, Balanced, KardexShape
<1>4. CASE /\ kardex'[p] = Append(k, e) /\ e \in EntryRow
           /\ e.document = task[r].target /\ e.change = c /\ e.at = begun[r]
           /\ (InOrder(p) /\ (e.reversal => LastWritten(p) < e.at)) =>
                e.balance = LastBalance(p) + c
  <2>1. PICK m : m = Append(k, e)
    OBVIOUS
  <2>2. /\ m \in Seq(EntryRow) /\ m # <<>> /\ Len(m) = n + 1 /\ m[n + 1] = e
        /\ \A i \in 1..n : m[i] = k[i]
    BY <1>2, <1>3, <1>4, <2>1
  <2>3. \A d \in Requests :
          SumAt(m, PlacesOf(m, d)) = SumAt(k, PlacesOf(k, d)) + (IF e.document = d THEN e.change ELSE 0)
    BY <1>3, <1>4, <2>1, Appended
  <2>4. SumAt(m, 1..(n + 1)) = SumAt(k, 1..n) + e.change
    BY <1>2, <1>3, <1>4, <2>1, Appended
  <2>5. LastBalance(p)' = e.balance
    BY <1>4, <2>1, <2>2 DEF LastBalance
  <2>6. ASSUME InOrder(p)' PROVE InOrder(p) /\ (e.reversal => LastWritten(p) < e.at)
    <3>1. kardex[p] \in Seq(EntryRow) /\ kardex[p] # <<>> /\ kardex'[p] = Append(kardex[p], e)
          /\ e \in EntryRow
      BY <1>2, <1>3, <1>4
    <3> QED
      BY ONLY <2>6, <3>1, InOrderBefore, p \in Products
  <2>7. \A i \in 1..(n + 1) : m[i].at <= clock
    <3>1. m[n + 1].at <= clock
      BY <1>1, <1>4, <2>2
    <3>2. \A i \in 1..n : m[i].at <= clock
      BY <1>3, <2>2
    <3> QED
      BY <1>3, <3>1, <3>2
  <2> QED
    BY <1>2, <1>4, <2>1, <2>2, <2>3, <2>4, <2>5, <2>6, <2>7
<1>5. CASE c = 0 /\ kardex'[p] = k
  <2>1. \A d \in Requests : SumAt(k, PlacesOf(k, d)) \in Int
    <3>1. \A d \in Requests : PlacesOf(k, d) \in SUBSET (DOMAIN k)
      BY DEF PlacesOf
    <3> QED
      BY <1>3, <3>1, SumAtIs
  <2>2. LastBalance(p)' = LastBalance(p) /\ (InOrder(p)' <=> InOrder(p))
    BY <1>2, <1>5 DEF LastBalance, InOrder
  <2> QED
    BY <1>2, <1>3, <1>5, <2>1, <2>2
<1>6. \/ /\ kardex'[p] = Append(k, e) /\ e \in EntryRow
         /\ e.document = task[r].target /\ e.change = c /\ e.at = begun[r]
         /\ (InOrder(p) /\ (e.reversal => LastWritten(p) < e.at)) =>
              e.balance = LastBalance(p) + c
      \/ c = 0 /\ kardex'[p] = k
  BY <1>2, CommitWrites
<1> QED
  BY <1>4, <1>5, <1>6

\* The document a commit leaves, of the request's kind and lines, is in force
\* only if the request has recorded it.
LEMMA CommitRecords ==
  ASSUME ~SameDocument, KInv, NEW r \in Requests, CommitKardex(r)
  PROVE  Recorded'
<1>1. PICK t, d : t = task[r] /\ d = t.target
  OBVIOUS
<1>2. /\ WorkInv /\ IInv /\ TypeOK /\ Recorded /\ Commit(r) /\ Active(r) /\ pc[r] = "commit"
  BY DEF KInv, WorkInv, IInv, CommitKardex, Commit, Active, Steps
<1>3. /\ t \in Task /\ t.operation \in {"create", "approve", "cancel", "void"} /\ d \in Requests
      /\ t.operation = "create" => d = r
  <2>1. task[r] \in Task
    BY <1>2, ActiveTask DEF IInv
  <2>2. \A u \in Task : u.operation \in {"create", "approve", "cancel", "void"} /\ u.target \in Requests
    BY DEF Task
  <2> QED
    BY <1>1, <1>2, <2>1, <2>2 DEF IInv, HandlerTarget
<1>4. /\ \A e \in Requests \ {d} : documents'[e] = documents[e]
      /\ documents'[d] # Nil /\ documents'[d].kind = t.kind /\ documents'[d].lines = t.lines
      /\ documents'[d].status = NewStatus(t)
  <2>1. \A e \in Requests \ {d} : documents'[e] = documents[e]
    BY <1>1, <1>2, CommitStatus
  <2>2. CASE t.operation = "create"
    <3>1. documents' = [documents EXCEPT ![r] =
                          [kind |-> t.kind, lines |-> t.lines, status |-> NewStatus(t),
                           number |-> number[r], saleNumber |-> t.saleNumber]]
      BY <1>1, <1>2, <2>2 DEF Commit
    <3>2. documents'[r] # Nil
      BY <1>1, <1>2, <2>2, CommittedDocuments
    <3>3. documents'[r] = [kind |-> t.kind, lines |-> t.lines, status |-> NewStatus(t),
                           number |-> number[r], saleNumber |-> t.saleNumber]
      BY <1>2, <3>1 DEF TypeOK
    <3> QED
      BY <1>3, <2>1, <2>2, <3>2, <3>3
  <2>3. CASE t.operation # "create"
    <3>1. documents' = [documents EXCEPT ![d].status = NewStatus(t)]
      BY <1>1, <1>2, <2>3 DEF Commit
    <3>2. documents[d] # Nil /\ documents[d].kind = t.kind /\ documents[d].lines = t.lines
      BY <1>1, <1>2, <2>3 DEF IInv, HandlerTarget
    <3>3. documents'[d] # Nil /\ documents'[d].kind = t.kind /\ documents'[d].lines = t.lines
      BY <1>2, <1>3, <3>2, CommittedDocuments
    <3>4. documents[d] \in Document
      BY <1>2, <1>3, <3>2 DEF TypeOK
    <3>5. documents'[d].status = NewStatus(t)
      BY <1>2, <1>3, <3>1, <3>4 DEF TypeOK, Document
    <3> QED
      BY <2>1, <3>3, <3>5
  <2> QED
    BY <2>2, <2>3
<1>5. ASSUME NEW p \in Products, NEW e \in Requests
      PROVE  LET net == SumAt(kardex'[p], PlacesOf(kardex'[p], e)) IN
             IF documents'[e] = Nil THEN net = 0
             ELSE /\ documents'[e].status = "pending" => net = 0
                  /\ documents'[e].status = "approved" => net = Effect(documents'[e].kind, documents'[e].lines)[p]
  <2>1. PICK x, y, c : /\ x = SumAt(kardex[p], PlacesOf(kardex[p], e))
                       /\ y = SumAt(kardex'[p], PlacesOf(kardex'[p], e))
                       /\ c = Moves(r, p)
    OBVIOUS
  <2>2. /\ y = x + (IF e = d THEN c ELSE 0) /\ c \in Int
    BY <1>1, <2>1, CommitSums, CommitWrites
  <2>3. IF documents[e] = Nil THEN x = 0
        ELSE /\ documents[e].status = "pending" => x = 0
             /\ documents[e].status = "approved" => x = Effect(documents[e].kind, documents[e].lines)[p]
    BY <1>2, <2>1 DEF Recorded
  <2>4. CASE e # d
    <3>1. x \in Int
      <4>1. kardex[p] \in Seq(EntryRow) /\ PlacesOf(kardex[p], e) \in SUBSET (DOMAIN kardex[p])
        BY DEF KInv, KardexShape, PlacesOf
      <4> QED
        BY <2>1, <4>1, SumAtIs
    <3>2. y = x
      BY <2>2, <2>4, <3>1
    <3> QED
      BY <1>4, <2>1, <2>3, <2>4, <3>2
  <2>5. CASE e = d /\ t.operation \in {"create", "approve"}
    <3>1. x = 0
      <4>1. CASE t.operation = "create"
        <5>1. documents[d] = Nil
          BY <1>1, <1>2, <1>3, <4>1 DEF IInv, HandlerTarget
        <5> QED
          BY <2>3, <2>5, <5>1
      <4>2. CASE t.operation = "approve"
        <5>1. documents[d] # Nil /\ documents[d].status = "pending"
          BY <1>1, <1>2, <4>2 DEF IInv, HandlerTarget, WorkInv, StillAsRead
        <5> QED
          BY <2>3, <2>5, <5>1
      <4> QED
        BY <2>5, <4>1, <4>2
    <3>2. y = c
      BY <2>2, <2>5, <3>1
    <3>3. NewStatus(t) \in {"pending", "approved"} /\ (NewStatus(t) = "approved" <=> MovesStock(t))
      BY <2>5 DEF NewStatus, MovesStock, InitialStatus
    <3>4. MovesStock(t) => c = Effect(t.kind, t.lines)[p]
      BY <1>1, <2>1, <2>5 DEF Moves, Signed, Adds, Effect
    <3>5. ~MovesStock(t) => c = 0
      BY <1>1, <2>1 DEF Moves
    <3>6. documents'[d].status = "pending" => y = 0
      BY <1>4, <3>2, <3>3, <3>5
    <3>7. documents'[d].status = "approved" => y = Effect(t.kind, t.lines)[p]
      BY <1>4, <3>2, <3>3, <3>4
    <3> QED
      BY <1>4, <2>1, <2>5, <3>6, <3>7
  <2>6. CASE e = d /\ t.operation \in {"cancel", "void"}
    <3>1. NewStatus(t) \in {"cancelled", "voided"}
      BY <2>6 DEF NewStatus
    <3> QED
      BY <1>4, <2>6, <3>1
  <2> QED
    BY <1>3, <2>4, <2>5, <2>6
<1> QED
  BY <1>5 DEF Recorded

\* A commit keeps the rest.  What another void has read of its own document
\* stands, and the balance it read is not asked for once a later entry is last.
LEMMA CommitKeeps ==
  ASSUME ~SameDocument, KInv, WorkInv', NEW r \in Requests, CommitKardex(r)
  PROVE  KInv'
<1>1. /\ WorkInv /\ IInv /\ TypeOK /\ KardexShape /\ AddedUp
      /\ NoIncrements /\ ReadStands /\ Balanced /\ Commit(r) /\ Active(r)
      /\ clock' = clock /\ begun' = begun
  BY DEF KInv, WorkInv, IInv, CommitKardex, Commit, Active, Steps
<1>2. /\ ~Active(r)'
      /\ \A q \in Requests \ {r} : pc'[q] = pc[q] /\ task'[q] = task[q] /\ reading'[q] = reading[q]
  BY <1>1 DEF TypeOK, KardexShape, Commit, CommitKardex, End, Active, Steps
<1>3. \A q \in Requests : Active(q)' => q # r /\ Active(q)
  BY <1>2 DEF Active
<1>4. \A q \in Requests, p \in Products : Works(q, p)' => q # r /\ Works(q, p)
  BY <1>2, <1>3 DEF Works
<1>5. KardexShape'
  <2>1. NothingRead \in [Products -> [balance : Int, net : Int]]
    BY DEF NothingRead
  <2>2. reading' \in [Requests -> [Products -> [balance : Int, net : Int]]]
    BY <1>1, <2>1 DEF KardexShape, CommitKardex
  <2>3. \A p \in Products : /\ kardex'[p] \in Seq(EntryRow)
                            /\ \A i \in 1..Len(kardex'[p]) : kardex'[p][i].at <= clock
    BY CommitSums
  <2>4. PICK k : k = kardex'
    OBVIOUS
  <2>5. k = [p \in Products |-> k[p]]
    BY <2>4 DEF CommitKardex
  <2>6. kardex' \in [Products -> Seq(EntryRow)]
    BY <2>3, <2>4, <2>5
  <2> QED
    BY <1>1, <2>2, <2>3, <2>6 DEF KardexShape
<1>6. NoIncrements'
  <2>1. \A q \in Requests : Active(q)' => task'[q].kind # "increment"
    BY <1>1, <1>2, <1>3 DEF NoIncrements
  <2>2. \A d \in Requests : documents'[d] # Nil => documents'[d].kind # "increment"
    BY <1>1, CommittedDocuments DEF NoIncrements
  <2> QED
    BY <2>1, <2>2 DEF NoIncrements
<1>7. ReadStands'
  <2> SUFFICES ASSUME NEW q \in Requests, NEW p \in Products, Works(q, p)',
                      task'[q].operation = "void", pc'[q] # "reverse"
               PROVE  /\ reading'[q][p].net = Effect(task'[q].kind, task'[q].lines)[p]
                      /\ (InOrder(p)' /\ LastWritten(p)' < begun'[q]) =>
                           reading'[q][p].balance = LastBalance(p)'
    BY DEF ReadStands
  <2>1. q # r /\ Works(q, p)
    BY <1>4
  <2>2. /\ reading[q][p].net = Effect(task[q].kind, task[q].lines)[p]
        /\ (InOrder(p) /\ LastWritten(p) < begun[q]) => reading[q][p].balance = LastBalance(p)
    BY <1>1, <1>2, <2>1 DEF ReadStands
  <2>3. CASE kardex'[p] = kardex[p]
    <3>1. /\ LastBalance(p)' = LastBalance(p) /\ LastWritten(p)' = LastWritten(p)
          /\ (InOrder(p)' <=> InOrder(p))
      BY <2>3 DEF LastBalance, LastWritten, InOrder
    <3> QED
      BY <1>1, <1>2, <2>1, <2>2, <3>1
  <2>4. CASE kardex'[p] = Append(kardex[p], EntryOf(r, p)) /\ EntryOf(r, p).written = clock
    <3>1. LastWritten(p)' = clock
      <4>1. PICK k, e : k = kardex[p] /\ e = EntryOf(r, p)
        OBVIOUS
      <4>2. k \in Seq(EntryRow)
        BY <1>1, <4>1 DEF KardexShape
      <4>3. Append(k, e)[Len(Append(k, e))] = e
        BY <4>2
      <4> QED
        BY <2>4, <4>1, <4>3 DEF LastWritten
    <3>2. ~(clock < begun[q])
      BY <1>1 DEF KardexShape
    <3> QED
      BY <1>1, <1>2, <2>1, <2>2, <3>1, <3>2
  <2> QED
    BY <2>3, <2>4, CommitWrites
<1>8. AddedUp' /\ Balanced'
  <2> SUFFICES ASSUME NEW p \in Products
               PROVE  /\ kardex'[p] # <<>> /\ SumAt(kardex'[p], 1..Len(kardex'[p])) = stock'[p]
                      /\ InOrder(p)' => LastBalance(p)' = stock'[p]
    BY DEF AddedUp, Balanced
  <2>1. /\ SumAt(kardex[p], 1..Len(kardex[p])) = stock[p]
        /\ InOrder(p) => LastBalance(p) = stock[p]
    BY <1>1 DEF AddedUp, Balanced
  <2>2. stock'[p] = stock[p] + Moves(r, p)
    BY CommitWrites
  <2>3. /\ kardex'[p] # <<>>
        /\ SumAt(kardex'[p], 1..Len(kardex'[p]))
             = SumAt(kardex[p], 1..Len(kardex[p])) + Moves(r, p)
        /\ InOrder(p)' => InOrder(p) /\ LastBalance(p)' = LastBalance(p) + Moves(r, p)
    BY CommitSums
  <2> QED
    BY <2>1, <2>2, <2>3
<1> QED
  BY <1>5, <1>6, <1>7, <1>8, CommitRecords DEF KInv

-----------------------------------------------------------------------------
(* The theorems.                                                           *)

\* Every step keeps the invariant.
LEMMA StepKInv ==
  ASSUME ~SameDocument, "increment" \notin Operations
  PROVE  KInv /\ [KardexNext]_<<vars, kardexVars>> => KInv'
<1> SUFFICES ASSUME KInv, [KardexNext]_<<vars, kardexVars>> PROVE KInv'
  OBVIOUS
<1>1. [Next]_vars
  BY DEF KardexNext, BeginKardex, ReadKardex, CommitKardex, OtherStep, Next, Step
<1>2. WorkInv'
  BY <1>1, NextWork DEF KInv
<1>3. CASE UNCHANGED <<vars, kardexVars>>
  <2>1. UNCHANGED <<documents, stock>> /\ pc' = pc /\ task' = task
    BY <1>3 DEF vars, committed, private
  <2>2. \A q \in Requests : Active(q)' <=> Active(q)
    BY <2>1 DEF Active
  <2> QED
    BY <1>2, <1>3, <2>1, <2>2, QuietKeeps
<1>4. ASSUME NEW r \in Requests,
             BeginKardex(r) \/ ReadKardex(r) \/ CommitKardex(r) \/ OtherStep(r)
      PROVE  KInv'
  BY <1>2, <1>4, BeginKeeps, ReadKeeps, CommitKeeps, OtherKeeps
<1> QED
  BY <1>3, <1>4 DEF KardexNext

\* The invariant of the Kardex.
THEOREM KardexInvariance ==
  ASSUME ~SameDocument, "increment" \notin Operations
  PROVE  KardexSpec => []KInv
BY InitKardex, StepKInv, PTL DEF KardexSpec

\* The movements recorded add up to the stock, whatever the requests write, undo
\* or lose and however they overlap (record_entry, reverse_document).
THEOREM MovementsAreStock ==
  ASSUME ~SameDocument, "increment" \notin Operations
  PROVE  KardexSpec => []MovementsAddUpToStock
<1>1. ASSUME KInv, NEW p \in Products
      PROVE  SumFunction([i \in DOMAIN kardex[p] |-> kardex[p][i].change]) = stock[p]
  <2>1. PICK k, D : k = kardex[p] /\ D = DOMAIN kardex[p]
    OBVIOUS
  <2>2. k \in Seq(EntryRow) /\ D \in SUBSET (DOMAIN k) /\ D = 1..Len(k)
    BY <1>1, <2>1 DEF KInv, KardexShape
  <2>3. SumFunction([i \in D |-> k[i].change]) = SumAt(k, D)
    BY <2>2, SumAtIs
  <2> QED
    BY <1>1, <2>1, <2>2, <2>3 DEF KInv, AddedUp
<1>2. KInv => MovementsAddUpToStock
  BY <1>1 DEF MovementsAddUpToStock
<1> QED
  BY <1>2, KardexInvariance, PTL

\* The balance the program finds for a product is its stock, as long as the
\* entries of the product were written in the order their requests started in
\* and reversals by requests that started after the rest was written.
THEOREM KardexFollowsStock ==
  ASSUME ~SameDocument, "increment" \notin Operations
  PROVE  KardexSpec => []KardexAgreesWithStock
<1>1. KInv => KardexAgreesWithStock
  BY CurrentIsLast DEF KInv, AddedUp, Balanced, KardexAgreesWithStock
<1> QED
  BY <1>1, KardexInvariance, PTL

=============================================================================
