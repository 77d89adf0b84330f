----------------------- MODULE InvoiceNumberingProofs -----------------------
(* Proofs about invoice creation for any finite number of requests.  First  *)
(* of InvoiceNumbering, the service on its own; then of InvoiceReset, with  *)
(* crashes, migrations and resets: the lock on the counter row keeps the    *)
(* numbers unique whatever the scripts do, and the counter follows the      *)
(* invoices unless creations overlap the two commands of reset-db.sh.       *)
EXTENDS InvoiceReset, FiniteSetTheorems, TLAPS

\* The counter counts the invoices, which carry exactly the numbers up to it.
Numbered ==
    /\ IsFiniteSet(invoices)
    /\ counter = Cardinality(invoices)
    /\ GapFree

\* One transaction at a time holds a number, the next one, and holds it from
\* the UPDATE to the end.
OneHolder ==
    /\ \A r \in Creates : number[r] \in {0, counter + 1}
    /\ \A r \in Creates : number[r] # 0 <=> pc[r] \in {"numbered", "inserted"}
    /\ \A r, q \in Creates : number[r] # 0 /\ number[q] # 0 => r = q

\* A row is there when its transaction has committed, and never before.
RowAfterCommit ==
    /\ \A r \in Creates : Register!Exists(r) => pc[r] \in {"committed"} \cup Replied
    /\ \A r \in Creates : pc[r] \in {"committed", "created"} => Register!Exists(r)

IInv == TypeOK /\ Numbered /\ OneHolder /\ RowAfterCommit

\* Steps that change neither table keep what is said of the tables.
LEMMA TablesIdle ==
    ASSUME Numbered, UNCHANGED <<counter, invoices>>
    PROVE  Numbered' /\ \A r \in Creates : Register!Exists(r)' <=> Register!Exists(r)
BY DEF Numbered, GapFree, NumbersUnique, Register!Exists

\* Ending a transaction without a commit.
LEMMA RollbackIInv ==
    ASSUME IInv, NEW r \in Creates, Rollback(r), pc[r] \in {"begun", "numbered", "inserted"}
    PROVE  IInv'
<1>1. /\ pc' = [pc EXCEPT ![r] = "error"] /\ number' = [number EXCEPT ![r] = 0]
      /\ UNCHANGED <<counter, invoices>>
  BY DEF Rollback, Goto, Release
<1>2. TypeOK'
  BY <1>1 DEF IInv, TypeOK, Places, Replied
<1>3. OneHolder'
  BY <1>1 DEF IInv, TypeOK, OneHolder
<1>4. RowAfterCommit'
  BY <1>1, TablesIdle DEF IInv, TypeOK, RowAfterCommit, Replied
<1> QED
  BY <1>1, <1>2, <1>3, <1>4, TablesIdle DEF IInv

\* A step that only moves the program counter of r, to or from no place that
\* tells of a number or of a committed row.
LEMMA MoveIInv ==
    ASSUME IInv, NEW r \in Creates, NEW place \in Places, Goto(r, place),
           UNCHANGED <<counter, invoices, number>>, pc[r] \notin Replied,
           pc[r] \in {"numbered", "inserted"} <=> place \in {"numbered", "inserted"},
           pc[r] = "committed" => place \in Replied,
           place \in {"committed", "created"} => pc[r] = "committed"
    PROVE  IInv'
<1>1. pc' = [pc EXCEPT ![r] = place]
  BY DEF Goto
<1>2. TypeOK'
  BY <1>1 DEF IInv, TypeOK
<1>3. OneHolder'
  BY <1>1 DEF IInv, TypeOK, OneHolder
<1>4. pc[r] = "committed" \/ ~Register!Exists(r) \/ place \in Replied
  BY DEF IInv, RowAfterCommit, Replied
<1> QED
  BY <1>1, <1>2, <1>3, <1>4, TablesIdle DEF IInv, TypeOK, RowAfterCommit, Replied

\* Taking a number: nobody else has one, so the holder stays the only one.
LEMMA TakeIInv ==
    ASSUME IInv, NEW r \in Creates, TakeNumber(r)
    PROVE  IInv'
<1>1. /\ pc' = [pc EXCEPT ![r] = "numbered"]
      /\ number' = [number EXCEPT ![r] = counter + 1]
      /\ UNCHANGED <<counter, invoices>>
      /\ pc[r] = "begun"
      /\ \A q \in Creates : number[q] = 0
  BY DEF TakeNumber, Goto, CounterLocked
<1>2. counter \in Nat
  BY DEF TakeNumber, IInv, TypeOK
<1>3. TypeOK'
  BY <1>1, <1>2 DEF IInv, TypeOK, Places
<1>4. OneHolder'
  BY <1>1, <1>2 DEF IInv, TypeOK, OneHolder
<1>5. RowAfterCommit'
  BY <1>1, TablesIdle DEF IInv, TypeOK, RowAfterCommit, Replied
<1> QED
  BY <1>1, <1>3, <1>4, <1>5, TablesIdle DEF IInv

\* What the tables are after a commit, in terms of the register.
LEMMA CommitTables ==
    ASSUME IInv, NEW r \in Creates, Commit(r)
    PROVE  /\ counter' = Cardinality(invoices) + 1
           /\ invoices' = invoices \cup {Row(Cardinality(invoices) + 1, r)}
           /\ counter \in Nat /\ number[r] = counter + 1
           /\ ~Register!Exists(r)
           /\ \A q \in Creates : q # r => number[q] = 0
<1>1. pc[r] = "inserted" /\ number[r] # 0
  BY DEF Commit, IInv, OneHolder
<1>2. number[r] = counter + 1 /\ counter = Cardinality(invoices)
  BY <1>1 DEF IInv, OneHolder, Numbered
<1>3. counter \in Nat
  BY <1>2, FS_CardinalityType DEF IInv, Numbered
<1>4. ~Register!Exists(r)
  BY <1>1 DEF IInv, RowAfterCommit, Replied
<1>5. \A q \in Creates : q # r => number[q] = 0
  BY <1>1 DEF IInv, OneHolder
<1> QED
  BY <1>2, <1>3, <1>4, <1>5 DEF Commit

\* COMMIT adds the next number to both tables and frees the counter.
LEMMA CommitIInv ==
    ASSUME IInv, NEW r \in Creates, Commit(r)
    PROVE  IInv'
<1> DEFINE n == Cardinality(invoices)
           row == Row(n + 1, r)
<1>1. /\ counter' = n + 1 /\ counter = n /\ n \in Nat
      /\ invoices' = invoices \cup {row}
      /\ ~Register!Exists(r)
      /\ \A q \in Creates : q # r => number[q] = 0
  BY CommitTables DEF IInv, Numbered
<1>2. PICK place \in {"committed", "error"} :
        pc' = [pc EXCEPT ![r] = place] /\ number' = [number EXCEPT ![r] = 0]
  BY DEF Commit, Goto, Release
<1>3. TypeOK'
  BY <1>1, <1>2 DEF IInv, TypeOK, Places, Replied, Row
<1>4. Numbered'
  <2>1. row.number = n + 1 /\ row.by = r
    BY DEF Row
  <2>2. row \notin invoices
    BY <1>1, <2>1 DEF Register!Exists
  <2>3. IsFiniteSet(invoices') /\ Cardinality(invoices') = n + 1
    BY <1>1, <2>2, FS_AddElement DEF IInv, Numbered
  <2>4. \A other \in invoices : other.number \in 1..n
    BY DEF IInv, Numbered, GapFree
  <2>5. {other.number : other \in invoices'} = {other.number : other \in invoices} \cup {n + 1}
    BY <1>1, <2>1
  <2>6. {other.number : other \in invoices'} = 1..(n + 1)
    BY <1>1, <2>5 DEF IInv, Numbered, GapFree
  <2>7. \A x, y \in invoices' : x.number = y.number => x = y
    BY <1>1, <2>1, <2>4 DEF IInv, Numbered, GapFree, NumbersUnique
  <2> QED
    BY <1>1, <2>3, <2>6, <2>7 DEF Numbered, GapFree, NumbersUnique
<1>5. OneHolder'
  BY <1>1, <1>2 DEF IInv, TypeOK, OneHolder, Commit
<1>6. RowAfterCommit'
  <2>1. \A q \in Creates : Register!Exists(q)' <=> Register!Exists(q) \/ q = r
    <3>1. row.by = r
      BY DEF Row
    <3>2. \A q \in Creates :
            Register!Exists(q)' <=> \E other \in invoices \cup {row} : other.by = q
      BY <1>1 DEF Register!Exists
    <3> QED
      BY <3>1, <3>2 DEF Register!Exists
  <2> QED
    BY <1>2, <2>1 DEF IInv, TypeOK, RowAfterCommit, Replied
<1> QED
  BY <1>3, <1>4, <1>5, <1>6 DEF IInv

\* Every step keeps the invariant.
LEMMA NextIInv == IInv /\ [Next]_vars => IInv'
<1> SUFFICES ASSUME IInv, [Next]_vars PROVE IInv'
  OBVIOUS
<1>1. ASSUME NEW r \in Creates, Begin(r) \/ Step(r) \/ Abort(r) PROVE IInv'
  <2>1. CASE Begin(r)
    BY <2>1, MoveIInv DEF Begin, Places, Replied
  <2>2. CASE TakeNumber(r)
    BY <2>2, TakeIInv
  <2>3. CASE Abort(r)
    BY <2>3, RollbackIInv DEF Abort
  <2>4. CASE InsertInvoice(r)
    BY <2>4, MoveIInv DEF InsertInvoice, Places, Replied
  <2>5. CASE Commit(r)
    BY <2>5, CommitIInv
  <2>6. CASE Reread(r)
    BY <2>6, MoveIInv DEF Reread, Places, Replied
  <2> QED
    BY <1>1, <2>1, <2>2, <2>3, <2>4, <2>5, <2>6 DEF Step
<1>2. CASE UNCHANGED vars
  BY <1>2, TablesIdle DEF vars, IInv, TypeOK, OneHolder, RowAfterCommit
<1> QED
  BY <1>1, <1>2 DEF Next

\* Nothing is numbered at the start.
LEMMA InitIInv == Init => IInv
<1> SUFFICES ASSUME Init PROVE IInv
  OBVIOUS
<1>1. IsFiniteSet(invoices) /\ Cardinality(invoices) = 0
  BY FS_EmptySet DEF Init
<1>2. Numbered
  BY <1>1 DEF Init, Numbered, GapFree, NumbersUnique
<1> QED
  BY <1>2 DEF Init, IInv, TypeOK, OneHolder, RowAfterCommit, Places, Replied, Register!Exists

\* The inductive invariant holds of every behaviour.
THEOREM Inductive == Spec => []IInv
BY InitIInv, NextIInv, PTL DEF Spec

\* Type correctness of the creation transactions.
THEOREM TypeCorrect == Spec => []TypeOK
<1>1. IInv => TypeOK
  BY DEF IInv
<1> QED
  BY <1>1, Inductive, PTL

\* Committed invoices are numbered without gap or repetition, for any number of
\* concurrent creations and any failures.
THEOREM NumbersGapFree == Spec => []GapFree
<1>1. IInv => GapFree
  BY DEF IInv, Numbered
<1> QED
  BY <1>1, Inductive, PTL

\* Every step of a creation is a step of the register, or none of its business.
LEMMA StepRefines ==
    ASSUME IInv, [Next]_vars
    PROVE  [Register!Next]_<<invoices, Replies>>
<1>1. ASSUME NEW r \in Creates, invoices' = invoices, NEW place \in Places,
             pc' = [pc EXCEPT ![r] = place], pc[r] \notin Replied,
             place = "created" => Register!Exists(r)
      PROVE  [Register!Next]_<<invoices, Replies>>
  <2>1. CASE place \in Replied
    <3>1. Replies[r] = "none" /\ Replies' = [Replies EXCEPT ![r] = place]
      BY <1>1, <2>1 DEF IInv, TypeOK, Replies
    <3>2. Register!Reply(r)
      BY <1>1, <2>1, <3>1 DEF Register!Reply, Replied
    <3> QED
      BY <3>2 DEF Register!Next
  <2>2. CASE place \notin Replied
    <3>1. Replies' = Replies
      BY <1>1, <2>2 DEF IInv, TypeOK, Replies
    <3> QED
      BY <1>1, <3>1
  <2> QED
    BY <2>1, <2>2
<1>2. ASSUME NEW r \in Creates, Commit(r) PROVE Register!Next
  <2>1. PICK place \in {"committed", "error"} : pc' = [pc EXCEPT ![r] = place]
    BY <1>2 DEF Commit, Goto
  <2>2. pc[r] = "inserted"
    BY <1>2 DEF Commit
  <2>3. Replies[r] = "none"
    BY <2>2 DEF Replies, Replied
  <2>4. Replies' = Replies \/ Replies' = [Replies EXCEPT ![r] = "error"]
    BY <2>1, <2>2 DEF IInv, TypeOK, Replies, Replied
  <2> DEFINE n == Cardinality(invoices)
             row == Row(n + 1, r)
  <2>5. /\ invoices' = invoices \cup {row} /\ ~Register!Exists(r)
        /\ n \in Nat
    BY <1>2, CommitTables DEF IInv, Numbered
  <2>6. row.by = r /\ row.number - 1 = n
    BY <2>5 DEF Row
  <2>7. row \in invoices' \ invoices
    BY <2>5, <2>6 DEF Register!Exists
  <2>8. {other.number : other \in invoices} = 1..(row.number - 1)
    BY <2>6 DEF IInv, Numbered, GapFree
  <2>9. Register!Record(r)
    BY <2>3, <2>4, <2>5, <2>6, <2>7, <2>8 DEF Register!Record
  <2> QED
    BY <2>9 DEF Register!Next
<1>3. ASSUME NEW r \in Creates, Begin(r) \/ Step(r) \/ Abort(r)
      PROVE  [Register!Next]_<<invoices, Replies>>
  <2>1. CASE Begin(r)
    BY <2>1, <1>1 DEF Begin, Goto, Places, Replied
  <2>2. CASE TakeNumber(r) \/ InsertInvoice(r)
    BY <2>2, <1>1 DEF TakeNumber, InsertInvoice, Goto, Places, Replied
  <2>3. CASE Abort(r)
    BY <2>3, <1>1 DEF Abort, Rollback, Goto, Places, Replied
  <2>4. CASE Commit(r)
    BY <2>4, <1>2
  <2>5. CASE Reread(r)
    <3>1. Register!Exists(r)
      BY <2>5 DEF Reread, IInv, RowAfterCommit
    <3> QED
      BY <2>5, <3>1, <1>1 DEF Reread, Goto, Places, Replied
  <2> QED
    BY <1>3, <2>1, <2>2, <2>3, <2>4, <2>5 DEF Step
<1>4. CASE UNCHANGED vars
  BY <1>4 DEF vars, Replies
<1> QED
  BY <1>3, <1>4 DEF Next

\* Creation implements the register for any number of requests.
THEOREM Refinement == Spec => ImplementsRegister
<1>1. Init => Register!Init
  BY DEF Init, Register!Init, Replies, Replied
<1>2. IInv /\ [Next]_vars => [Register!Next]_<<invoices, Replies>>
  BY StepRefines
<1> QED
  BY <1>1, <1>2, Inductive, PTL DEF Spec, ImplementsRegister, Register!Spec

-----------------------------------------------------------------------------
\* Creation next to the reset scripts, crashes and migrations.

\* The types of both.
Types == TypeOK /\ script \in {"idle", "truncated"} /\ raced \in BOOLEAN

\* Whoever holds a number holds the lock, so there is one holder at most.
LockHolder ==
    /\ \A r \in Creates : number[r] # 0 <=> pc[r] \in {"numbered", "inserted"}
    /\ \A r, q \in Creates : number[r] # 0 /\ number[q] # 0 => r = q

\* A number that passed the UNIQUE constraint stays free until its commit.
InsertedIsFree ==
    \A r \in Creates : pc[r] = "inserted" => \A row \in invoices : row.number # number[r]

\* Away from the scripts, a number that is held is the next one.
HeldIsNext ==
    script = "idle" /\ ~raced =>
        \A r \in Creates : number[r] # 0 => counter # NoRow /\ number[r] = counter + 1

\* Between its two commands, an undisturbed reset-db.sh finds nothing.
NothingBetween ==
    script = "truncated" /\ ~raced => invoices = {} /\ \A r \in Creates : number[r] = 0

UniqueInv == LockHolder /\ InsertedIsFree /\ NumbersUnique
FollowInv == HeldIsNext /\ NothingBetween /\ CounterFollowsInvoices
ResetInv == Types /\ UniqueInv /\ FollowInv

-----------------------------------------------------------------------------
\* The transaction of r ends without a commit.
Undone(r) == pc[r] \in {"begun", "numbered", "inserted"} /\ Rollback(r) /\ History

\* Every step keeps the types.
LEMMA TypesStep ==
    ASSUME Types, [ResetNext]_resetVars
    PROVE  Types'
<1>1. ASSUME NEW r \in Creates, Begin(r), History
      PROVE  Types'
  BY <1>1 DEF Types, TypeOK, Places, Replied, NoRow, Begin, Goto, History
<1>2. ASSUME NEW r \in Creates, TakeNumber(r), History
      PROVE  Types'
  BY <1>2 DEF Types, TypeOK, Places, Replied, NoRow, TakeNumber, Goto, CounterLocked, History
<1>3. ASSUME NEW r \in Creates, InsertInvoice(r), History
      PROVE  Types'
  BY <1>3 DEF Types, TypeOK, Places, Replied, NoRow, InsertInvoice, Goto, History
<1>4. ASSUME NEW r \in Creates, Commit(r), History
      PROVE  Types'
  BY <1>4 DEF Types, TypeOK, Places, Replied, NoRow, Commit, Goto, Release, Row, History
<1>5. ASSUME NEW r \in Creates, Reread(r), History
      PROVE  Types'
  BY <1>5 DEF Types, TypeOK, Places, Replied, NoRow, Reread, Goto, History
<1>6. ASSUME NEW r \in Creates, Undone(r)
      PROVE  Types'
  BY <1>6 DEF Types, TypeOK, Places, Replied, NoRow, Undone, Rollback, Goto, Release, History
<1>7. ASSUME TruncateInvoices PROVE Types'
  BY <1>7 DEF Types, TypeOK, Places, Replied, NoRow, TruncateInvoices, Open
<1>8. ASSUME ZeroCounter PROVE Types'
  BY <1>8 DEF Types, TypeOK, Places, Replied, NoRow, ZeroCounter, CounterLocked
<1>9. ASSUME TruncateAll PROVE Types'
  BY <1>9 DEF Types, TypeOK, Places, Replied, NoRow, TruncateAll, CounterLocked
<1>10. ASSUME Restart PROVE Types'
  BY <1>10 DEF Types, TypeOK, Places, Replied, NoRow, Restart, Die, Open
<1>11. ASSUME UNCHANGED resetVars PROVE Types'
  BY <1>11 DEF Types, TypeOK, Places, Replied, NoRow, resetVars, vars
<1> QED BY <1>1, <1>2, <1>3, <1>4, <1>5, <1>6, <1>7, <1>8, <1>9, <1>10, <1>11
  DEF ResetNext, Create, Next, Step, Abort, FindNoCounter, NumberTaken, Undone

\* Every step keeps the numbers unique.
LEMMA UniqueStep ==
    ASSUME Types, UniqueInv, [ResetNext]_resetVars
    PROVE  UniqueInv'
<1>1. ASSUME NEW r \in Creates, Begin(r), History
      PROVE  UniqueInv'
  <2>1. LockHolder'
    BY <1>1 DEF UniqueInv, LockHolder, Types, TypeOK, NoRow,
              Begin, Goto, History
  <2>2. InsertedIsFree'
    BY <1>1 DEF UniqueInv, LockHolder, InsertedIsFree, Types, TypeOK,
              Begin, Goto, History
  <2>3. NumbersUnique'
    BY <1>1 DEF UniqueInv, InsertedIsFree, NumbersUnique, Types, TypeOK,
              Begin, Goto, History
  <2> QED BY <2>1, <2>2, <2>3 DEF UniqueInv
<1>2. ASSUME NEW r \in Creates, TakeNumber(r), History
      PROVE  UniqueInv'
  <2>1. LockHolder'
    BY <1>2 DEF UniqueInv, LockHolder, Types, TypeOK, NoRow,
              TakeNumber, Goto, CounterLocked, History
  <2>2. InsertedIsFree'
    BY <1>2 DEF UniqueInv, LockHolder, InsertedIsFree, Types, TypeOK,
              TakeNumber, Goto, CounterLocked, History
  <2>3. NumbersUnique'
    BY <1>2 DEF UniqueInv, InsertedIsFree, NumbersUnique, Types, TypeOK,
              TakeNumber, Goto, CounterLocked, History
  <2> QED BY <2>1, <2>2, <2>3 DEF UniqueInv
<1>3. ASSUME NEW r \in Creates, InsertInvoice(r), History
      PROVE  UniqueInv'
  <2>1. LockHolder'
    BY <1>3 DEF UniqueInv, LockHolder, Types, TypeOK, NoRow,
              InsertInvoice, Goto, History
  <2>2. InsertedIsFree'
    BY <1>3 DEF UniqueInv, LockHolder, InsertedIsFree, Types, TypeOK,
              InsertInvoice, Goto, History
  <2>3. NumbersUnique'
    BY <1>3 DEF UniqueInv, InsertedIsFree, NumbersUnique, Types, TypeOK,
              InsertInvoice, Goto, History
  <2> QED BY <2>1, <2>2, <2>3 DEF UniqueInv
<1>4. ASSUME NEW r \in Creates, Commit(r), History
      PROVE  UniqueInv'
  <2>1. LockHolder'
    BY <1>4 DEF UniqueInv, LockHolder, Types, TypeOK, NoRow,
              Commit, Goto, Release, Row, History
  <2>2. InsertedIsFree'
    BY <1>4 DEF UniqueInv, LockHolder, InsertedIsFree, Types, TypeOK,
              Commit, Goto, Release, Row, History
  <2>3. NumbersUnique'
    BY <1>4 DEF UniqueInv, InsertedIsFree, NumbersUnique, Types, TypeOK,
              Commit, Goto, Release, Row, History
  <2> QED BY <2>1, <2>2, <2>3 DEF UniqueInv
<1>5. ASSUME NEW r \in Creates, Reread(r), History
      PROVE  UniqueInv'
  <2>1. LockHolder'
    BY <1>5 DEF UniqueInv, LockHolder, Types, TypeOK, NoRow,
              Reread, Goto, History
  <2>2. InsertedIsFree'
    BY <1>5 DEF UniqueInv, LockHolder, InsertedIsFree, Types, TypeOK,
              Reread, Goto, History
  <2>3. NumbersUnique'
    BY <1>5 DEF UniqueInv, InsertedIsFree, NumbersUnique, Types, TypeOK,
              Reread, Goto, History
  <2> QED BY <2>1, <2>2, <2>3 DEF UniqueInv
<1>6. ASSUME NEW r \in Creates, Undone(r)
      PROVE  UniqueInv'
  <2>1. LockHolder'
    BY <1>6 DEF UniqueInv, LockHolder, Types, TypeOK, NoRow,
              Undone, Rollback, Goto, Release, History
  <2>2. InsertedIsFree'
    BY <1>6 DEF UniqueInv, LockHolder, InsertedIsFree, Types, TypeOK,
              Undone, Rollback, Goto, Release, History
  <2>3. NumbersUnique'
    BY <1>6 DEF UniqueInv, InsertedIsFree, NumbersUnique, Types, TypeOK,
              Undone, Rollback, Goto, Release, History
  <2> QED BY <2>1, <2>2, <2>3 DEF UniqueInv
<1>7. ASSUME TruncateInvoices PROVE UniqueInv'
  <2>1. LockHolder'
    BY <1>7 DEF UniqueInv, LockHolder, Types, TypeOK, NoRow,
              TruncateInvoices, Open
  <2>2. InsertedIsFree'
    BY <1>7 DEF UniqueInv, LockHolder, InsertedIsFree, Types, TypeOK,
              TruncateInvoices, Open
  <2>3. NumbersUnique'
    BY <1>7 DEF UniqueInv, InsertedIsFree, NumbersUnique, Types, TypeOK,
              TruncateInvoices, Open
  <2> QED BY <2>1, <2>2, <2>3 DEF UniqueInv
<1>8. ASSUME ZeroCounter PROVE UniqueInv'
  <2>1. LockHolder'
    BY <1>8 DEF UniqueInv, LockHolder, Types, TypeOK, NoRow,
              ZeroCounter, CounterLocked
  <2>2. InsertedIsFree'
    BY <1>8 DEF UniqueInv, LockHolder, InsertedIsFree, Types, TypeOK,
              ZeroCounter, CounterLocked
  <2>3. NumbersUnique'
    BY <1>8 DEF UniqueInv, InsertedIsFree, NumbersUnique, Types, TypeOK,
              ZeroCounter, CounterLocked
  <2> QED BY <2>1, <2>2, <2>3 DEF UniqueInv
<1>9. ASSUME TruncateAll PROVE UniqueInv'
  <2>1. LockHolder'
    BY <1>9 DEF UniqueInv, LockHolder, Types, TypeOK, NoRow,
              TruncateAll, CounterLocked
  <2>2. InsertedIsFree'
    BY <1>9 DEF UniqueInv, LockHolder, InsertedIsFree, Types, TypeOK,
              TruncateAll, CounterLocked
  <2>3. NumbersUnique'
    BY <1>9 DEF UniqueInv, InsertedIsFree, NumbersUnique, Types, TypeOK,
              TruncateAll, CounterLocked
  <2> QED BY <2>1, <2>2, <2>3 DEF UniqueInv
<1>10. ASSUME Restart PROVE UniqueInv'
  <2>1. LockHolder'
    BY <1>10 DEF UniqueInv, LockHolder, Types, TypeOK, NoRow,
              Restart, Die, Open
  <2>2. InsertedIsFree'
    BY <1>10 DEF UniqueInv, LockHolder, InsertedIsFree, Types, TypeOK,
              Restart, Die, Open
  <2>3. NumbersUnique'
    BY <1>10 DEF UniqueInv, InsertedIsFree, NumbersUnique, Types, TypeOK,
              Restart, Die, Open
  <2> QED BY <2>1, <2>2, <2>3 DEF UniqueInv
<1>11. ASSUME UNCHANGED resetVars PROVE UniqueInv'
  <2>1. LockHolder'
    BY <1>11 DEF UniqueInv, LockHolder, Types, TypeOK, NoRow,
              resetVars, vars
  <2>2. InsertedIsFree'
    BY <1>11 DEF UniqueInv, LockHolder, InsertedIsFree, Types, TypeOK,
              resetVars, vars
  <2>3. NumbersUnique'
    BY <1>11 DEF UniqueInv, InsertedIsFree, NumbersUnique, Types, TypeOK,
              resetVars, vars
  <2> QED BY <2>1, <2>2, <2>3 DEF UniqueInv
<1> QED BY <1>1, <1>2, <1>3, <1>4, <1>5, <1>6, <1>7, <1>8, <1>9, <1>10, <1>11
  DEF ResetNext, Create, Next, Step, Abort, FindNoCounter, NumberTaken, Undone

\* Every step keeps the counter behind the invoices, or knows why not.
LEMMA FollowStep ==
    ASSUME ResetInv, [ResetNext]_resetVars
    PROVE  FollowInv'
<1>1. ASSUME NEW r \in Creates, Begin(r), History
      PROVE  FollowInv'
  <2>1. HeldIsNext'
    BY <1>1 DEF ResetInv, FollowInv, UniqueInv, LockHolder, HeldIsNext, Types, TypeOK,
              Begin, Goto, History
  <2>2. NothingBetween'
    BY <1>1 DEF ResetInv, FollowInv, UniqueInv, LockHolder, NothingBetween, Types, TypeOK,
              Begin, Goto, History
  <2>3. CounterFollowsInvoices'
    BY <1>1 DEF ResetInv, FollowInv, HeldIsNext, NothingBetween, CounterFollowsInvoices, Types, TypeOK, NoRow,
              Begin, Goto, History
  <2> QED BY <2>1, <2>2, <2>3 DEF FollowInv
<1>2. ASSUME NEW r \in Creates, TakeNumber(r), History
      PROVE  FollowInv'
  <2>1. HeldIsNext'
    BY <1>2 DEF ResetInv, FollowInv, UniqueInv, LockHolder, HeldIsNext, Types, TypeOK,
              TakeNumber, Goto, CounterLocked, History
  <2>2. NothingBetween'
    BY <1>2 DEF ResetInv, FollowInv, UniqueInv, LockHolder, NothingBetween, Types, TypeOK,
              TakeNumber, Goto, CounterLocked, History
  <2>3. CounterFollowsInvoices'
    BY <1>2 DEF ResetInv, FollowInv, HeldIsNext, NothingBetween, CounterFollowsInvoices, Types, TypeOK, NoRow,
              TakeNumber, Goto, CounterLocked, History
  <2> QED BY <2>1, <2>2, <2>3 DEF FollowInv
<1>3. ASSUME NEW r \in Creates, InsertInvoice(r), History
      PROVE  FollowInv'
  <2>1. HeldIsNext'
    BY <1>3 DEF ResetInv, FollowInv, UniqueInv, LockHolder, HeldIsNext, Types, TypeOK,
              InsertInvoice, Goto, History
  <2>2. NothingBetween'
    BY <1>3 DEF ResetInv, FollowInv, UniqueInv, LockHolder, NothingBetween, Types, TypeOK,
              InsertInvoice, Goto, History
  <2>3. CounterFollowsInvoices'
    BY <1>3 DEF ResetInv, FollowInv, HeldIsNext, NothingBetween, CounterFollowsInvoices, Types, TypeOK, NoRow,
              InsertInvoice, Goto, History
  <2> QED BY <2>1, <2>2, <2>3 DEF FollowInv
<1>4. ASSUME NEW r \in Creates, Commit(r), History
      PROVE  FollowInv'
  <2>1. HeldIsNext'
    BY <1>4 DEF ResetInv, FollowInv, UniqueInv, LockHolder, HeldIsNext, Types, TypeOK,
              Commit, Goto, Release, Row, History
  <2>2. NothingBetween'
    BY <1>4 DEF ResetInv, FollowInv, UniqueInv, LockHolder, NothingBetween, Types, TypeOK,
              Commit, Goto, Release, Row, History
  <2>3. CounterFollowsInvoices'
    <3>1. SUFFICES ASSUME script = "idle", ~raced
                   PROVE  counter' # NoRow /\ {row.number : row \in invoices'} = 1..counter'
      BY <1>4 DEF CounterFollowsInvoices, Commit, History
    <3>2. pc[r] = "inserted" /\ number[r] # 0
      BY <1>4 DEF Commit, ResetInv, UniqueInv, LockHolder
    <3>3. counter \in Nat /\ counter' = counter + 1
      BY <1>4, <3>1, <3>2 DEF ResetInv, FollowInv, HeldIsNext, Types, TypeOK, Commit
    <3>4. {row.number : row \in invoices} = 1..counter
      BY <3>1, <3>3 DEF ResetInv, FollowInv, CounterFollowsInvoices, NoRow
    <3>5. invoices' = invoices \cup {Row(counter + 1, r)} /\ Row(counter + 1, r).number = counter + 1
      BY <1>4, <3>3 DEF Commit, Row
    <3>6. {row.number : row \in invoices'} = {row.number : row \in invoices} \cup {counter + 1}
      BY <3>5
    <3>7. (1..counter) \cup {counter + 1} = 1..(counter + 1) /\ counter + 1 # NoRow
      BY <3>3 DEF NoRow
    <3> QED BY <3>3, <3>4, <3>6, <3>7
  <2> QED BY <2>1, <2>2, <2>3 DEF FollowInv
<1>5. ASSUME NEW r \in Creates, Reread(r), History
      PROVE  FollowInv'
  <2>1. HeldIsNext'
    BY <1>5 DEF ResetInv, FollowInv, UniqueInv, LockHolder, HeldIsNext, Types, TypeOK,
              Reread, Goto, History
  <2>2. NothingBetween'
    BY <1>5 DEF ResetInv, FollowInv, UniqueInv, LockHolder, NothingBetween, Types, TypeOK,
              Reread, Goto, History
  <2>3. CounterFollowsInvoices'
    BY <1>5 DEF ResetInv, FollowInv, HeldIsNext, NothingBetween, CounterFollowsInvoices, Types, TypeOK, NoRow,
              Reread, Goto, History
  <2> QED BY <2>1, <2>2, <2>3 DEF FollowInv
<1>6. ASSUME NEW r \in Creates, Undone(r)
      PROVE  FollowInv'
  <2>1. HeldIsNext'
    BY <1>6 DEF ResetInv, FollowInv, UniqueInv, LockHolder, HeldIsNext, Types, TypeOK,
              Undone, Rollback, Goto, Release, History
  <2>2. NothingBetween'
    BY <1>6 DEF ResetInv, FollowInv, UniqueInv, LockHolder, NothingBetween, Types, TypeOK,
              Undone, Rollback, Goto, Release, History
  <2>3. CounterFollowsInvoices'
    BY <1>6 DEF ResetInv, FollowInv, HeldIsNext, NothingBetween, CounterFollowsInvoices, Types, TypeOK, NoRow,
              Undone, Rollback, Goto, Release, History
  <2> QED BY <2>1, <2>2, <2>3 DEF FollowInv
<1>7. ASSUME TruncateInvoices PROVE FollowInv'
  <2>1. HeldIsNext'
    BY <1>7 DEF ResetInv, FollowInv, UniqueInv, LockHolder, HeldIsNext, Types, TypeOK,
              TruncateInvoices, Open
  <2>2. NothingBetween'
    BY <1>7 DEF ResetInv, FollowInv, UniqueInv, LockHolder, NothingBetween, Types, TypeOK,
              TruncateInvoices, Open
  <2>3. CounterFollowsInvoices'
    BY <1>7 DEF ResetInv, FollowInv, HeldIsNext, NothingBetween, CounterFollowsInvoices, Types, TypeOK, NoRow,
              TruncateInvoices, Open
  <2> QED BY <2>1, <2>2, <2>3 DEF FollowInv
<1>8. ASSUME ZeroCounter PROVE FollowInv'
  <2>1. HeldIsNext'
    BY <1>8 DEF ResetInv, FollowInv, UniqueInv, LockHolder, HeldIsNext, Types, TypeOK,
              ZeroCounter, CounterLocked
  <2>2. NothingBetween'
    BY <1>8 DEF ResetInv, FollowInv, UniqueInv, LockHolder, NothingBetween, Types, TypeOK,
              ZeroCounter, CounterLocked
  <2>3. CounterFollowsInvoices'
    BY <1>8 DEF ResetInv, FollowInv, HeldIsNext, NothingBetween, CounterFollowsInvoices, Types, TypeOK, NoRow,
              ZeroCounter, CounterLocked
  <2> QED BY <2>1, <2>2, <2>3 DEF FollowInv
<1>9. ASSUME TruncateAll PROVE FollowInv'
  <2>1. HeldIsNext'
    BY <1>9 DEF ResetInv, FollowInv, UniqueInv, LockHolder, HeldIsNext, Types, TypeOK,
              TruncateAll, CounterLocked
  <2>2. NothingBetween'
    BY <1>9 DEF ResetInv, FollowInv, UniqueInv, LockHolder, NothingBetween, Types, TypeOK,
              TruncateAll, CounterLocked
  <2>3. CounterFollowsInvoices'
    BY <1>9 DEF ResetInv, FollowInv, HeldIsNext, NothingBetween, CounterFollowsInvoices, Types, TypeOK, NoRow,
              TruncateAll, CounterLocked
  <2> QED BY <2>1, <2>2, <2>3 DEF FollowInv
<1>10. ASSUME Restart PROVE FollowInv'
  <2>1. HeldIsNext'
    BY <1>10 DEF ResetInv, FollowInv, UniqueInv, LockHolder, HeldIsNext, Types, TypeOK,
              Restart, Die, Open
  <2>2. NothingBetween'
    BY <1>10 DEF ResetInv, FollowInv, UniqueInv, LockHolder, NothingBetween, Types, TypeOK,
              Restart, Die, Open
  <2>3. CounterFollowsInvoices'
    BY <1>10 DEF ResetInv, FollowInv, HeldIsNext, NothingBetween, CounterFollowsInvoices, Types, TypeOK, NoRow,
              Restart, Die, Open
  <2> QED BY <2>1, <2>2, <2>3 DEF FollowInv
<1>11. ASSUME UNCHANGED resetVars PROVE FollowInv'
  <2>1. HeldIsNext'
    BY <1>11 DEF ResetInv, FollowInv, UniqueInv, LockHolder, HeldIsNext, Types, TypeOK,
              resetVars, vars
  <2>2. NothingBetween'
    BY <1>11 DEF ResetInv, FollowInv, UniqueInv, LockHolder, NothingBetween, Types, TypeOK,
              resetVars, vars
  <2>3. CounterFollowsInvoices'
    BY <1>11 DEF ResetInv, FollowInv, HeldIsNext, NothingBetween, CounterFollowsInvoices, Types, TypeOK, NoRow,
              resetVars, vars
  <2> QED BY <2>1, <2>2, <2>3 DEF FollowInv
<1> QED BY <1>1, <1>2, <1>3, <1>4, <1>5, <1>6, <1>7, <1>8, <1>9, <1>10, <1>11
  DEF ResetNext, Create, Next, Step, Abort, FindNoCounter, NumberTaken, Undone

-----------------------------------------------------------------------------
\* Nothing has been numbered yet.
LEMMA InitInv == ResetInit => ResetInv
<1> SUFFICES ASSUME ResetInit PROVE ResetInv
  OBVIOUS
<1> USE DEF ResetInit, Init
<1>1. Types
  BY DEF Types, TypeOK, Places
<1>2. UniqueInv
  BY DEF UniqueInv, LockHolder, InsertedIsFree, NumbersUnique
<1>3. HeldIsNext /\ NothingBetween
  BY DEF HeldIsNext, NothingBetween
<1>4. CounterFollowsInvoices
  <2>1. {row.number : row \in invoices} = {} /\ 1..counter = {} /\ counter # NoRow
    BY DEF NoRow
  <2> QED BY <2>1 DEF CounterFollowsInvoices
<1> QED BY <1>1, <1>2, <1>3, <1>4 DEF ResetInv, FollowInv

\* The inductive invariant holds of every reachable state.
THEOREM Invariance == ResetSpec => []ResetInv
<1>1. ResetInv /\ [ResetNext]_resetVars => ResetInv'
  BY TypesStep, UniqueStep, FollowStep DEF ResetInv
<1> QED BY <1>1, InitInv, PTL DEF ResetSpec

\* No two invoices ever carry the same number, through crashes, migrations and
\* resets that race with creations, for any number of creations.
THEOREM UniqueThroughResets == ResetSpec => []NumbersUnique
<1>1. ResetInv => NumbersUnique
  BY DEF ResetInv, UniqueInv
<1> QED BY <1>1, Invariance, PTL

\* The counter neither falls behind the invoices nor runs ahead of them, unless
\* creations overlap the two commands of reset-db.sh.
THEOREM CounterFollows == ResetSpec => []CounterFollowsInvoices
<1>1. ResetInv => CounterFollowsInvoices
  BY DEF ResetInv, FollowInv
<1> QED BY <1>1, Invariance, PTL
=============================================================================
