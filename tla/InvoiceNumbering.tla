------------------------- MODULE InvoiceNumbering -------------------------
(* InvoiceRepository.Create: each request runs one transaction that takes   *)
(* the next number from the counter row, inserts the invoice and its items  *)
(* and commits.  The UPDATE of the counter locks its row until the          *)
(* transaction ends, so the others wait there.                              *)
EXTENDS Integers, FiniteSets

CONSTANT Creates      \* executions of POST /api/invoices with a valid body

ASSUME CreatesAssumption == IsFiniteSet(Creates)

VARIABLES counter,    \* committed next_number of row id = 1, or NoRow
          invoices,   \* committed rows of table invoices
          pc,         \* [Creates -> Places]
          number      \* [Creates -> Nat]: number taken and not committed, or 0

vars == <<counter, invoices, pc, number>>

NoRow == -1

Replied == {"created", "error"}
Places == {"idle", "begun", "numbered", "inserted", "committed"} \cup Replied

Row(n, r) == [number |-> n, by |-> r]

Init ==
    /\ counter = 0
    /\ invoices = {}
    /\ pc = [r \in Creates |-> "idle"]
    /\ number = [r \in Creates |-> 0]

-----------------------------------------------------------------------------
Goto(r, place) == pc' = [pc EXCEPT ![r] = place]

\* The transaction that has updated the counter holds the lock on its row.
CounterLocked == \E r \in Creates : number[r] # 0

\* The transaction ends: its lock and its uncommitted rows are gone.
Release(r) == number' = [number EXCEPT ![r] = 0]

\* Mutant: the transaction is left open on an error path.
RollbackForgotten(r) ==
    /\ Goto(r, "error")
    /\ UNCHANGED <<counter, invoices, number>>

\* Mutant: a failed creation gives a number back, also one it never took.
RollbackGivingBack(r) ==
    /\ Goto(r, "error")
    /\ Release(r)
    /\ counter' = counter - 1
    /\ UNCHANGED invoices

Rollback(r) ==
    /\ Goto(r, "error")
    /\ Release(r)
    /\ UNCHANGED <<counter, invoices>>

\* The request is valid and the transaction begins.
Begin(r) ==
    /\ pc[r] = "idle"
    /\ Goto(r, "begun")
    /\ UNCHANGED <<counter, invoices, number>>

\* Mutant: the counter is updated outside the transaction, like a sequence.
TakeNumberAutocommit(r) ==
    /\ pc[r] = "begun"
    /\ counter # NoRow /\ ~CounterLocked
    /\ counter' = counter + 1
    /\ number' = [number EXCEPT ![r] = counter + 1]
    /\ Goto(r, "numbered")
    /\ UNCHANGED invoices

\* Mutant: the counter is read without a lock.
TakeNumberUnlocked(r) ==
    /\ pc[r] = "begun"
    /\ counter # NoRow
    /\ number' = [number EXCEPT ![r] = counter + 1]
    /\ Goto(r, "numbered")
    /\ UNCHANGED <<counter, invoices>>

\* UPDATE invoice_counters SET next_number = next_number + 1 ... RETURNING
TakeNumber(r) ==
    /\ pc[r] = "begun"
    /\ counter # NoRow /\ ~CounterLocked
    /\ number' = [number EXCEPT ![r] = counter + 1]
    /\ Goto(r, "numbered")
    /\ UNCHANGED <<counter, invoices>>

\* Mutant: no UNIQUE constraint on the number.
InsertInvoiceUnchecked(r) ==
    /\ pc[r] = "numbered"
    /\ Goto(r, "inserted")
    /\ UNCHANGED <<counter, invoices, number>>

\* INSERT of the invoice, under the UNIQUE constraint on its number, and of its
\* items.
InsertInvoice(r) ==
    /\ pc[r] = "numbered"
    /\ \A row \in invoices : row.number # number[r]
    /\ Goto(r, "inserted")
    /\ UNCHANGED <<counter, invoices, number>>

\* Number and invoice become visible together.  The acknowledgement may be
\* lost, and then the caller hears of an error.
Commit(r) ==
    /\ pc[r] = "inserted"
    /\ counter' = number[r]
    /\ invoices' = invoices \cup {Row(number[r], r)}
    /\ Goto(r, "committed") \/ Goto(r, "error")
    /\ Release(r)

\* GetByID after the commit, whose error is the caller's answer too.
Reread(r) ==
    /\ pc[r] = "committed"
    /\ Goto(r, "created") \/ Goto(r, "error")
    /\ UNCHANGED <<counter, invoices, number>>

\* A statement fails, the context ends or the process dies before the commit.
Abort(r) ==
    /\ pc[r] \in {"begun", "numbered", "inserted"}
    /\ Rollback(r)

\* A missing counter row and a number that is taken need a reset: InvoiceReset.
Step(r) == TakeNumber(r) \/ InsertInvoice(r) \/ Commit(r) \/ Reread(r)

Next == \E r \in Creates : Begin(r) \/ Step(r) \/ Abort(r)

Spec == Init /\ [][Next]_vars

\* A transaction that has begun goes on, and a released lock wakes a waiter.
FairSpec == Spec /\ \A r \in Creates : WF_vars(Step(r))

-----------------------------------------------------------------------------
TypeOK ==
    /\ counter \in Nat \cup {NoRow}
    /\ invoices \subseteq [number : Nat, by : Creates]
    /\ pc \in [Creates -> Places]
    /\ number \in [Creates -> Nat]

\* No two invoices carry the same number, whatever the counter says.
NumbersUnique == \A row, other \in invoices : row.number = other.number => row = other

\* "gap-free sequential number": whatever transactions fail or overlap, the
\* committed invoices carry each number from 1 to their count exactly once.
GapFree ==
    /\ {row.number : row \in invoices} = 1..Cardinality(invoices)
    /\ NumbersUnique

Replies == [r \in Creates |-> IF pc[r] \in Replied THEN pc[r] ELSE "none"]

Register == INSTANCE InvoiceRegister WITH reply <- Replies

\* The transactions implement the register: an invoice gets the number after
\* the last committed one, and "created" is answered for an invoice that exists.
ImplementsRegister == Register!Spec

\* A creation that has begun is answered, however many wait for the counter.
EveryCreateReplied == \A r \in Creates : pc[r] = "begun" ~> pc[r] \in Replied
=============================================================================
