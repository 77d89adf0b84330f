---------------------------- MODULE InvoiceReset ----------------------------
(* Invoice creation next to what else writes the counter: the two reset     *)
(* scripts, and the migration that every start of the service runs.         *)
EXTENDS InvoiceNumbering

VARIABLES script,     \* where reset-db.sh is: "idle" or "truncated"
          raced       \* history: creations overlapped the last run of reset-db.sh

resetVars == <<vars, script, raced>>

Open == {r \in Creates : pc[r] \in {"begun", "numbered", "inserted"}}

ResetInit == Init /\ script = "idle" /\ raced = FALSE

\* reset-db.sh, first command: TRUNCATE waits for transactions that have
\* written invoices, and only for these.
TruncateInvoices ==
    /\ script = "idle"
    /\ \A r \in Creates : pc[r] # "inserted"
    /\ invoices' = {}
    /\ script' = "truncated"
    /\ raced' = (Open # {})
    /\ UNCHANGED <<counter, pc, number>>

\* Second command, a transaction of its own: it waits for the counter row and
\* changes nothing when there is none.
ZeroCounter ==
    /\ script = "truncated"
    /\ ~CounterLocked
    /\ counter' = IF counter = NoRow THEN NoRow ELSE 0
    /\ script' = "idle"
    /\ UNCHANGED <<invoices, pc, number, raced>>

\* reset-db.sql truncates every table, the counter's too, in one transaction.
TruncateAll ==
    /\ script = "idle"
    /\ ~CounterLocked
    /\ invoices' = {}
    /\ counter' = NoRow
    /\ raced' = FALSE
    /\ UNCHANGED <<pc, number, script>>

\* The process dies with its open transactions.
Die ==
    /\ pc' = [r \in Creates |->
                IF r \in Open \/ pc[r] = "committed" THEN "error" ELSE pc[r]]
    /\ number' = [r \in Creates |-> 0]

\* Mutant: the migration sets the counter to zero when the row exists.
RestartZeroing ==
    /\ Die
    /\ counter' = 0
    /\ UNCHANGED <<invoices, script, raced>>

\* The service dies, is started again and runs its migration, which inserts a
\* missing counter row.
Restart ==
    /\ Die
    /\ counter' = IF counter = NoRow THEN 0 ELSE counter
    /\ UNCHANGED <<invoices, script, raced>>

History == raced' = (raced \/ script = "truncated") /\ UNCHANGED script

Create == Next /\ History

\* Without the counter row the seed of the same statement is invisible to its
\* UPDATE, which returns no row; the rollback takes the seed away again.
FindNoCounter(r) ==
    /\ pc[r] = "begun"
    /\ counter = NoRow
    /\ Rollback(r)
    /\ History

\* The UNIQUE constraint on invoices.number.
NumberTaken(r) ==
    /\ pc[r] = "numbered"
    /\ \E row \in invoices : row.number = number[r]
    /\ Rollback(r)
    /\ History

ResetNext ==
    \/ Create \/ \E r \in Creates : FindNoCounter(r) \/ NumberTaken(r)
    \/ TruncateInvoices \/ ZeroCounter \/ TruncateAll \/ Restart

ResetSpec == ResetInit /\ [][ResetNext]_resetVars

-----------------------------------------------------------------------------
\* The next creation takes the number after the last invoice: the counter never
\* falls behind the table (numbers would be refused as taken) nor runs ahead of
\* it (a gap), through crashes, migrations and resets, unless creations overlap
\* the two commands of reset-db.sh; a later reset repairs that too.
CounterFollowsInvoices ==
    script = "idle" /\ ~raced =>
        IF counter = NoRow THEN invoices = {}
        ELSE {row.number : row \in invoices} = 1..counter
=============================================================================
