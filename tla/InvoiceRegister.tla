-------------------------- MODULE InvoiceRegister --------------------------
(* What invoice creation promises: invoices are numbered 1, 2, 3, ... in    *)
(* the order in which they come to exist, one number at a time, and a       *)
(* caller is told "created" only when its invoice exists.                   *)
EXTENDS Integers

CONSTANT Creates      \* executions of POST /api/invoices

VARIABLES invoices,   \* [number, by] records
          reply       \* [Creates -> {"none", "created", "error"}]

Exists(r) == \E row \in invoices : row.by = r

Init ==
    /\ invoices = {}
    /\ reply = [r \in Creates |-> "none"]

\* The new invoice carries the number after those already given.  Its caller may
\* never learn of it.
Record(r) ==
    /\ reply[r] = "none" /\ ~Exists(r)
    /\ \E row \in invoices' \ invoices :
          /\ row.by = r
          /\ {other.number : other \in invoices} = 1..(row.number - 1)
          /\ invoices' = invoices \cup {row}
    /\ \/ UNCHANGED reply
       \/ reply' = [reply EXCEPT ![r] = "error"]

Reply(r) ==
    /\ reply[r] = "none"
    /\ \/ Exists(r) /\ reply' = [reply EXCEPT ![r] = "created"]
       \/ reply' = [reply EXCEPT ![r] = "error"]
    /\ UNCHANGED invoices

Next == \E r \in Creates : Record(r) \/ Reply(r)

Spec == Init /\ [][Next]_<<invoices, reply>>
=============================================================================
