---------------------------- MODULE InvoicesPage ----------------------------
(* The invoices page over the print handlers of PrintFlow.  It offers what   *)
(* its list shows as open, which may be old news, and disables its buttons   *)
(* while it awaits a print.  A page that is entered again knows nothing of   *)
(* the print it was left with.                                               *)
EXTENDS PrintFlow, Sequences

CONSTANTS MaxLoads,     \* bound: loads in flight at once
          NoPrint

ASSUME PageAssumption == NoPrint \notin Prints /\ MaxLoads \in Nat \ {0}

\* The page is one of the callers: what its button sends is a request of theirs.
ASSUME CallersAssumption == [inv : Invoices, key : Keys] \subseteq Requests

VARIABLES here, shown, loads, garbled,   \* PageLoads
          printing,     \* the print whose answer the page awaits, or NoPrint
          strayed,      \* history: was the page left while it awaited a print?
          disturbed     \* history: has a message been lost?

page == <<here, shown, loads, garbled>>
history == <<strayed, disturbed>>
allVars == <<vars, page, printing, history>>

\* A list is the status of each row; before the first answer there is no row.
NoRows == [i \in Invoices |-> "absent"]

Page == INSTANCE PageLoads WITH EmptyList <- NoRows

PageInit ==
    /\ Init
    /\ Page!Init
    /\ printing = NoPrint /\ strayed = FALSE /\ disturbed = FALSE

-----------------------------------------------------------------------------
Awaiting == printing # NoPrint

Enter ==
    /\ Page!Enter
    /\ UNCHANGED <<vars, printing, history>>

\* The print goes on, and nobody awaits it any more.
Leave ==
    /\ Page!Leave
    /\ printing' = NoPrint
    /\ strayed' = (strayed \/ Awaiting)
    /\ UNCHANGED <<vars, disturbed>>

LoadStep(n) ==
    /\ \/ Page!ServeLoad(n, status)
       \/ Page!ShowLoad(n)
       \/ "net" \in Faults /\ Page!LoadFails(n)
    /\ UNCHANGED <<vars, printing, history>>

\* crypto.randomUUID().
FreshKeys == {k \in Keys : \A p \in Prints : req[p].key # k}

\* Mutant: print() without its check of printingId.
PrintRowUnguarded(i) ==
    /\ shown[i] = "OPEN"
    /\ \E p \in Prints, k \in FreshKeys :
          Start(p, [inv |-> i, key |-> k]) /\ printing' = p
    /\ UNCHANGED <<page, history>>

\* print(invoice), for a row the list shows as open and one at a time.
PrintRow(i) ==
    /\ shown[i] = "OPEN" /\ ~Awaiting
    /\ \E p \in Prints, k \in FreshKeys :
          Start(p, [inv |-> i, key |-> k]) /\ printing' = p
    /\ UNCHANGED <<page, history>>

\* Either answer ends the wait and loads the list again.
PrintAnswered ==
    /\ Awaiting /\ ~Running(printing)
    /\ printing' = NoPrint
    /\ Page!Reload
    /\ UNCHANGED <<vars, history>>

\* The connection breaks: an error for the page, while the handler goes on.
PrintBreaksOff ==
    /\ "net" \in Faults
    /\ Awaiting /\ Running(printing)
    /\ printing' = NoPrint
    /\ Page!Reload
    /\ disturbed' = TRUE
    /\ UNCHANGED <<vars, strayed>>

\* The request of p ends without the answer Estoque gave it.
Unheard(p) == phase[p] = "sending" /\ phase'[p] # "sending" /\ ~HearAnswer(p)

Services ==
    /\ \/ \E p \in Prints : Handle(p)
       \/ \E a \in Attempts : EstoqueServes(a)
       \/ ResetTimeoutPasses
    /\ disturbed' = (disturbed \/ \E p \in Prints : Unheard(p))
    /\ UNCHANGED <<page, printing, strayed>>

PageNext ==
    \/ Enter \/ Leave \/ PrintAnswered \/ PrintBreaksOff
    \/ \E i \in Invoices : PrintRow(i)
    \/ \E n \in 1..MaxLoads : LoadStep(n)
    \/ Services

PageSpec == PageInit /\ [][PageNext]_allVars

-----------------------------------------------------------------------------
Calm == ~strayed /\ ~disturbed

\* "a network retry (double click or automatic retry) never consumes stock
\* twice", as far as it goes: while Estoque answers no 5xx and no statement
\* fails, a page that is not left while it prints, whose messages all arrive,
\* pays an invoice at most once, however old the list is it prints from; and,
\* when no print runs, it is closed exactly when it is paid.
PaidOnceOnPage == Calm => PaidOnce

\* In those conditions a print that is refused, or meets an open breaker, leaves
\* its invoice open and unpaid, as its message says.
RefusalLeavesOpenOnPage == [][Calm' => RefusalKeepsOpen]_allVars

\* A page at rest tells the truth: it awaits nothing and each row has the table's
\* status, unless a load has failed or been overtaken and the list has not been
\* loaded by itself since.
RestingPageIsTrue ==
    here /\ ~Awaiting /\ loads = <<>> /\ shown # NoRows /\ ~garbled /\ Calm
      => shown = status

\* A row that is shown closed is never shown open again, unless an older answer
\* comes after a newer one; the next load by itself makes that good.
NeverReopened ==
    [][\A i \in Invoices : shown[i] = "CLOSED" /\ here' /\ ~garbled'
          => shown'[i] = "CLOSED"]_allVars
=============================================================================
