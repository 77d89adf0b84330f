---------------------------- MODULE StockLedger ----------------------------
(* What the Estoque service promises its callers about stock, whatever the  *)
(* database does underneath: a consume request takes its whole demand in    *)
(* one step or takes nothing, and is refused only when the stock does not   *)
(* cover it.  StockTx is the detailed system that implements this, and      *)
(* PrintFlow uses this module as the Estoque side of a print.               *)
EXTENDS Integers, FiniteSets

CONSTANTS Codes,      \* product codes
          Reqs,       \* consume requests; each one arrives at most once
          Demands,    \* what a request may ask: functions from Codes to Nat
          MaxStock    \* bound on the quantity a create or an update may set

VARIABLES created,    \* codes that have a row in table products
          stock,      \* [Codes -> Nat]: products.stock_quantity, 0 without a row
          demand,     \* [Reqs -> [Codes -> Nat]]: the quantity asked of each code
          verdict,    \* [Reqs -> Verdicts]: what the handler answered
          applied     \* requests whose deduction is committed

ledgerVars == <<created, stock, demand, verdict, applied>>

Verdicts == {"none", "pending", "ok", "insufficient", "error"}

NoDemand == [c \in Codes |-> 0]

LedgerTypeOK ==
    /\ created \subseteq Codes
    /\ stock \in [Codes -> Nat]
    /\ demand \in [Reqs -> Demands \cup {NoDemand}]
    /\ verdict \in [Reqs -> Verdicts]
    /\ applied \subseteq Reqs

NoRequests ==
    /\ demand = [r \in Reqs |-> NoDemand]
    /\ verdict = [r \in Reqs |-> "none"]
    /\ applied = {}

Init == created = {} /\ stock = NoDemand /\ NoRequests

\* The committed stock is enough for the whole of d.
Covers(d) == \A c \in Codes : d[c] > 0 => c \in created /\ d[c] <= stock[c]

Receive(r, d) ==
    /\ verdict[r] = "none"
    /\ verdict' = [verdict EXCEPT ![r] = "pending"]
    /\ demand' = [demand EXCEPT ![r] = d]
    /\ UNCHANGED <<created, stock, applied>>

\* The whole demand goes at once.  The answer is "ok", or "error" when the
\* outcome of the commit could not be reported.
Consume(r) ==
    /\ verdict[r] = "pending"
    /\ Covers(demand[r])
    /\ stock' = [c \in Codes |-> stock[c] - demand[r][c]]
    /\ applied' = applied \cup {r}
    /\ \E v \in {"ok", "error"} : verdict' = [verdict EXCEPT ![r] = v]
    /\ UNCHANGED <<created, demand>>

Refuse(r) ==
    /\ verdict[r] = "pending"
    /\ ~Covers(demand[r])
    /\ verdict' = [verdict EXCEPT ![r] = "insufficient"]
    /\ UNCHANGED <<created, stock, demand, applied>>

\* An invalid request, a database error, a cancelled context or a crash.
Fail(r) ==
    /\ verdict[r] \in {"none", "pending"}
    /\ verdict' = [verdict EXCEPT ![r] = "error"]
    /\ UNCHANGED <<created, stock, demand, applied>>

\* POST and PUT of a product set its quantity.
SetStock(c, q) ==
    /\ created' = created \cup {c}
    /\ stock' = [stock EXCEPT ![c] = q]
    /\ UNCHANGED <<demand, verdict, applied>>

Next ==
    \/ \E r \in Reqs, d \in Demands : Receive(r, d)
    \/ \E r \in Reqs : Consume(r) \/ Refuse(r) \/ Fail(r)
    \/ \E c \in Codes, q \in 0..MaxStock : SetStock(c, q)

Spec == Init /\ [][Next]_ledgerVars
=============================================================================
