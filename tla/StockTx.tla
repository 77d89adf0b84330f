------------------------------ MODULE StockTx ------------------------------
(* Estoque's consume endpoint as it runs: one PostgreSQL transaction (READ  *)
(* COMMITTED) per request, one guarded UPDATE per item, in the order of the *)
(* items, each UPDATE locking its row until the transaction ends.  The      *)
(* other writers of the table are POST /products and PUT /products/{code}.  *)
(* One step is one SQL statement; a request that meets a locked row waits.  *)
EXTENDS Integers, Sequences, FiniteSetsExt

CONSTANTS Codes,      \* product codes
          Reqs,       \* consume requests; each one is made at most once
          Lists,      \* item lists a request may carry
          MaxStock    \* bound on the quantity a POST or a PUT sets

Items == [code : Codes, qty : Int]

ASSUME ListsAssumption == Lists \subseteq Seq(Items)
ASSUME MaxStockAssumption == MaxStock \in Nat

VARIABLES created,    \* codes that have a row in table products
          stock,      \* [Codes -> Int]: committed stock_quantity
          pc,         \* [Reqs -> States]
          items,      \* [Reqs -> Lists]: the request body
          next,       \* [Reqs -> Nat]: index of the item being processed
          taken,      \* [Reqs -> [Codes -> Nat]]: uncommitted deductions
          applied,    \* ghost: requests whose transaction committed
          restocked   \* ghost: net quantity POSTs and PUTs brought to a code

vars == <<created, stock, pc, items, next, taken, applied, restocked>>

InTx == {"exec", "wait"}
Answered == {"ok", "insufficient", "error"}
States == {"idle"} \cup InTx \cup Answered

Nothing == [c \in Codes |-> 0]

Init ==
    /\ created = {}
    /\ stock = Nothing
    /\ pc = [r \in Reqs |-> "idle"]
    /\ items = [r \in Reqs |-> <<>>]
    /\ next = [r \in Reqs |-> 1]
    /\ taken = [r \in Reqs |-> Nothing]
    /\ applied = {}
    /\ restocked = Nothing

-----------------------------------------------------------------------------
Item(r) == items[r][next[r]]

\* The loop has an item left to process.
HasItem(r) == next[r] <= Len(items[r])

\* A row is locked by the transaction that has an uncommitted write on it.
Holds(r, c) == taken[r][c] > 0

LockedByOther(r, c) == \E q \in Reqs \ {r} : Holds(q, c)

\* The row as r sees it: the committed version, less r's own writes.
Visible(r, c) == stock[c] - taken[r][c]

\* Mutant: an off-by-one guard, stock_quantity > $1.
MatchesStrictly(r) ==
    Item(r).code \in created /\ Visible(r, Item(r).code) > Item(r).qty

\* WHERE code = $2 AND stock_quantity >= $1
Matches(r) == Item(r).code \in created /\ Visible(r, Item(r).code) >= Item(r).qty

\* The transaction is over: its locks and its uncommitted writes are gone.
Finish(r, answer) ==
    /\ pc' = [pc EXCEPT ![r] = answer]
    /\ taken' = [taken EXCEPT ![r] = Nothing]
    /\ UNCHANGED <<items, next>>

Rollback(r, answer) ==
    /\ Finish(r, answer)
    /\ UNCHANGED <<created, stock, applied, restocked>>

-----------------------------------------------------------------------------
\* POST /products/consume: an empty body is refused before BEGIN.
Receive(r, list) ==
    /\ pc[r] = "idle"
    /\ items' = [items EXCEPT ![r] = list]
    /\ pc' = [pc EXCEPT ![r] = IF list = <<>> THEN "error" ELSE "exec"]
    /\ UNCHANGED <<created, stock, next, taken, applied, restocked>>

\* item.Quantity <= 0 ends the loop wherever it stands in the list.
RejectQuantity(r) ==
    /\ pc[r] = "exec" /\ HasItem(r)
    /\ Item(r).qty <= 0
    /\ Rollback(r, "error")

\* Mutant: one transaction per item, so a refusal keeps the items before it.
RefuseKeepingEarlier(r) ==
    /\ pc[r] \in InTx /\ HasItem(r)
    /\ Item(r).qty > 0
    /\ ~Matches(r)
    /\ stock' = [c \in Codes |-> stock[c] - taken[r][c]]
    /\ Finish(r, "insufficient")
    /\ UNCHANGED <<created, applied, restocked>>

\* RowsAffected() = 0.  A row whose visible version does not match is not
\* waited for; after a wait the condition is evaluated again.
Refuse(r) ==
    /\ pc[r] \in InTx /\ HasItem(r)
    /\ Item(r).qty > 0
    /\ pc[r] = "wait" => ~LockedByOther(r, Item(r).code)
    /\ ~Matches(r)
    /\ Rollback(r, "insufficient")

\* The row matches but another transaction has an uncommitted write on it.
Block(r) ==
    /\ pc[r] = "exec" /\ HasItem(r)
    /\ Item(r).qty > 0
    /\ Matches(r)
    /\ LockedByOther(r, Item(r).code)
    /\ pc' = [pc EXCEPT ![r] = "wait"]
    /\ UNCHANGED <<created, stock, items, next, taken, applied, restocked>>

\* Mutant: the quantity is not checked.
TakeAnyQuantity(r) ==
    /\ pc[r] \in InTx /\ HasItem(r)
    /\ Matches(r)
    /\ ~LockedByOther(r, Item(r).code)
    /\ taken' = [taken EXCEPT ![r][Item(r).code] = @ + Item(r).qty]
    /\ next' = [next EXCEPT ![r] = @ + 1]
    /\ pc' = [pc EXCEPT ![r] = "exec"]
    /\ UNCHANGED <<created, stock, items, applied, restocked>>

\* The row matches and is free: the UPDATE deducts and locks it.
Take(r) ==
    /\ pc[r] \in InTx /\ HasItem(r)
    /\ Item(r).qty > 0
    /\ Matches(r)
    /\ ~LockedByOther(r, Item(r).code)
    /\ taken' = [taken EXCEPT ![r][Item(r).code] = @ + Item(r).qty]
    /\ next' = [next EXCEPT ![r] = @ + 1]
    /\ pc' = [pc EXCEPT ![r] = "exec"]
    /\ UNCHANGED <<created, stock, items, applied, restocked>>

\* COMMIT publishes every deduction.  When the context ends or the connection
\* breaks before the acknowledgement arrives, the handler answers an error.
Commit(r) ==
    /\ pc[r] = "exec" /\ ~HasItem(r)
    /\ stock' = [c \in Codes |-> stock[c] - taken[r][c]]
    /\ applied' = applied \cup {r}
    /\ \E answer \in {"ok", "error"} : Finish(r, answer)
    /\ UNCHANGED <<created, restocked>>

-----------------------------------------------------------------------------
\* Holder of the row r waits for.
WaitsFor(r, q) == pc[r] = "wait" /\ q # r /\ Holds(q, Item(r).code)

\* S is a cycle of waits: each member waits for one member and is waited for.
WaitCycle(S) ==
    /\ \A r \in S : \E q \in S : WaitsFor(r, q)
    /\ \A q \in S : \E r \in S : WaitsFor(r, q)

\* Mutant: nobody looks for cycles of waits.
NoVictim(r) == FALSE

\* PostgreSQL's deadlock detector cancels the statement of a member of a cycle;
\* the handler answers 500.
DeadlockVictim(r) ==
    /\ \E S \in SUBSET Reqs : r \in S /\ WaitCycle(S)
    /\ Rollback(r, "error")

\* A cancelled or expired request context, a lost connection or a crash of the
\* service rolls an open transaction back.
Abort(r) ==
    /\ pc[r] \in InTx
    /\ Rollback(r, "error")

\* POST /products: INSERT of a new primary key; an existing one answers 409.
CreateProduct(c, q) ==
    /\ c \notin created
    /\ created' = created \cup {c}
    /\ stock' = [stock EXCEPT ![c] = q]
    /\ restocked' = [restocked EXCEPT ![c] = @ + q]
    /\ UNCHANGED <<pc, items, next, taken, applied>>

\* Mutant: a PUT that does not wait for the row lock.
UpdateProductUnlocked(c, q) ==
    /\ c \in created
    /\ stock' = [stock EXCEPT ![c] = q]
    /\ restocked' = [restocked EXCEPT ![c] = @ + q - stock[c]]
    /\ UNCHANGED <<created, pc, items, next, taken, applied>>

\* PUT /products/{code}: an autocommitted UPDATE to an absolute quantity, which
\* waits for the row lock like any other writer.
UpdateProduct(c, q) ==
    /\ c \in created
    /\ \A r \in Reqs : ~Holds(r, c)
    /\ stock' = [stock EXCEPT ![c] = q]
    /\ restocked' = [restocked EXCEPT ![c] = @ + q - stock[c]]
    /\ UNCHANGED <<created, pc, items, next, taken, applied>>

-----------------------------------------------------------------------------
Step(r) ==
    \/ RejectQuantity(r)
    \/ Refuse(r)
    \/ Block(r)
    \/ Take(r)
    \/ Commit(r)
    \/ DeadlockVictim(r)

Next ==
    \/ \E r \in Reqs, list \in Lists : Receive(r, list)
    \/ \E r \in Reqs : Step(r) \/ Abort(r)
    \/ \E c \in Codes, q \in 0..MaxStock : CreateProduct(c, q) \/ UpdateProduct(c, q)

Spec == Init /\ [][Next]_vars

\* Statements of a live transaction are executed, a released lock wakes its
\* waiter, and the detector runs: PostgreSQL and the Go scheduler see to it.
FairSpec == Spec /\ \A r \in Reqs : WF_vars(Step(r))

-----------------------------------------------------------------------------
\* Quantity each item of the list asks of c.  A quantity that is not positive
\* asks nothing: it ends the request when the loop comes to it.
Asked(list, c) ==
    [i \in DOMAIN list |-> IF list[i].code = c /\ list[i].qty > 0 THEN list[i].qty ELSE 0]

\* The whole demand of a list, repeated codes added up.
Demand(list) == [c \in Codes |-> SumFunctionOnSet(Asked(list, c), DOMAIN list)]

TypeOK ==
    /\ created \subseteq Codes
    /\ stock \in [Codes -> Int]
    /\ pc \in [Reqs -> States]
    /\ items \in [Reqs -> Lists \cup {<<>>}]
    /\ next \in [Reqs -> Nat \ {0}]
    /\ taken \in [Reqs -> [Codes -> Nat]]
    /\ applied \subseteq Reqs
    /\ restocked \in [Codes -> Int]

\* What the guard of ConsumeStock saw stays true until the commit: no product
\* edit and no other consume takes the reserved quantity away, so the CHECK
\* (stock_quantity >= 0) of the table never fires, at COMMIT or before it.
ReservationCovered ==
    \A c \in Codes : 0 <= stock[c] /\ \A r \in Reqs : taken[r][c] <= stock[c]

\* Stock is what was put in less the whole demand of exactly the committed
\* requests: a request that failed on its third item, was cancelled or lost a
\* deadlock has taken nothing of its first two, and a repeated code counts twice.
StockConserved ==
    \A c \in Codes :
        stock[c] = restocked[c] - SumFunctionOnSet([r \in Reqs |-> Demand(items[r])[c]], applied)

\* What a caller of the service sees of the requests: the demand of each one
\* and its answer, "pending" while the transaction is open.
DemandOf == [r \in Reqs |-> Demand(items[r])]

VerdictAt(place) ==
    CASE place = "idle" -> "none" [] place \in InTx -> "pending" [] OTHER -> place

VerdictOf == [r \in Reqs |-> VerdictAt(pc[r])]

Ledger == INSTANCE StockLedger WITH
    Demands <- {Demand(list) : list \in Lists}, demand <- DemandOf, verdict <- VerdictOf

\* The transactions implement the ledger: one atomic Consume per committed
\* request, and "insufficient" only when the committed stock does not cover
\* the whole demand at that moment.
ImplementsLedger == Ledger!Spec

\* A request whose transaction is open is answered in the end, also when two
\* requests lock the same products in opposite orders.
EveryRequestAnswered == \A r \in Reqs : pc[r] \in InTx ~> pc[r] \in Answered
=============================================================================
