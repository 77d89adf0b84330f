--------------------------- MODULE StockTxProofs ---------------------------
(* Proofs about StockTx for any set of products, requests and item lists.   *)
EXTENDS StockTx, Sums

\* What the interleaving of the transactions keeps besides the types: only an
\* open transaction has uncommitted deductions, and only on existing rows.
TakenInTx ==
    /\ \A r \in Reqs : pc[r] \notin InTx => taken[r] = Nothing
    /\ \A r \in Reqs, c \in Codes : Holds(r, c) => c \in created

\* The row lock, which the guard of Take takes from PostgreSQL: two open
\* transactions never hold the same row.  The steps that commit need it.
OneWriterPerRow ==
    \A r, q \in Reqs, c \in Codes : Holds(r, c) /\ Holds(q, c) => r = q

IInv == TypeOK /\ TakenInTx /\ OneWriterPerRow /\ ReservationCovered

\* While the loop has an item left, that item is a code and a quantity.
LEMMA ItemType ==
    ASSUME TypeOK, NEW r \in Reqs, HasItem(r)
    PROVE  Item(r).code \in Codes /\ Item(r).qty \in Int
<1>1. items[r] \in Seq(Items)
  <2>1. items[r] \in Lists \/ items[r] = <<>>
    BY DEF TypeOK
  <2>2. <<>> \in Seq(Items)
    OBVIOUS
  <2> QED
    BY <2>1, <2>2, ListsAssumption
<1>2. next[r] \in 1..Len(items[r])
  BY <1>1 DEF TypeOK, HasItem
<1>3. items[r][next[r]] \in Items
  BY <1>1, <1>2
<1> QED
  BY <1>3 DEF Item, Items

\* The empty table satisfies the invariant.
LEMMA InitIInv == Init => IInv
BY DEF Init, IInv, TypeOK, TakenInTx, OneWriterPerRow, ReservationCovered, Holds,
       Nothing, States, InTx, Answered

\* A transaction that ends without committing only gives its deductions up.
LEMMA RollbackIInv ==
    ASSUME IInv, NEW r \in Reqs, NEW answer \in Answered, Rollback(r, answer)
    PROVE  IInv'
<1> USE DEF Nothing, Holds
<1>1. /\ pc' = [pc EXCEPT ![r] = answer]
      /\ taken' = [taken EXCEPT ![r] = Nothing]
      /\ UNCHANGED <<created, stock, items, next, applied, restocked>>
  BY DEF Rollback, Finish
<1>2. \A q \in Reqs, c \in Codes : taken'[q][c] = IF q = r THEN 0 ELSE taken[q][c]
  BY <1>1 DEF IInv, TypeOK
<1>3. TypeOK'
  BY <1>1 DEF IInv, TypeOK, States
<1>4. TakenInTx'
  BY <1>1, <1>2, <1>3 DEF IInv, TypeOK, TakenInTx, Answered, InTx
<1>5. OneWriterPerRow'
  BY <1>1, <1>2 DEF IInv, OneWriterPerRow
<1>6. ReservationCovered'
  BY <1>1, <1>2 DEF IInv, TypeOK, ReservationCovered
<1> QED
  BY <1>3, <1>4, <1>5, <1>6 DEF IInv

\* The guarded UPDATE adds to the deductions of the only writer of its row, and
\* by no more than the row holds.
LEMMA TakeIInv ==
    ASSUME IInv, NEW r \in Reqs, Take(r)
    PROVE  IInv'
<1> DEFINE k == Item(r).code
           n == Item(r).qty
<1> USE DEF Holds
<1>1. k \in Codes /\ n \in Int /\ n > 0
  BY ItemType DEF IInv, Take
<1>2. k \in created /\ taken[r][k] + n <= stock[k]
  BY <1>1 DEF Take, Matches, Visible, IInv, TypeOK
<1>3. \A q \in Reqs : q # r => taken[q][k] = 0
  BY <1>1 DEF Take, LockedByOther, IInv, TypeOK
<1>4. \A q \in Reqs, c \in Codes :
        taken'[q][c] = IF q = r /\ c = k THEN taken[r][k] + n ELSE taken[q][c]
  BY <1>1 DEF Take, IInv, TypeOK
<1>5. TypeOK'
  <2>1. taken' \in [Reqs -> [Codes -> Nat]]
    <3>1. taken[r][k] + n \in Nat
      BY <1>1 DEF IInv, TypeOK
    <3>2. taken' = [taken EXCEPT ![r] = [taken[r] EXCEPT ![k] = taken[r][k] + n]]
      BY DEF Take
    <3>3. [taken[r] EXCEPT ![k] = taken[r][k] + n] \in [Codes -> Nat]
      BY <3>1, <1>1 DEF IInv, TypeOK
    <3> QED
      BY <3>2, <3>3 DEF IInv, TypeOK
  <2>2. next' \in [Reqs -> Nat \ {0}]
    BY DEF Take, IInv, TypeOK
  <2>3. pc' \in [Reqs -> States]
    BY DEF Take, IInv, TypeOK, States, InTx
  <2> QED
    BY <2>1, <2>2, <2>3 DEF Take, IInv, TypeOK
<1>6. TakenInTx'
  <2>1. \A q \in Reqs : pc'[q] \notin InTx => q # r /\ pc[q] \notin InTx /\ taken'[q] = taken[q]
    BY DEF Take, IInv, TypeOK, InTx
  <2>2. created' = created
    BY DEF Take
  <2> QED
    BY <2>1, <2>2, <1>2, <1>4 DEF IInv, TakenInTx, Nothing
<1>7. OneWriterPerRow'
  <2> SUFFICES ASSUME NEW p \in Reqs, NEW q \in Reqs, NEW c \in Codes,
                      taken'[p][c] > 0, taken'[q][c] > 0
               PROVE  p = q
    BY DEF OneWriterPerRow
  <2>1. CASE c = k
    BY <2>1, <1>3, <1>4
  <2>2. CASE c # k
    <3>1. taken[p][c] > 0 /\ taken[q][c] > 0
      BY <2>2, <1>4
    <3> QED
      BY <3>1 DEF IInv, OneWriterPerRow
  <2> QED
    BY <2>1, <2>2
<1>8. ReservationCovered'
  <2>1. stock' = stock
    BY DEF Take
  <2> QED
    BY <2>1, <1>2, <1>4 DEF IInv, ReservationCovered
<1> QED
  BY <1>5, <1>6, <1>7, <1>8 DEF IInv

\* COMMIT lowers only rows of which the transaction is the only writer, so no
\* other transaction's reservation loses its cover.
LEMMA CommitIInv ==
    ASSUME IInv, NEW r \in Reqs, Commit(r)
    PROVE  IInv'
<1> USE DEF Holds, Nothing
<1>1. PICK answer \in Answered :
        /\ pc' = [pc EXCEPT ![r] = answer]
        /\ taken' = [taken EXCEPT ![r] = Nothing]
        /\ items' = items /\ next' = next
  BY DEF Commit, Finish, Answered
<1>2. /\ \A c \in Codes : stock'[c] = stock[c] - taken[r][c]
      /\ stock' = [c \in Codes |-> stock[c] - taken[r][c]]
      /\ applied' = applied \cup {r} /\ created' = created /\ restocked' = restocked
  BY DEF Commit
<1>3. \A q \in Reqs, c \in Codes : taken'[q][c] = IF q = r THEN 0 ELSE taken[q][c]
  BY <1>1 DEF IInv, TypeOK
<1>4. TypeOK'
  <2>1. stock' \in [Codes -> Int]
    BY <1>2 DEF IInv, TypeOK
  <2> QED
    BY <2>1, <1>1, <1>2 DEF IInv, TypeOK, States
<1>5. TakenInTx'
  BY <1>1, <1>2, <1>3, <1>4 DEF IInv, TypeOK, TakenInTx, InTx, Answered
<1>6. OneWriterPerRow'
  BY <1>3 DEF IInv, OneWriterPerRow
<1>7. ReservationCovered'
  <2> SUFFICES ASSUME NEW c \in Codes, NEW q \in Reqs
               PROVE  0 <= stock'[c] /\ taken'[q][c] <= stock'[c]
    BY DEF ReservationCovered
  <2>1. taken[r][c] \in Nat /\ taken[q][c] \in Nat /\ stock[c] \in Int
    BY DEF IInv, TypeOK
  <2>2. taken[r][c] <= stock[c] /\ taken[q][c] <= stock[c]
    BY DEF IInv, ReservationCovered
  <2>3. q # r => taken[r][c] = 0 \/ taken[q][c] = 0
    BY <2>1 DEF IInv, OneWriterPerRow
  <2> QED
    BY <1>2, <1>3, <2>1, <2>2, <2>3
<1> QED
  BY <1>4, <1>5, <1>6, <1>7 DEF IInv

\* A request that arrives has no deduction yet.
LEMMA ReceiveIInv ==
    ASSUME IInv, NEW r \in Reqs, NEW list \in Lists, Receive(r, list)
    PROVE  IInv'
<1> USE DEF Holds
<1>1. TypeOK'
  BY DEF Receive, IInv, TypeOK, States, InTx, Answered
<1>2. pc[r] \notin InTx
  BY DEF Receive, InTx
<1>3. TakenInTx'
  <2>1. \A q \in Reqs : pc'[q] \notin InTx => pc[q] \notin InTx
    BY <1>2 DEF Receive, IInv, TypeOK
  <2> QED
    BY <2>1 DEF Receive, IInv, TakenInTx, Nothing
<1>4. OneWriterPerRow' /\ ReservationCovered'
  BY DEF Receive, IInv, OneWriterPerRow, ReservationCovered
<1> QED
  BY <1>1, <1>3, <1>4 DEF IInv

\* Waiting for a row lock changes nothing of the table.
LEMMA BlockIInv ==
    ASSUME IInv, NEW r \in Reqs, Block(r)
    PROVE  IInv'
<1> USE DEF Holds
<1>1. TypeOK'
  BY DEF Block, IInv, TypeOK, States, InTx
<1>2. TakenInTx'
  <2>1. \A q \in Reqs : pc'[q] \notin InTx => pc[q] \notin InTx
    BY DEF Block, IInv, TypeOK, InTx
  <2> QED
    BY <2>1 DEF Block, IInv, TakenInTx, Nothing
<1>3. OneWriterPerRow' /\ ReservationCovered'
  BY DEF Block, IInv, OneWriterPerRow, ReservationCovered
<1> QED
  BY <1>1, <1>2, <1>3 DEF IInv

\* A POST adds a row nobody can have locked; a PUT waits for the row lock, so
\* neither undercuts a reservation.
LEMMA ProductIInv ==
    ASSUME IInv, NEW c \in Codes, NEW q \in 0..MaxStock,
           CreateProduct(c, q) \/ UpdateProduct(c, q)
    PROVE  IInv'
<1> USE DEF Holds
<1>1. q \in Int /\ q >= 0
  BY MaxStockAssumption
<1>2. /\ stock' = [stock EXCEPT ![c] = q]
      /\ UNCHANGED <<pc, items, next, taken, applied>>
      /\ created \subseteq created' /\ created' \subseteq Codes
      /\ restocked' \in [Codes -> Int]
  BY <1>1 DEF CreateProduct, UpdateProduct, IInv, TypeOK
<1>3. \A r \in Reqs : taken[r][c] = 0
  <2>1. \A r \in Reqs : taken[r][c] \in Nat /\ ~(taken[r][c] > 0)
    BY DEF CreateProduct, UpdateProduct, IInv, TypeOK, TakenInTx
  <2> QED
    BY <2>1
<1>4. TypeOK'
  BY <1>1, <1>2 DEF IInv, TypeOK
<1>5. TakenInTx'
  BY <1>2 DEF IInv, TakenInTx, Nothing
<1>6. OneWriterPerRow'
  BY <1>2 DEF IInv, OneWriterPerRow
<1>7. ReservationCovered'
  <2>1. \A d \in Codes : stock'[d] = IF d = c THEN q ELSE stock[d]
    BY <1>2 DEF IInv, TypeOK
  <2> QED
    BY <2>1, <1>1, <1>2, <1>3 DEF IInv, ReservationCovered
<1> QED
  BY <1>4, <1>5, <1>6, <1>7 DEF IInv

\* Every step of the system keeps the invariant.
LEMMA NextIInv == IInv /\ [Next]_vars => IInv'
<1> SUFFICES ASSUME IInv, [Next]_vars PROVE IInv'
  OBVIOUS
<1>1. CASE \E r \in Reqs, list \in Lists : Receive(r, list)
  BY <1>1, ReceiveIInv
<1>2. ASSUME NEW r \in Reqs, Step(r) \/ Abort(r) PROVE IInv'
  <2>1. CASE RejectQuantity(r) \/ DeadlockVictim(r) \/ Abort(r)
    BY <2>1, RollbackIInv DEF RejectQuantity, DeadlockVictim, Abort, Answered
  <2>2. CASE Refuse(r)
    BY <2>2, RollbackIInv DEF Refuse, Answered
  <2>3. CASE Block(r)
    BY <2>3, BlockIInv
  <2>4. CASE Take(r)
    BY <2>4, TakeIInv
  <2>5. CASE Commit(r)
    BY <2>5, CommitIInv
  <2> QED
    BY <1>2, <2>1, <2>2, <2>3, <2>4, <2>5 DEF Step
<1>3. CASE \E c \in Codes, q \in 0..MaxStock : CreateProduct(c, q) \/ UpdateProduct(c, q)
  BY <1>3, ProductIInv
<1>4. CASE UNCHANGED vars
  BY <1>4 DEF vars, IInv, TypeOK, TakenInTx, OneWriterPerRow, ReservationCovered, Holds
<1> QED
  BY <1>1, <1>2, <1>3, <1>4 DEF Next

\* The inductive invariant holds of every behaviour.
THEOREM Inductive == Spec => []IInv
<1>1. Init => IInv
  BY InitIInv
<1>2. IInv /\ [Next]_vars => IInv'
  BY NextIInv
<1> QED
  BY <1>1, <1>2, PTL DEF Spec

\* Type correctness of the transaction model.
THEOREM TypeCorrect == Spec => []TypeOK
<1>1. IInv => TypeOK
  BY DEF IInv
<1> QED
  BY <1>1, Inductive, PTL

\* No interleaving of consumes and product edits oversells: the stock covers
\* every open reservation and is never negative.
THEOREM NeverOversold == Spec => []ReservationCovered
<1>1. IInv => ReservationCovered
  BY DEF IInv
<1> QED
  BY <1>1, Inductive, PTL

-----------------------------------------------------------------------------
(* The books: what an open transaction has deducted is what the items behind *)
(* it ask, and the table is what was put in less what was committed.         *)

\* The loop starts at the first item of a body that has arrived, and an open
\* transaction has deducted exactly what the items before the current one ask.
Progress ==
    /\ \A r \in Reqs : pc[r] = "idle" => next[r] = 1 /\ items[r] = <<>>
    /\ \A r \in Reqs : pc[r] \in InTx =>
        /\ items[r] \in Lists /\ next[r] <= Len(items[r]) + 1
        /\ \A c \in Codes :
             taken[r][c] = SumFunctionOnSet(Asked(items[r], c), 1..(next[r] - 1))

\* Committed requests are answered, and a code without a row has no stock.
Settled ==
    /\ IsFiniteSet(applied)
    /\ \A r \in applied : pc[r] \in Answered
    /\ \A c \in Codes \ created : stock[c] = 0

Books == IInv /\ Progress /\ Settled /\ StockConserved

\* An item asks a natural number of a code.
LEMMA AskedType ==
    ASSUME NEW list \in Seq(Items), NEW c \in Codes
    PROVE  Asked(list, c) \in [1..Len(list) -> Nat]
<1>1. \A i \in 1..Len(list) : list[i] \in Items
  OBVIOUS
<1>2. \A item \in Items : item.qty \in Int
  BY DEF Items
<1> QED
  BY <1>1, <1>2 DEF Asked

\* A list is a sequence of items, also the one of a request not yet received.
LEMMA ListType ==
    ASSUME NEW list \in Lists \cup {<<>>}
    PROVE  list \in Seq(Items) /\ Len(list) \in Nat /\ DOMAIN list = 1..Len(list)
<1>1. <<>> \in Seq(Items)
  OBVIOUS
<1>2. list \in Seq(Items)
  BY <1>1, ListsAssumption
<1> QED
  BY <1>2

\* The part of a list before an item asks no more than the whole of it, and the
\* item asks the difference that the next part makes.
LEMMA DemandParts ==
    ASSUME NEW list \in Lists \cup {<<>>}, NEW c \in Codes, NEW n \in Nat, n <= Len(list)
    PROVE  /\ SumFunctionOnSet(Asked(list, c), 1..n) \in Nat
           /\ SumFunctionOnSet(Asked(list, c), 1..n) <= Demand(list)[c]
           /\ Demand(list)[c] \in Nat
           /\ n > 0 => SumFunctionOnSet(Asked(list, c), 1..n) =
                         SumFunctionOnSet(Asked(list, c), 1..(n - 1)) + Asked(list, c)[n]
<1> DEFINE h == Asked(list, c)
           L == 1..Len(list)
<1>1. h \in [L -> Nat] /\ Len(list) \in Nat /\ DOMAIN list = L
  BY ListType, AskedType
<1>2. Demand(list)[c] = SumFunctionOnSet(h, L)
  BY <1>1 DEF Demand
<1> HIDE DEF h
<1>3. IsFiniteSet(L) /\ IsFiniteSet(1..n) /\ 1..n \subseteq L /\ {} \subseteq 1..n
  BY <1>1, FS_Interval
<1>4. SumFunctionOnSet(h, 1..n) \in Int /\ SumFunctionOnSet(h, L) \in Int
  BY <1>1, <1>3, SumInt
<1>5. SumFunctionOnSet(h, {}) <= SumFunctionOnSet(h, 1..n)
  BY <1>1, <1>3, SumSubset
<1>6. SumFunctionOnSet(h, 1..n) <= SumFunctionOnSet(h, L)
  BY <1>1, <1>3, SumSubset
<1>7. ASSUME n > 0
      PROVE  SumFunctionOnSet(h, 1..n) = SumFunctionOnSet(h, 1..(n - 1)) + h[n]
  <2> DEFINE R == 1..(n - 1)
  <2>1. R \cup {n} = 1..n /\ n \notin R
    BY <1>7
  <2>2. IsFiniteSet(R)
    BY <1>3, <2>1, FS_Subset
  <2>3. \A x \in R \cup {n} : h[x] \in Int
    BY <1>1, <1>3, <2>1
  <2> HIDE DEF R
  <2>4. SumFunctionOnSet(h, R \cup {n}) = SumFunctionOnSet(h, R) + h[n]
    BY <2>1, <2>2, <2>3, SumAdd
  <2>5. SumFunctionOnSet(h, 1..n) = SumFunctionOnSet(h, R) + h[n]
    BY <2>1, <2>4, Zenon
  <2> QED
    BY <2>5 DEF R
<1> QED
  BY <1>2, <1>4, <1>5, <1>6, <1>7, SumEmpty DEF h

\* An item that the loop has reached asks its quantity of its code and nothing
\* of any other.
LEMMA AskedOfItem ==
    ASSUME TypeOK, NEW r \in Reqs, HasItem(r), Item(r).qty > 0, NEW c \in Codes
    PROVE  Asked(items[r], c)[next[r]] = IF c = Item(r).code THEN Item(r).qty ELSE 0
<1>1. items[r] \in Lists \cup {<<>>} /\ next[r] \in Nat \ {0}
  BY DEF TypeOK
<1>2. next[r] \in DOMAIN items[r]
  BY <1>1, ListType DEF HasItem
<1> QED
  BY <1>2 DEF Asked, Item

\* A step that leaves the table, the bodies and the committed requests alone
\* leaves the balance alone.
LEMMA BalanceIdle ==
    ASSUME StockConserved, UNCHANGED <<stock, items, applied, restocked>>
    PROVE  StockConserved'
BY DEF StockConserved

\* Steps that end a transaction without a commit.
LEMMA RollbackBooks ==
    ASSUME Books, NEW r \in Reqs, NEW answer \in Answered, Rollback(r, answer)
    PROVE  Books'
<1>1. /\ pc' = [pc EXCEPT ![r] = answer]
      /\ taken' = [taken EXCEPT ![r] = Nothing]
      /\ UNCHANGED <<created, stock, items, next, applied, restocked>>
  BY DEF Rollback, Finish
<1>2. IInv'
  BY RollbackIInv DEF Books
<1>3. Progress'
  <2>1. \A q \in Reqs : pc'[q] \notin Answered =>
          pc'[q] = pc[q] /\ taken'[q] = taken[q] /\ items'[q] = items[q] /\ next'[q] = next[q]
    BY <1>1 DEF Books, IInv, TypeOK
  <2>2. "idle" \notin Answered /\ \A place \in InTx : place \notin Answered
    BY DEF Answered, InTx
  <2> QED
    BY <2>1, <2>2 DEF Books, Progress
<1>4. Settled'
  BY <1>1 DEF Books, Settled, IInv, TypeOK
<1>5. StockConserved'
  BY <1>1, BalanceIdle DEF Books
<1> QED
  BY <1>2, <1>3, <1>4, <1>5 DEF Books

\* A request that arrives has deducted nothing of what it asks.
LEMMA ReceiveBooks ==
    ASSUME Books, NEW r \in Reqs, NEW list \in Lists, Receive(r, list)
    PROVE  Books'
<1>1. /\ pc[r] = "idle"
      /\ items' = [items EXCEPT ![r] = list]
      /\ pc' = [pc EXCEPT ![r] = IF list = <<>> THEN "error" ELSE "exec"]
      /\ UNCHANGED <<created, stock, next, taken, applied, restocked>>
  BY DEF Receive
<1>2. IInv'
  BY ReceiveIInv DEF Books
<1>3. Progress'
  <2> SUFFICES ASSUME NEW q \in Reqs
               PROVE  /\ pc'[q] = "idle" => next'[q] = 1 /\ items'[q] = <<>>
                      /\ pc'[q] \in InTx =>
                           /\ items'[q] \in Lists /\ next'[q] <= Len(items'[q]) + 1
                           /\ \A c \in Codes :
                                taken'[q][c] = SumFunctionOnSet(Asked(items'[q], c), 1..(next'[q] - 1))
    BY DEF Progress
  <2>1. CASE q # r
    <3>1. pc'[q] = pc[q] /\ items'[q] = items[q] /\ next'[q] = next[q] /\ taken'[q] = taken[q]
      BY <2>1, <1>1 DEF Books, IInv, TypeOK
    <3> QED
      BY <3>1 DEF Books, Progress
  <2>2. CASE q = r
    <3>1. next'[r] = 1 /\ items'[r] = list /\ pc'[r] \in {"error", "exec"}
      BY <1>1 DEF Books, IInv, TypeOK, Progress
    <3>2. \A c \in Codes : taken'[r][c] = 0
      BY <1>1 DEF Books, IInv, TakenInTx, InTx, Nothing
    <3>3. 1..(1 - 1) = {} /\ Len(list) \in Nat
      BY ListType
    <3>4. \A c \in Codes : SumFunctionOnSet(Asked(list, c), 1..(1 - 1)) = 0
      BY <3>3, SumEmpty
    <3> QED
      BY <2>2, <3>1, <3>2, <3>3, <3>4 DEF InTx
  <2> QED
    BY <2>1, <2>2
<1>4. r \notin applied
  BY <1>1 DEF Books, Settled, Answered
<1>5. Settled'
  <2>1. \A q \in applied : q \in Reqs /\ q # r /\ pc'[q] = pc[q]
    BY <1>1, <1>4 DEF Books, IInv, TypeOK
  <2> QED
    BY <1>1, <2>1 DEF Books, Settled
<1>6. StockConserved'
  <2> SUFFICES ASSUME NEW c \in Codes
               PROVE  stock'[c] = restocked'[c] -
                        SumFunctionOnSet([q \in Reqs |-> Demand(items'[q])[c]], applied')
    BY DEF StockConserved
  <2> DEFINE h1 == [q \in Reqs |-> Demand(items[q])[c]]
             h2 == [q \in Reqs |-> Demand(items'[q])[c]]
  <2>1. \A q \in applied : h1[q] = h2[q]
    BY <1>1, <1>4 DEF Books, IInv, TypeOK
  <2>2. stock[c] = restocked[c] - SumFunctionOnSet(h1, applied)
    BY DEF Books, StockConserved
  <2> HIDE DEF h1, h2
  <2>3. SumFunctionOnSet(h1, applied) = SumFunctionOnSet(h2, applied)
    BY <2>1, SumSame DEF Books, Settled
  <2>4. stock'[c] = restocked'[c] - SumFunctionOnSet(h2, applied')
    BY <1>1, <2>2, <2>3
  <2> QED
    BY <2>4 DEF h2
<1> QED
  BY <1>2, <1>3, <1>5, <1>6 DEF Books

\* Waiting for a lock.
LEMMA BlockBooks ==
    ASSUME Books, NEW r \in Reqs, Block(r)
    PROVE  Books'
<1>1. /\ pc[r] = "exec" /\ pc' = [pc EXCEPT ![r] = "wait"]
      /\ UNCHANGED <<created, stock, items, next, taken, applied, restocked>>
  BY DEF Block
<1>2. IInv'
  BY BlockIInv DEF Books
<1>3. \A q \in Reqs : /\ pc'[q] = "idle" => pc[q] = "idle"
                      /\ pc'[q] \in InTx => pc[q] \in InTx
                      /\ pc[q] \in Answered => pc'[q] \in Answered
  BY <1>1 DEF Books, IInv, TypeOK, InTx, Answered
<1>4. Progress'
  BY <1>1, <1>3 DEF Books, Progress
<1>5. Settled'
  BY <1>1, <1>3 DEF Books, Settled, IInv, TypeOK
<1>6. StockConserved'
  BY <1>1, BalanceIdle DEF Books
<1> QED
  BY <1>2, <1>4, <1>5, <1>6 DEF Books

\* The guarded UPDATE deducts what its item asks.
LEMMA TakeBooks ==
    ASSUME Books, NEW r \in Reqs, Take(r)
    PROVE  Books'
<1> DEFINE k == Item(r).code
           n == Item(r).qty
<1>1. /\ pc[r] \in InTx /\ HasItem(r) /\ n > 0
      /\ taken' = [taken EXCEPT ![r][k] = @ + n]
      /\ next' = [next EXCEPT ![r] = @ + 1]
      /\ pc' = [pc EXCEPT ![r] = "exec"]
      /\ UNCHANGED <<created, stock, items, applied, restocked>>
  BY DEF Take
<1>2. k \in Codes /\ n \in Int
  BY <1>1, ItemType DEF Books, IInv
<1>3. IInv'
  BY TakeIInv DEF Books
<1>4. \A q \in Reqs : /\ q # r => pc'[q] = pc[q] /\ next'[q] = next[q] /\ taken'[q] = taken[q]
                      /\ pc'[r] = "exec" /\ next'[r] = next[r] + 1
  BY <1>1 DEF Books, IInv, TypeOK
<1>5. Progress'
  <2> SUFFICES ASSUME NEW q \in Reqs
               PROVE  /\ pc'[q] = "idle" => next'[q] = 1 /\ items'[q] = <<>>
                      /\ pc'[q] \in InTx =>
                           /\ items'[q] \in Lists /\ next'[q] <= Len(items'[q]) + 1
                           /\ \A c \in Codes :
                                taken'[q][c] = SumFunctionOnSet(Asked(items'[q], c), 1..(next'[q] - 1))
    BY DEF Progress
  <2>1. CASE q # r
    BY <2>1, <1>1, <1>4 DEF Books, Progress
  <2>2. CASE q = r
    <3> DEFINE m == next[r]
    <3>1. items[r] \in Lists /\ m \in Nat /\ m > 0 /\ m <= Len(items[r]) /\ Len(items[r]) \in Nat
      BY <1>1, ListType DEF Books, Progress, HasItem, IInv, TypeOK
    <3>2. ASSUME NEW c \in Codes
          PROVE  taken'[r][c] = SumFunctionOnSet(Asked(items[r], c), 1..m)
      <4>1. taken[r][c] = SumFunctionOnSet(Asked(items[r], c), 1..(m - 1))
        BY <1>1 DEF Books, Progress
      <4>2. SumFunctionOnSet(Asked(items[r], c), 1..m) = taken[r][c] + Asked(items[r], c)[m]
        BY <3>1, <4>1, DemandParts
      <4>3. Asked(items[r], c)[m] = IF c = k THEN n ELSE 0
        BY <1>1, AskedOfItem DEF Books, IInv
      <4>4. taken'[r][c] = IF c = k THEN taken[r][c] + n ELSE taken[r][c]
        BY <1>1, <1>2 DEF Books, IInv, TypeOK
      <4>5. taken[r][c] \in Nat
        BY DEF Books, IInv, TypeOK
      <4> HIDE DEF k, n, m
      <4> QED
        BY <4>2, <4>3, <4>4, <4>5, <1>2
    <3>3. (m + 1) - 1 = m
      BY <3>1
    <3>4. \A c \in Codes : taken'[r][c] = SumFunctionOnSet(Asked(items'[r], c), 1..(next'[r] - 1))
      BY <1>1, <1>4, <3>2, <3>3
    <3> QED
      BY <2>2, <1>1, <1>4, <3>1, <3>4
  <2> QED
    BY <2>1, <2>2
<1>6. Settled'
  <2>1. r \notin applied
    BY <1>1 DEF Books, Settled, Answered, InTx
  <2> QED
    BY <1>1, <1>4, <2>1 DEF Books, Settled, IInv, TypeOK
<1>7. StockConserved'
  BY <1>1, BalanceIdle DEF Books
<1> QED
  BY <1>3, <1>5, <1>6, <1>7 DEF Books

\* What a transaction at its COMMIT has deducted is its whole demand.
LEMMA TakenIsDemand ==
    ASSUME Books, NEW r \in Reqs, pc[r] \in InTx, ~HasItem(r), NEW c \in Codes
    PROVE  taken[r][c] = Demand(items[r])[c] /\ taken[r][c] \in Nat
<1>1. /\ items[r] \in Lists /\ next[r] \in Nat /\ next[r] <= Len(items[r]) + 1
      /\ taken[r][c] = SumFunctionOnSet(Asked(items[r], c), 1..(next[r] - 1))
  BY DEF Books, Progress, IInv, TypeOK
<1>2. Len(items[r]) \in Nat /\ DOMAIN items[r] = 1..Len(items[r])
  BY <1>1, ListType
<1>3. next[r] - 1 = Len(items[r])
  BY <1>1, <1>2 DEF HasItem
<1>4. Demand(items[r])[c] = SumFunctionOnSet(Asked(items[r], c), DOMAIN items[r])
  BY DEF Demand
<1>5. taken[r][c] \in Nat
  BY DEF Books, IInv, TypeOK
<1> QED
  BY <1>1, <1>2, <1>3, <1>4, <1>5

\* COMMIT enters the whole demand of the request in both columns of the books.
LEMMA CommitBooks ==
    ASSUME Books, NEW r \in Reqs, Commit(r)
    PROVE  Books'
<1>1. PICK answer \in Answered :
        /\ pc' = [pc EXCEPT ![r] = answer]
        /\ taken' = [taken EXCEPT ![r] = Nothing]
        /\ items' = items /\ next' = next
  BY DEF Commit, Finish, Answered
<1>2. /\ pc[r] \in InTx /\ ~HasItem(r)
      /\ stock' = [c \in Codes |-> stock[c] - taken[r][c]]
      /\ applied' = applied \cup {r} /\ created' = created /\ restocked' = restocked
  BY DEF Commit, InTx
<1>3. IInv'
  BY CommitIInv DEF Books
<1>4. Progress'
  <2>1. \A q \in Reqs : pc'[q] \notin Answered =>
          pc'[q] = pc[q] /\ taken'[q] = taken[q] /\ items'[q] = items[q] /\ next'[q] = next[q]
    BY <1>1 DEF Books, IInv, TypeOK
  <2>2. "idle" \notin Answered /\ \A place \in InTx : place \notin Answered
    BY DEF Answered, InTx
  <2> QED
    BY <2>1, <2>2 DEF Books, Progress
<1>5. r \notin applied /\ IsFiniteSet(applied)
  BY <1>2 DEF Books, Settled, Answered, InTx
<1>6. Settled'
  <2>1. IsFiniteSet(applied')
    BY <1>2, <1>5, FS_AddElement
  <2>2. \A q \in applied' : pc'[q] \in Answered
    BY <1>1, <1>2 DEF Books, Settled, IInv, TypeOK
  <2>3. \A c \in Codes \ created : stock'[c] = 0
    <3> SUFFICES ASSUME NEW c \in Codes \ created PROVE stock'[c] = 0
      OBVIOUS
    <3>1. taken[r][c] \in Nat /\ ~(taken[r][c] > 0) /\ stock[c] = 0
      BY DEF Books, Settled, IInv, TypeOK, TakenInTx, Holds
    <3> QED
      BY <1>2, <3>1
  <2> QED
    BY <2>1, <2>2, <2>3, <1>2 DEF Settled
<1>7. StockConserved'
  <2> SUFFICES ASSUME NEW c \in Codes
               PROVE  stock'[c] = restocked'[c] -
                        SumFunctionOnSet([q \in Reqs |-> Demand(items'[q])[c]], applied')
    BY DEF StockConserved
  <2> DEFINE h == [q \in Reqs |-> Demand(items[q])[c]]
  <2>1. \A q \in Reqs : h[q] \in Int
    <3>1. \A q \in Reqs : items[q] \in Lists \cup {<<>>} /\ 0 <= Len(items[q])
      BY ListType DEF Books, IInv, TypeOK
    <3>2. \A q \in Reqs : Demand(items[q])[c] \in Nat
      BY <3>1, DemandParts
    <3> QED
      BY <3>2
  <2>2. h[r] = taken[r][c] /\ taken[r][c] \in Nat
    BY <1>2, TakenIsDemand
  <2>3. stock[c] = restocked[c] - SumFunctionOnSet(h, applied) /\ stock'[c] = stock[c] - taken[r][c]
    BY <1>2 DEF Books, StockConserved
  <2> HIDE DEF h
  <2>4. \A q \in applied \cup {r} : h[q] \in Int
    BY <2>1 DEF Books, IInv, TypeOK
  <2>5. SumFunctionOnSet(h, applied \cup {r}) = SumFunctionOnSet(h, applied) + h[r]
    BY <1>5, <2>4, SumAdd
  <2>6. SumFunctionOnSet(h, applied) \in Int /\ restocked[c] \in Int
    BY <1>5, <2>4, SumInt DEF Books, IInv, TypeOK
  <2>7. stock'[c] = restocked[c] - SumFunctionOnSet(h, applied \cup {r})
    BY <2>2, <2>3, <2>5, <2>6
  <2>8. restocked'[c] = restocked[c] /\ applied' = applied \cup {r} /\ items' = items
    BY <1>1, <1>2
  <2> QED
    BY <2>7, <2>8 DEF h
<1> QED
  BY <1>3, <1>4, <1>6, <1>7 DEF Books

\* A POST or a PUT is entered as what it brings.
LEMMA ProductBooks ==
    ASSUME Books, NEW c \in Codes, NEW q \in 0..MaxStock,
           CreateProduct(c, q) \/ UpdateProduct(c, q)
    PROVE  Books'
<1>1. q \in Int /\ stock[c] \in Int /\ restocked[c] \in Int
  BY MaxStockAssumption DEF Books, IInv, TypeOK
<1>2. /\ stock' = [stock EXCEPT ![c] = q]
      /\ UNCHANGED <<pc, items, next, taken, applied>>
      /\ created' \in {created, created \cup {c}} /\ c \in created'
  BY DEF CreateProduct, UpdateProduct
<1>3. restocked'[c] = restocked[c] + q - stock[c]
  <2>1. CASE CreateProduct(c, q)
    <3>1. stock[c] = 0 /\ restocked'[c] = restocked[c] + q
      BY <2>1 DEF CreateProduct, Books, Settled, IInv, TypeOK
    <3> QED
      BY <3>1, <1>1
  <2>2. CASE UpdateProduct(c, q)
    BY <2>2 DEF UpdateProduct, Books, IInv, TypeOK
  <2> QED
    BY <2>1, <2>2
<1>4. \A d \in Codes : d # c => stock'[d] = stock[d] /\ restocked'[d] = restocked[d]
  BY <1>2 DEF CreateProduct, UpdateProduct, Books, IInv, TypeOK
<1>5. stock'[c] = q
  BY <1>2 DEF Books, IInv, TypeOK
<1>6. IInv'
  BY ProductIInv DEF Books
<1>7. Progress'
  BY <1>2 DEF Books, Progress
<1>8. Settled'
  BY <1>2, <1>4 DEF Books, Settled
<1>9. StockConserved'
  <2> SUFFICES ASSUME NEW d \in Codes
               PROVE  stock'[d] = restocked'[d] -
                        SumFunctionOnSet([r \in Reqs |-> Demand(items'[r])[d]], applied')
    BY DEF StockConserved
  <2> DEFINE h == [r \in Reqs |-> Demand(items[r])[d]]
             sum == SumFunctionOnSet(h, applied)
  <2>1. stock[d] = restocked[d] - sum
    BY DEF Books, StockConserved
  <2>2. SumFunctionOnSet([r \in Reqs |-> Demand(items'[r])[d]], applied') = sum
    BY <1>2
  <2>3. sum \in Int
    <3>1. \A r \in Reqs : items[r] \in Lists \cup {<<>>} /\ 0 <= Len(items[r])
      BY ListType DEF Books, IInv, TypeOK
    <3>2. \A r \in Reqs : Demand(items[r])[d] \in Nat
      BY <3>1, DemandParts
    <3>3. \A r \in applied : h[r] \in Int
      BY <3>2 DEF Books, IInv, TypeOK
    <3> HIDE DEF h
    <3> QED
      BY <3>3, SumInt DEF Books, Settled
  <2> HIDE DEF sum
  <2>4. stock'[d] = restocked'[d] - sum
    <3>1. CASE d = c
      BY <3>1, <2>1, <2>3, <1>1, <1>3, <1>5
    <3>2. CASE d # c
      BY <3>2, <2>1, <1>4
    <3> QED
      BY <3>1, <3>2
  <2> QED
    BY <2>2, <2>4
<1> QED
  BY <1>6, <1>7, <1>8, <1>9 DEF Books

\* Every step keeps the books.
LEMMA NextBooks == Books /\ [Next]_vars => Books'
<1> SUFFICES ASSUME Books, [Next]_vars PROVE Books'
  OBVIOUS
<1>1. CASE \E r \in Reqs, list \in Lists : Receive(r, list)
  BY <1>1, ReceiveBooks
<1>2. ASSUME NEW r \in Reqs, Step(r) \/ Abort(r) PROVE Books'
  <2>1. CASE RejectQuantity(r) \/ DeadlockVictim(r) \/ Abort(r) \/ Refuse(r)
    BY <2>1, RollbackBooks DEF RejectQuantity, DeadlockVictim, Abort, Refuse, Answered
  <2>2. CASE Block(r)
    BY <2>2, BlockBooks
  <2>3. CASE Take(r)
    BY <2>3, TakeBooks
  <2>4. CASE Commit(r)
    BY <2>4, CommitBooks
  <2> QED
    BY <1>2, <2>1, <2>2, <2>3, <2>4 DEF Step
<1>3. CASE \E c \in Codes, q \in 0..MaxStock : CreateProduct(c, q) \/ UpdateProduct(c, q)
  BY <1>3, ProductBooks
<1>4. CASE UNCHANGED vars
  <2>1. IInv'
    BY <1>4, NextIInv DEF Books
  <2>2. Progress' /\ Settled' /\ StockConserved'
    BY <1>4 DEF vars, Books, Progress, Settled, StockConserved
  <2> QED
    BY <2>1, <2>2 DEF Books
<1> QED
  BY <1>1, <1>2, <1>3, <1>4 DEF Next

\* The empty table is balanced.
LEMMA InitBooks == Init => Books
<1> SUFFICES ASSUME Init PROVE Books
  OBVIOUS
<1>1. Progress
  BY DEF Init, Progress, InTx
<1>2. Settled
  BY FS_EmptySet DEF Init, Settled, Nothing
<1>3. StockConserved
  BY SumEmpty DEF Init, StockConserved, Nothing
<1> QED
  BY <1>1, <1>2, <1>3, InitIInv DEF Books

\* The books hold of every behaviour.
THEOREM BooksKept == Spec => []Books
<1>1. Books /\ [Next]_vars => Books'
  BY NextBooks
<1> QED
  BY <1>1, InitBooks, PTL DEF Spec

\* The stock of a product is what POSTs and PUTs brought less the whole demand
\* of exactly the committed requests: ConsumeStock takes all of a body or none.
THEOREM Conserved == Spec => []StockConserved
<1>1. Books => StockConserved
  BY DEF Books
<1> QED
  BY <1>1, BooksKept, PTL

-----------------------------------------------------------------------------
(* The refinement: under the mapping of StockTx every step of a transaction *)
(* is a step of the ledger or leaves everything the ledger tells of alone.   *)

\* What the places of a request look like from outside.
LEMMA Verdicts ==
    /\ VerdictAt("idle") = "none"
    /\ \A place \in InTx : VerdictAt(place) = "pending"
    /\ \A place \in Answered : VerdictAt(place) = place
BY DEF VerdictAt, InTx, Answered

\* The caller sees the request that moves, and no other, change.
LEMMA VerdictMoves ==
    ASSUME TypeOK, NEW r \in Reqs, NEW place \in States, pc' = [pc EXCEPT ![r] = place]
    PROVE  VerdictOf' = [VerdictOf EXCEPT ![r] = VerdictAt(place)]
<1>1. \A q \in Reqs : pc'[q] = IF q = r THEN place ELSE pc[q]
  BY DEF TypeOK
<1>2. VerdictOf' = [q \in Reqs |-> VerdictAt(pc'[q])]
  BY DEF VerdictOf, VerdictAt
<1>3. VerdictOf' = [q \in Reqs |-> IF q = r THEN VerdictAt(place) ELSE VerdictAt(pc[q])]
  BY <1>1, <1>2
<1> QED
  BY <1>3 DEF VerdictOf

\* A refused request asks more of the current product than the stock has, or
\* asks for one without a row.
LEMMA RefusedIsUncovered ==
    ASSUME Books, NEW r \in Reqs, pc[r] \in InTx, HasItem(r), Item(r).qty > 0, ~Matches(r)
    PROVE  ~Ledger!Covers(DemandOf[r])
<1> DEFINE k == Item(r).code
           n == Item(r).qty
           m == next[r]
           d == Demand(items[r])[k]
<1>1. k \in Codes /\ n \in Int /\ n > 0
  BY ItemType DEF Books, IInv
<1>2. /\ items[r] \in Lists /\ m \in Nat /\ m > 0 /\ m <= Len(items[r])
      /\ taken[r][k] = SumFunctionOnSet(Asked(items[r], k), 1..(m - 1))
  BY <1>1 DEF Books, Progress, HasItem, IInv, TypeOK
<1>3. Asked(items[r], k)[m] = n
  BY <1>1, AskedOfItem DEF Books, IInv
<1>4. SumFunctionOnSet(Asked(items[r], k), 1..m) = taken[r][k] + n
  BY <1>1, <1>2, <1>3, DemandParts
<1>5. taken[r][k] + n <= d /\ d \in Nat
  BY <1>1, <1>2, <1>4, DemandParts
<1>6. taken[r][k] \in Nat /\ stock[k] \in Int
  BY <1>1 DEF Books, IInv, TypeOK
<1>7. k \notin created \/ taken[r][k] + n > stock[k]
  BY <1>1, <1>6 DEF Matches, Visible
<1>8. d > 0 /\ (k \notin created \/ d > stock[k])
  <2> HIDE DEF d, k, n
  <2> QED
    BY <1>1, <1>5, <1>6, <1>7
<1>9. ~(k \in created /\ d <= stock[k])
  <2> HIDE DEF d, k
  <2> QED
    BY <1>1, <1>5, <1>6, <1>8
<1>10. DemandOf[r][k] = d
  BY DEF DemandOf
<1> QED
  BY <1>1, <1>8, <1>9, <1>10 DEF Ledger!Covers

\* At its COMMIT a transaction asks for rows it has locked and stock that is there.
LEMMA CommittedIsCovered ==
    ASSUME Books, NEW r \in Reqs, pc[r] \in InTx, ~HasItem(r)
    PROVE  Ledger!Covers(DemandOf[r])
<1> SUFFICES ASSUME NEW c \in Codes, DemandOf[r][c] > 0
             PROVE  c \in created /\ DemandOf[r][c] <= stock[c]
  BY DEF Ledger!Covers
<1>1. DemandOf[r][c] = taken[r][c]
  BY TakenIsDemand DEF DemandOf
<1> QED
  BY <1>1 DEF Books, IInv, TakenInTx, ReservationCovered, Holds

\* A transaction that ends without a commit is one failed request.
LEMMA RollbackRefines ==
    ASSUME Books, NEW r \in Reqs, pc[r] \in InTx, Rollback(r, "error")
    PROVE  Ledger!Fail(r)
<1>1. VerdictOf[r] = "pending" /\ VerdictAt("error") = "error"
  BY Verdicts DEF VerdictOf, Answered
<1>2. VerdictOf' = [VerdictOf EXCEPT ![r] = "error"]
  BY <1>1, VerdictMoves DEF Books, IInv, Rollback, Finish, States, Answered
<1>3. UNCHANGED <<created, stock, DemandOf, applied>>
  BY DEF Rollback, Finish, DemandOf
<1> QED
  BY <1>1, <1>2, <1>3 DEF Ledger!Fail

LEMMA RefuseRefines ==
    ASSUME Books, NEW r \in Reqs, Refuse(r)
    PROVE  Ledger!Refuse(r)
<1>1. pc[r] \in InTx /\ Rollback(r, "insufficient")
  BY DEF Refuse
<1>2. ~Ledger!Covers(DemandOf[r])
  BY RefusedIsUncovered DEF Refuse
<1>3. VerdictOf[r] = "pending" /\ VerdictAt("insufficient") = "insufficient"
  BY <1>1, Verdicts DEF VerdictOf, Answered
<1>4. VerdictOf' = [VerdictOf EXCEPT ![r] = "insufficient"]
  BY <1>1, <1>3, VerdictMoves DEF Books, IInv, Rollback, Finish, States, Answered
<1>5. UNCHANGED <<created, stock, DemandOf, applied>>
  BY <1>1 DEF Rollback, Finish, DemandOf
<1> QED
  BY <1>2, <1>3, <1>4, <1>5 DEF Ledger!Refuse

LEMMA CommitRefines ==
    ASSUME Books, NEW r \in Reqs, Commit(r)
    PROVE  Ledger!Consume(r)
<1>1. pc[r] \in InTx /\ ~HasItem(r)
  BY DEF Commit, InTx
<1>2. PICK answer \in {"ok", "error"} : pc' = [pc EXCEPT ![r] = answer]
  BY DEF Commit, Finish
<1>3. VerdictOf[r] = "pending" /\ VerdictAt(answer) = answer
  BY <1>1, Verdicts DEF VerdictOf, Answered
<1>4. VerdictOf' = [VerdictOf EXCEPT ![r] = answer]
  BY <1>2, <1>3, VerdictMoves DEF Books, IInv, States, Answered
<1>5. \A c \in Codes : DemandOf[r][c] = taken[r][c]
  BY <1>1, TakenIsDemand DEF DemandOf
<1>6. stock' = [c \in Codes |-> stock[c] - DemandOf[r][c]]
  BY <1>5 DEF Commit
<1>7. UNCHANGED <<created, DemandOf>> /\ applied' = applied \cup {r}
  BY DEF Commit, Finish, DemandOf
<1>8. Ledger!Covers(DemandOf[r])
  BY <1>1, CommittedIsCovered
<1> QED
  BY <1>3, <1>4, <1>6, <1>7, <1>8 DEF Ledger!Consume

LEMMA ReceiveRefines ==
    ASSUME Books, NEW r \in Reqs, NEW list \in Lists, Receive(r, list)
    PROVE  Ledger!Fail(r) \/ Ledger!Receive(r, Demand(list))
<1>1. /\ pc[r] = "idle"
      /\ items' = [items EXCEPT ![r] = list]
      /\ pc' = [pc EXCEPT ![r] = IF list = <<>> THEN "error" ELSE "exec"]
      /\ UNCHANGED <<created, stock, applied>>
  BY DEF Receive
<1>2. VerdictOf[r] = "none"
  BY <1>1, Verdicts DEF VerdictOf
<1>3. DemandOf' = [DemandOf EXCEPT ![r] = Demand(list)]
  <2>1. \A q \in Reqs : items'[q] = IF q = r THEN list ELSE items[q]
    BY <1>1 DEF Books, IInv, TypeOK
  <2> QED
    BY <2>1 DEF DemandOf
<1>4. CASE list = <<>>
  <2>1. VerdictOf' = [VerdictOf EXCEPT ![r] = "error"]
    <3>1. pc' = [pc EXCEPT ![r] = "error"] /\ VerdictAt("error") = "error"
      BY <1>1, <1>4, Verdicts DEF Answered
    <3> QED
      BY <3>1, VerdictMoves DEF Books, IInv, States, Answered
  <2>2. DemandOf[r] = Demand(list)
    BY <1>1, <1>4 DEF DemandOf, Books, Progress
  <2>3. DemandOf' = DemandOf
    BY <1>3, <2>2 DEF DemandOf
  <2> QED
    BY <1>1, <1>2, <2>1, <2>3 DEF Ledger!Fail
<1>5. CASE list # <<>>
  <2>1. VerdictOf' = [VerdictOf EXCEPT ![r] = "pending"]
    <3>1. pc' = [pc EXCEPT ![r] = "exec"] /\ VerdictAt("exec") = "pending"
      BY <1>1, <1>5, Verdicts DEF InTx
    <3> QED
      BY <3>1, VerdictMoves DEF Books, IInv, States, InTx
  <2> QED
    BY <1>1, <1>2, <1>3, <2>1 DEF Ledger!Receive
<1> QED
  BY <1>4, <1>5

\* Inside a transaction nothing shows.
LEMMA InsideStutters ==
    ASSUME Books, NEW r \in Reqs, Block(r) \/ Take(r)
    PROVE  UNCHANGED <<created, stock, DemandOf, VerdictOf, applied>>
<1>1. pc[r] \in InTx /\ \E place \in InTx : pc' = [pc EXCEPT ![r] = place]
  BY DEF Block, Take, InTx
<1>2. VerdictOf' = [VerdictOf EXCEPT ![r] = "pending"] /\ VerdictOf[r] = "pending"
  <2>1. PICK place \in InTx : pc' = [pc EXCEPT ![r] = place]
    BY <1>1
  <2>2. VerdictOf' = [VerdictOf EXCEPT ![r] = VerdictAt(place)]
    BY <2>1, VerdictMoves DEF Books, IInv, States
  <2> QED
    BY <1>1, <2>2, Verdicts DEF VerdictOf
<1>3. VerdictOf' = VerdictOf
  BY <1>2 DEF VerdictOf
<1> QED
  BY <1>3 DEF Block, Take, DemandOf

LEMMA ProductRefines ==
    ASSUME NEW c \in Codes, NEW q \in 0..MaxStock, CreateProduct(c, q) \/ UpdateProduct(c, q)
    PROVE  Ledger!SetStock(c, q)
<1>1. UNCHANGED <<DemandOf, VerdictOf, applied>>
  BY DEF CreateProduct, UpdateProduct, DemandOf, VerdictOf
<1>2. created' = created \cup {c} /\ stock' = [stock EXCEPT ![c] = q]
  BY DEF CreateProduct, UpdateProduct
<1> QED
  BY <1>1, <1>2 DEF Ledger!SetStock

\* Every step is a step of the ledger or a stutter.
LEMMA StepRefines ==
    Books /\ [Next]_vars => [Ledger!Next]_<<created, stock, DemandOf, VerdictOf, applied>>
<1> SUFFICES ASSUME Books, [Next]_vars
             PROVE  Ledger!Next \/ UNCHANGED <<created, stock, DemandOf, VerdictOf, applied>>
  OBVIOUS
<1>1. ASSUME NEW r \in Reqs, NEW list \in Lists, Receive(r, list)
      PROVE  Ledger!Next
  <2>1. Demand(list) \in {Demand(l) : l \in Lists}
    OBVIOUS
  <2> QED
    BY <1>1, <2>1, ReceiveRefines DEF Ledger!Next
<1>2. ASSUME NEW r \in Reqs, Step(r) \/ Abort(r)
      PROVE  Ledger!Next \/ UNCHANGED <<created, stock, DemandOf, VerdictOf, applied>>
  <2>1. CASE RejectQuantity(r) \/ DeadlockVictim(r) \/ Abort(r)
    <3>1. Rollback(r, "error")
      BY <2>1 DEF RejectQuantity, DeadlockVictim, Abort
    <3>2. pc[r] \in InTx
      BY <2>1 DEF RejectQuantity, DeadlockVictim, WaitCycle, WaitsFor, Abort, InTx
    <3> QED
      BY <3>1, <3>2, RollbackRefines DEF Ledger!Next
  <2>2. CASE Refuse(r)
    BY <2>2, RefuseRefines DEF Ledger!Next
  <2>3. CASE Commit(r)
    BY <2>3, CommitRefines DEF Ledger!Next
  <2>4. CASE Block(r) \/ Take(r)
    BY <2>4, InsideStutters
  <2> QED
    BY <1>2, <2>1, <2>2, <2>3, <2>4 DEF Step
<1>3. ASSUME NEW c \in Codes, NEW q \in 0..MaxStock, CreateProduct(c, q) \/ UpdateProduct(c, q)
      PROVE  Ledger!Next
  BY <1>3, ProductRefines DEF Ledger!Next
<1>4. CASE UNCHANGED vars
  BY <1>4 DEF vars, DemandOf, VerdictOf
<1> QED
  BY <1>1, <1>2, <1>3, <1>4 DEF Next

\* The empty table is the empty ledger.
LEMMA InitRefines == Init => Ledger!Init
<1> SUFFICES ASSUME Init PROVE Ledger!Init
  OBVIOUS
<1>1. DOMAIN <<>> = {}
  OBVIOUS
<1>2. \A c \in Codes : SumFunctionOnSet(Asked(<<>>, c), DOMAIN <<>>) = 0
  BY <1>1, SumEmpty
<1>3. DemandOf = [r \in Reqs |-> [c \in Codes |-> 0]]
  BY <1>2 DEF Init, DemandOf, Demand
<1>4. VerdictOf = [r \in Reqs |-> "none"]
  BY Verdicts DEF Init, VerdictOf
<1> QED
  BY <1>3, <1>4 DEF Init, Nothing, Ledger!Init, Ledger!NoRequests, Ledger!NoDemand

\* ConsumeStock keeps the promise of StockLedger: seen from its callers, each
\* request takes its whole demand in one step or nothing, and is refused only
\* when the committed stock does not cover it.
THEOREM Refinement == Spec => ImplementsLedger
<1>1. Books /\ [Next]_vars => [Ledger!Next]_<<created, stock, DemandOf, VerdictOf, applied>>
  BY StepRefines
<1> QED
  BY <1>1, InitRefines, BooksKept, PTL DEF Spec, ImplementsLedger, Ledger!Spec, Ledger!ledgerVars
=============================================================================
