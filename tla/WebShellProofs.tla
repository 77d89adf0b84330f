--------------------------- MODULE WebShellProofs ---------------------------
(* What a timer drives, for any number of rows, loads, checks and actions:   *)
(* the progress bar, the loads and the rows of the activity page, the one    *)
(* action the toolbar awaits, and that the two share only the services.      *)
EXTENDS WebShell, FiniteSetTheorems, SequenceTheorems, TLAPS

-----------------------------------------------------------------------------
\* The activity page.

\* The switchMap has at most one load in flight, and none without a stream.
OneLoad == \A l, m \in loads : l = m

FlagsOK == page \in BOOLEAN /\ live \in BOOLEAN /\ loading \in BOOLEAN

FeedInv ==
    /\ FlagsOK
    /\ OneLoad
    /\ live => page
    /\ loads # {} => live
    /\ LoadingTold

\* The page is closed at first.
LEMMA FeedInvInit == Init => FeedInv
BY DEF Init, FeedInv, FlagsOK, OneLoad, LoadingTold

\* A step of a load that leaves the load in flight keeps the invariant.
LEMMA FeedInvBecomes ==
    ASSUME FeedInv, NEW l \in loads, NEW m, Becomes(l, m),
           UNCHANGED <<page, live, loading>>
    PROVE  FeedInv'
<1>1. loads = {l}
  BY DEF FeedInv, OneLoad
<1>2. loads' = {m}
  BY <1>1 DEF Becomes
<1>3. loading /\ live /\ page
  BY DEF FeedInv, FlagsOK, LoadingTold
<1>. QED
  BY <1>2, <1>3 DEF FeedInv, FlagsOK, OneLoad, LoadingTold

\* Every step keeps the invariant: one step per action of the page.
LEMMA FeedInvStep == FeedInv /\ [Next]_vars => FeedInv'
<1>. SUFFICES ASSUME FeedInv, [Next]_vars PROVE FeedInv'
  OBVIOUS
<1>1. CASE UNCHANGED web
  BY <1>1 DEF web, FeedInv, FlagsOK, OneLoad, LoadingTold
<1>2. CASE Open
  BY <1>2 DEF Open, FeedInv, FlagsOK, OneLoad, LoadingTold
<1>3. CASE Close
  BY <1>3 DEF Close, FeedInv, FlagsOK, OneLoad, LoadingTold
<1>4. CASE Reload
  BY <1>4 DEF Reload, FeedInv, FlagsOK, OneLoad, LoadingTold
<1>5. ASSUME NEW s \in Services, Serve(s) PROVE FeedInv'
  <2>1. PICK l \in loads : \E m : Becomes(l, m)
    BY <1>5 DEF Serve
  <2>2. UNCHANGED <<page, live, loading>>
    BY <1>5 DEF Serve
  <2>. QED
    BY <2>1, <2>2, FeedInvBecomes
<1>6. CASE FetchSecond
  <2>1. PICK l \in loads : \E m : Becomes(l, m)
    BY <1>6 DEF FetchSecond
  <2>2. UNCHANGED <<page, live, loading>>
    BY <1>6 DEF FetchSecond
  <2>. QED
    BY <2>1, <2>2, FeedInvBecomes
<1>7. CASE Show
  <2>1. PICK l \in loads : loads' = loads \ {l}
    BY <1>7 DEF Show
  <2>2. loads' = {} /\ live
    BY <2>1 DEF FeedInv, OneLoad
  <2>3. loading' = FALSE /\ UNCHANGED <<page, live>>
    BY <1>7 DEF Show
  <2>. QED
    BY <2>2, <2>3 DEF FeedInv, FlagsOK, OneLoad, LoadingTold
<1>8. CASE FetchFails
  <2>1. loads # {} /\ live' = FALSE /\ loads' = {} /\ UNCHANGED <<page, loading>>
    BY <1>8 DEF FetchFails
  <2>2. loading /\ page
    BY <2>1 DEF FeedInv, FlagsOK, LoadingTold
  <2>. QED
    BY <2>1, <2>2 DEF FeedInv, FlagsOK, OneLoad, LoadingTold
<1>9. ASSUME NEW s \in Services,
             Log(s) \/ Toggle(s) \/ \E r \in Rows : Insert(s, r) \/ LogFails(s, r)
      PROVE  UNCHANGED web
  BY <1>9 DEF Log, Toggle, Insert, LogFails
<1>. QED
  BY <1>1, <1>2, <1>3, <1>4, <1>5, <1>6, <1>7, <1>8, <1>9 DEF Next, vars

\* The progress bar says whether a load is in flight, whatever the timer, the
\* user, the services and Control do, except on a stream that has ended.
THEOREM ProgressBar == Spec => []LoadingTold
<1>1. Spec => []FeedInv
  BY FeedInvInit, FeedInvStep, PTL DEF Spec
<1>2. FeedInv => LoadingTold
  BY DEF FeedInv
<1>. QED
  BY <1>1, <1>2, PTL

\* A reload never lets two loads compete for the page.
THEOREM LoadsDoNotCompete == Spec => []OneLoad
<1>1. Spec => []FeedInv
  BY FeedInvInit, FeedInvStep, PTL DEF Spec
<1>2. FeedInv => OneLoad
  BY DEF FeedInv
<1>. QED
  BY <1>1, <1>2, PTL
-----------------------------------------------------------------------------
\* How many rows are newer than r; List keeps those with fewer than Limit.
Newer(rows, r) == Cardinality({q \in rows : q > r})

\* Of two rows, the older one has more newer rows.
LEMMA OlderHasMore ==
    ASSUME NEW rows \in SUBSET Rows, NEW r \in rows, NEW q \in rows, r < q
    PROVE  Newer(rows, q) < Newer(rows, r)
<1>. DEFINE afterR == {x \in rows : x > r}
            afterQ == {x \in rows : x > q}
<1>1. rows \subseteq Nat
  BY LimitAssumption DEF LimitAssumption, Rows
<1>2. IsFiniteSet(1..MaxRows)
  BY FS_Interval, LimitAssumption DEF LimitAssumption
<1>3. IsFiniteSet(afterR)
  <2>1. afterR \in SUBSET (1..MaxRows)
    BY DEF Rows
  <2>. QED
    BY <1>2, <2>1, FS_Subset
<1>4. afterQ \in SUBSET afterR
  <2>. SUFFICES ASSUME NEW x \in rows, x > q PROVE x > r
    OBVIOUS
  <2>1. x \in Nat /\ q \in Nat /\ r \in Nat
    BY <1>1
  <2>. QED
    BY <2>1
<1>5. q \in afterR /\ q \notin afterQ
  BY <1>1
<1>6. IsFiniteSet(afterQ) /\ Cardinality(afterQ) <= Cardinality(afterR)
      /\ Cardinality(afterQ) # Cardinality(afterR)
  BY <1>3, <1>4, <1>5, FS_Subset
<1>7. Cardinality(afterQ) \in Nat /\ Cardinality(afterR) \in Nat
  BY <1>3, <1>6, FS_CardinalityType
<1>8. Cardinality(afterQ) < Cardinality(afterR)
  BY <1>6, <1>7
<1>. QED
  BY <1>8 DEF Newer

\* LIMIT: the number of newer rows tells the rows of a list apart, and there are
\* Limit such numbers.
LEMMA ListFits ==
    ASSUME NEW rows \in SUBSET Rows
    PROVE  List(rows) \in Window
<1>. DEFINE list == List(rows)
            place == [r \in list |-> Newer(rows, r)]
            places == 0..(Limit - 1)
<1>1. list \in SUBSET rows /\ \A r \in list : Newer(rows, r) < Limit
  BY DEF List, Newer
<1>2. \A r \in list : Newer(rows, r) \in Nat
  <2>. SUFFICES ASSUME NEW r \in list PROVE Newer(rows, r) \in Nat
    OBVIOUS
  <2>1. IsFiniteSet(1..MaxRows)
    BY FS_Interval, LimitAssumption DEF LimitAssumption
  <2>2. {q \in rows : q > r} \in SUBSET (1..MaxRows)
    BY DEF Rows
  <2>. QED
    BY <2>1, <2>2, FS_Subset, FS_CardinalityType DEF Newer
<1>3. place \in [list -> places]
  BY <1>1, <1>2, LimitAssumption DEF LimitAssumption
<1>4. ASSUME NEW r \in list, NEW q \in list, place[r] = place[q] PROVE r = q
  <2>1. r \in rows /\ q \in rows /\ rows \subseteq Nat
    <3>1. rows \subseteq Nat
      BY LimitAssumption DEF LimitAssumption, Rows
    <3>. QED
      BY <1>1, <3>1
  <2>2. Newer(rows, r) = Newer(rows, q) /\ Newer(rows, r) \in Nat
    BY <1>2, <1>4
  <2>3. ~(r < q)
    BY <2>1, <2>2, OlderHasMore
  <2>4. ~(q < r)
    BY <2>1, <2>2, OlderHasMore
  <2>. QED
    BY <2>1, <2>3, <2>4
<1>5. place \in Injection(list, places)
  BY <1>3, <1>4 DEF Injection, IsInjective
<1>6. IsFiniteSet(places) /\ Cardinality(places) = Limit
  BY FS_Interval, LimitAssumption DEF LimitAssumption
<1>7. Cardinality(list) <= Limit
  <2>. HIDE DEF list, place, places
  <2>1. Cardinality(list) <= Cardinality(places)
    BY <1>5, <1>6, FS_Injection
  <2>. QED
    BY <1>6, <2>1
<1>. QED
  BY <1>1, <1>7 DEF Window

\* What a load carries is as short as what a service answers.
TypeInv == TypeOK /\ \A l \in loads : l.got \in [Services -> Window]

LEMMA NothingFits == Nothing \in [Services -> Window]
<1>1. {} \in Window
  BY FS_EmptySet, LimitAssumption DEF Window, LimitAssumption
<1>. QED
  BY <1>1 DEF Nothing

LEMMA TypeInvInit == Init => TypeInv
<1>. SUFFICES ASSUME Init PROVE TypeInv
  OBVIOUS
<1>1. Nothing \in [Services -> Window] /\ Nothing \in [Services -> SUBSET Rows]
  BY NothingFits DEF Nothing
<1>2. [s \in Services |-> TRUE] \in [Services -> BOOLEAN]
  OBVIOUS
<1>3. [s \in Services |-> 0] \in [Services -> 0..MaxRows]
  BY LimitAssumption DEF LimitAssumption
<1>4. TypeOK
  BY <1>1, <1>2, <1>3 DEF Init, TypeOK
<1>. QED
  BY <1>4 DEF Init, TypeInv

LEMMA TypeInvStep == TypeInv /\ [Next]_vars => TypeInv'
<1>. SUFFICES ASSUME TypeInv, [Next]_vars PROVE TypeInv'
  OBVIOUS
<1>. USE LimitAssumption DEF LimitAssumption, TypeInv, TypeOK, backend, tables, web
<1>1. ASSUME NEW s \in Services, Log(s) PROVE TypeInv'
  BY <1>1 DEF Log, Rows
<1>2. ASSUME NEW s \in Services, NEW r \in Rows, Insert(s, r) \/ LogFails(s, r) PROVE TypeInv'
  BY <1>2 DEF Insert, LogFails
<1>3. ASSUME NEW s \in Services, Toggle(s) PROVE TypeInv'
  BY <1>3 DEF Toggle, Turn
<1>4. CASE Open \/ Reload
  <2>1. FirstFetch \in Load /\ FirstFetch.got \in [Services -> Window]
    BY NothingFits DEF FirstFetch, Load, Nothing, Services
  <2>. QED
    BY <1>4, <2>1 DEF Open, Reload
<1>5. CASE Close
  BY <1>5, NothingFits DEF Close
<1>6. ASSUME NEW s \in Services, Serve(s) PROVE TypeInv'
  <2>1. PICK l \in loads :
          /\ \/ Becomes(l, [l EXCEPT !.answer = "ok", !.got[s] = List(table[s])])
             \/ Becomes(l, [l EXCEPT !.answer = "failed"])
          /\ UNCHANGED <<backend, page, live, logs, loading>>
    BY <1>6 DEF Serve
  <2>2. List(table[s]) \in Window /\ List(table[s]) \in SUBSET Rows
    BY ListFits DEF List
  <2>3. ASSUME NEW m \in Load, m.got \in [Services -> Window], Becomes(l, m)
        PROVE  TypeInv'
    BY <2>1, <2>3 DEF Becomes
  <2>4. [l EXCEPT !.answer = "failed"] \in Load
        /\ [l EXCEPT !.answer = "failed"].got \in [Services -> Window]
    BY <2>1 DEF Load
  <2>5. /\ [l EXCEPT !.answer = "ok", !.got[s] = List(table[s])] \in Load
        /\ [l EXCEPT !.answer = "ok", !.got[s] = List(table[s])].got \in [Services -> Window]
    BY <2>1, <2>2 DEF Load
  <2>. QED
    BY <2>1, <2>3, <2>4, <2>5
<1>7. CASE FetchSecond
  <2>1. PICK l \in loads :
          /\ Becomes(l, [l EXCEPT !.at = "faturamento", !.answer = "none"])
          /\ UNCHANGED <<backend, page, live, logs, loading>>
    BY <1>7 DEF FetchSecond
  <2>2. /\ [l EXCEPT !.at = "faturamento", !.answer = "none"] \in Load
        /\ [l EXCEPT !.at = "faturamento", !.answer = "none"].got \in [Services -> Window]
    BY <2>1 DEF Load, Services
  <2>. QED
    BY <2>1, <2>2 DEF Becomes
<1>8. CASE Show \/ FetchFails
  BY <1>8 DEF Show, FetchFails
<1>9. CASE UNCHANGED vars
  BY <1>9 DEF vars
<1>. QED
  BY <1>1, <1>2, <1>3, <1>4, <1>5, <1>6, <1>7, <1>8, <1>9 DEF Next

\* The feed keeps its types for any number of rows; above all, the page never
\* shows more than Limit rows of a service.
THEOREM TypeCorrect == Spec => []TypeOK
<1>1. Spec => []TypeInv
  BY TypeInvInit, TypeInvStep, PTL DEF Spec
<1>2. TypeInv => TypeOK
  BY DEF TypeInv
<1>. QED
  BY <1>1, <1>2, PTL
-----------------------------------------------------------------------------
\* What the page forgets.

\* Load l brings the answer of s.
Brings(l, s) ==
    \/ l.at = "faturamento" /\ s = "estoque"
    \/ l.at = s /\ l.answer = "ok"

\* A row the page shows is still in the list that a load brings, or Limit newer
\* rows of that list have pushed it out.
Remembers(l) ==
    \A s \in Services : Brings(l, s) =>
       \A r \in logs[s] : r \in l.got[s] \/ PushedOut(r, l.got[s])

\* A table only grows: what was read of it, by the page or by a load on its way,
\* is still there.
Memory ==
    /\ \A s \in Services : logs[s] \subseteq table[s]
    /\ \A l \in loads : \A s \in Services : l.got[s] \subseteq table[s]
    /\ \A l \in loads : Remembers(l)

\* What a list of the newest rows leaves out is pushed out by what it has.
LEMMA ListRemembers ==
    ASSUME NEW rows \in SUBSET Rows, NEW r \in rows
    PROVE  r \in List(rows) \/ PushedOut(r, List(rows))
<1>. DEFINE list == List(rows)
            newer == {q \in rows : q > r}
            kept == {q \in list : q > r}
            missing == newer \ list
            counts == {Newer(rows, m) : m \in missing}
<1>1. rows \subseteq Nat
  BY LimitAssumption DEF LimitAssumption, Rows
<1>2. IsFiniteSet(rows)
  <2>1. IsFiniteSet(1..MaxRows)
    BY FS_Interval, LimitAssumption DEF LimitAssumption
  <2>. QED
    BY <2>1, FS_Subset DEF Rows
<1>3. \A T \in SUBSET rows : IsFiniteSet(T) /\ Cardinality(T) \in Nat
  BY <1>2, FS_Subset, FS_CardinalityType
<1>4. list \in SUBSET rows /\ kept \in SUBSET rows /\ newer \in SUBSET rows
  BY DEF List
<1>5. SUFFICES ASSUME r \notin list, Cardinality(kept) < Limit PROVE FALSE
  BY <1>3, <1>4, LimitAssumption DEF PushedOut, LimitAssumption
<1>6. Cardinality(newer) >= Limit
  BY <1>3, <1>4, <1>5, LimitAssumption DEF List, LimitAssumption
<1>7. missing # {}
  <2>. SUFFICES ASSUME missing = {} PROVE FALSE
    OBVIOUS
  <2>1. newer = kept
    BY <1>4
  <2>. QED
    BY <1>3, <1>4, <1>5, <1>6, <2>1, LimitAssumption DEF LimitAssumption
<1>8. counts \subseteq Nat /\ counts # {}
  BY <1>3, <1>7 DEF Newer
<1>9. PICK n \in counts : \A k \in counts : ~ (<<k, n>> \in OpToRel(<, Nat))
  BY <1>8, NatLessThanWellFounded, WFMin
<1>10. PICK m \in missing : n = Newer(rows, m)
  BY <1>9
<1>11. {q \in rows : q > m} \in SUBSET kept
  <2>. SUFFICES ASSUME NEW q \in rows, q > m PROVE q \in kept
    OBVIOUS
  <2>1. q \in Nat /\ m \in Nat /\ r \in Nat /\ m > r /\ m \in rows
    BY <1>1, <1>10
  <2>2. Newer(rows, q) < n
    BY <1>10, <2>1, OlderHasMore
  <2>3. Newer(rows, q) \in Nat /\ n \in Nat
    BY <1>3, <1>8, <1>9 DEF Newer
  <2>4. <<Newer(rows, q), n>> \in OpToRel(<, Nat)
    BY <2>2, <2>3 DEF OpToRel
  <2>5. q \notin missing
    BY <1>9, <2>4
  <2>. QED
    BY <2>1, <2>5
<1>12. Cardinality({q \in rows : q > m}) < Limit
  <2>1. Cardinality({q \in rows : q > m}) <= Cardinality(kept)
    <3>. HIDE DEF kept
    <3>. QED
      BY <1>3, <1>4, <1>11, FS_Subset
  <2>2. {q \in rows : q > m} \in SUBSET rows
    OBVIOUS
  <2>. QED
    BY <1>3, <1>4, <1>5, <2>1, <2>2, LimitAssumption DEF LimitAssumption
<1>. QED
  BY <1>10, <1>12 DEF List

LEMMA MemoryInit == Init => Memory
BY DEF Init, Memory, Nothing

\* A step of the only load in flight keeps the memory when what it becomes does.
LEMMA MemoryBecomes ==
    ASSUME Memory, FeedInv, NEW l \in loads, NEW m, Becomes(l, m),
           UNCHANGED <<table, logs>>,
           \A s \in Services : m.got[s] \subseteq table[s], Remembers(m)
    PROVE  Memory'
<1>1. loads' = {m}
  BY DEF FeedInv, OneLoad, Becomes
<1>2. Remembers(m)'
  BY DEF Remembers, Brings
<1>. QED
  BY <1>1, <1>2 DEF Memory

\* What a load brings does not change while the page and the load stay.
LEMMA MemoryGrows ==
    ASSUME Memory, UNCHANGED <<loads, logs>>,
           \A s \in Services : table[s] \subseteq table'[s]
    PROVE  Memory'
BY DEF Memory, Remembers, Brings

\* A load that begins brings nothing yet.
LEMMA FirstRemembers == Remembers(FirstFetch)
BY DEF Remembers, Brings, FirstFetch

\* The answer of a service remembers what the page read of the same table.
LEMMA ServeRemembers ==
    ASSUME Memory, FeedInv, TypeInv, NEW s \in Services, Serve(s)
    PROVE  Memory'
<1>1. PICK l \in loads :
        /\ l.at = s /\ l.answer = "none"
        /\ \/ Becomes(l, [l EXCEPT !.answer = "ok", !.got[s] = List(table[s])])
           \/ Becomes(l, [l EXCEPT !.answer = "failed"])
        /\ UNCHANGED <<backend, page, live, logs, loading>>
  BY DEF Serve
<1>2. UNCHANGED <<table, logs>>
  BY <1>1 DEF backend, tables
<1>3. l \in Load /\ l.got \in [Services -> SUBSET Rows] /\ table \in [Services -> SUBSET Rows]
  BY <1>1 DEF TypeInv, TypeOK, Load
<1>4. Remembers(l) /\ \A t \in Services : logs[t] \subseteq table[t] /\ l.got[t] \subseteq table[t]
  BY <1>1 DEF Memory
<1>5. CASE Becomes(l, [l EXCEPT !.answer = "failed"])
  <2>. DEFINE m == [l EXCEPT !.answer = "failed"]
  <2>1. m.got = l.got /\ m.at = l.at /\ m.answer = "failed"
    BY <1>3 DEF Load
  <2>2. Remembers(m)
    BY <1>4, <2>1 DEF Remembers, Brings
  <2>. HIDE DEF m
  <2>. QED
    BY <1>1, <1>2, <1>4, <1>5, <2>1, <2>2, MemoryBecomes DEF m
<1>6. CASE Becomes(l, [l EXCEPT !.answer = "ok", !.got[s] = List(table[s])])
  <2>. DEFINE m == [l EXCEPT !.answer = "ok", !.got[s] = List(table[s])]
  <2>1. m.got = [l.got EXCEPT ![s] = List(table[s])] /\ m.at = s /\ m.answer = "ok"
    BY <1>1, <1>3 DEF Load
  <2>2. m.got[s] = List(table[s]) /\ \A t \in Services \ {s} : m.got[t] = l.got[t]
    BY <1>3, <2>1
  <2>3. \A r \in logs[s] : r \in m.got[s] \/ PushedOut(r, m.got[s])
    BY <1>3, <1>4, <2>2, ListRemembers
  <2>4. ASSUME NEW t \in Services, t # s, Brings(m, t) PROVE Brings(l, t)
    BY <1>1, <2>1, <2>4 DEF Brings
  <2>. HIDE DEF m
  <2>5. Remembers(m)
    BY <1>4, <2>2, <2>3, <2>4 DEF Remembers
  <2>6. \A t \in Services : m.got[t] \subseteq table[t]
    BY <1>4, <2>2 DEF List
  <2>. QED
    BY <1>1, <1>2, <1>6, <2>5, <2>6, MemoryBecomes DEF m
<1>. QED
  BY <1>1, <1>5, <1>6

\* One step per action of the page; the services only add rows.
LEMMA MemoryStep == Memory /\ FeedInv /\ TypeInv /\ [Next]_vars => Memory'
<1>. SUFFICES ASSUME Memory, FeedInv, TypeInv, [Next]_vars PROVE Memory'
  OBVIOUS
<1>1. ASSUME NEW s \in Services,
             Log(s) \/ Toggle(s) \/ \E r \in Rows : Insert(s, r) \/ LogFails(s, r)
      PROVE  Memory'
  <2>1. UNCHANGED <<loads, logs>>
    BY <1>1 DEF Log, Toggle, Insert, LogFails, web
  <2>2. \A t \in Services : table[t] \subseteq table'[t]
    BY <1>1 DEF Log, Toggle, Insert, LogFails, tables, TypeInv, TypeOK
  <2>. QED
    BY <2>1, <2>2, MemoryGrows
<1>2. ASSUME NEW s \in Services, Serve(s) PROVE Memory'
  BY <1>2, ServeRemembers
<1>3. CASE Open \/ Reload
  <2>1. loads' = {FirstFetch} /\ UNCHANGED <<table, logs>>
    BY <1>3 DEF Open, Reload, backend, tables
  <2>2. Remembers(FirstFetch)'
    BY <2>1 DEF Remembers, Brings, FirstFetch
  <2>3. \A s \in Services : FirstFetch.got[s] \subseteq table'[s]
    BY DEF FirstFetch, Nothing
  <2>. QED
    BY <2>1, <2>2, <2>3 DEF Memory
<1>4. CASE Close
  BY <1>4 DEF Close, Memory, Nothing
<1>5. CASE FetchSecond
  <2>1. PICK l \in loads :
          /\ l.at = "estoque" /\ l.answer = "ok"
          /\ Becomes(l, [l EXCEPT !.at = "faturamento", !.answer = "none"])
          /\ UNCHANGED <<backend, page, live, logs, loading>>
    BY <1>5 DEF FetchSecond
  <2>. DEFINE m == [l EXCEPT !.at = "faturamento", !.answer = "none"]
  <2>2. l \in Load
    BY <2>1 DEF TypeInv, TypeOK
  <2>3. m.got = l.got /\ m.at = "faturamento" /\ m.answer = "none"
    BY <2>2 DEF Load
  <2>4. Remembers(m)
    BY <2>1, <2>3 DEF Memory, Remembers, Brings
  <2>5. \A s \in Services : m.got[s] \subseteq table[s]
    BY <2>1, <2>3 DEF Memory
  <2>6. UNCHANGED <<table, logs>>
    BY <2>1 DEF backend, tables
  <2>. HIDE DEF m
  <2>. QED
    BY <2>1, <2>4, <2>5, <2>6, MemoryBecomes DEF m
<1>6. CASE Show
  <2>1. PICK l \in loads : loads' = loads \ {l} /\ logs' = l.got /\ UNCHANGED backend
    BY <1>6 DEF Show
  <2>2. loads' = {}
    BY <2>1 DEF FeedInv, OneLoad
  <2>. QED
    BY <2>1, <2>2 DEF Memory, backend, tables
<1>7. CASE FetchFails
  BY <1>7 DEF FetchFails, Memory, backend, tables
<1>8. CASE UNCHANGED vars
  <2>1. UNCHANGED <<loads, logs, table>>
    BY <1>8 DEF vars, web, backend, tables
  <2>. QED
    BY <2>1, MemoryGrows
<1>. QED
  BY <1>1, <1>2, <1>3, <1>4, <1>5, <1>6, <1>7, <1>8 DEF Next

\* FEED: what a step takes from the page is pushed out by what it puts there.
LEMMA Forgetting ==
    Memory /\ FeedInv /\ [Next]_vars
       => [page /\ page' => \A s \in Services : \A r \in logs[s] :
              r \in logs'[s] \/ PushedOut(r, logs'[s])]_vars
<1>. SUFFICES ASSUME Memory, FeedInv, [Next]_vars, page, page',
                     NEW s \in Services, NEW r \in logs[s]
              PROVE  r \in logs'[s] \/ PushedOut(r, logs'[s])
  OBVIOUS
<1>1. CASE Show
  <2>1. PICK l \in loads : l.at = "faturamento" /\ l.answer = "ok" /\ logs' = l.got
    BY <1>1 DEF Show
  <2>2. Brings(l, s)
    BY <2>1 DEF Brings, Services
  <2>. QED
    BY <2>1, <2>2 DEF Memory, Remembers
<1>2. CASE ~Show
  <2>1. ~Open /\ ~Close
    BY DEF Open, Close
  <2>2. logs' = logs
    BY <1>2, <2>1 DEF Next, Log, Toggle, Serve, Insert, LogFails, Reload, FetchSecond,
                      FetchFails, vars, web
  <2>. QED
    BY <2>2
<1>. QED
  BY <1>1, <1>2

\* FEED: a row the page shows stays until Limit newer rows of its service push
\* it out, for any number of rows, whatever is cancelled, fails or is late.
THEOREM NeverForgets == Spec => FeedNeverForgets
<1>1. Init => Memory /\ FeedInv /\ TypeInv
  BY MemoryInit, FeedInvInit, TypeInvInit
<1>2. Memory /\ FeedInv /\ TypeInv /\ [Next]_vars => (Memory /\ FeedInv /\ TypeInv)'
  BY MemoryStep, FeedInvStep, TypeInvStep
<1>. QED
  BY <1>1, <1>2, Forgetting, PTL DEF Spec, FeedNeverForgets
-----------------------------------------------------------------------------
\* The toolbar.

Actions == [of : Services, awaited : BOOLEAN]

TurnInv ==
    /\ posted \in Seq(Actions)
    /\ ~shell => busy = Nobody
    /\ OneAwaited

\* An action that leaves Control moves the younger ones up.
LEMMA RemoveMoves ==
    ASSUME NEW S, NEW s \in Seq(S), NEW n \in DOMAIN s
    PROVE  /\ RemoveAt(s, n) \in Seq(S)
           /\ Len(RemoveAt(s, n)) = Len(s) - 1
           /\ \A m \in 1..(Len(s) - 1) :
                 RemoveAt(s, n)[m] = IF m < n THEN s[m] ELSE s[m + 1]
<1>. DEFINE front == SubSeq(s, 1, n - 1)
            back == SubSeq(s, n + 1, Len(s))
<1>1. Len(s) \in Nat /\ n \in 1..Len(s)
  OBVIOUS
<1>2. /\ front \in Seq(S) /\ Len(front) = n - 1
      /\ \A m \in 1..(n - 1) : front[m] = s[m]
  BY <1>1
<1>3. /\ back \in Seq(S) /\ Len(back) = Len(s) - n
      /\ \A m \in 1..(Len(s) - n) : back[m] = s[m + n]
  BY <1>1
<1>4. RemoveAt(s, n) = front \o back
  BY DEF RemoveAt
<1>. HIDE DEF front, back
<1>5. front \o back \in Seq(S) /\ Len(front \o back) = Len(s) - 1
  BY <1>1, <1>2, <1>3
<1>6. ASSUME NEW m \in 1..(Len(s) - 1)
      PROVE  (front \o back)[m] = IF m < n THEN s[m] ELSE s[m + 1]
  <2>1. CASE m < n
    BY <1>1, <1>2, <1>3, <2>1
  <2>2. CASE ~(m < n)
    <3>1. m - (n - 1) \in 1..(Len(s) - n) /\ (m - (n - 1)) + n = m + 1
      BY <1>1, <2>2
    <3>2. m \in 1..(Len(front) + Len(back)) /\ ~(m <= Len(front))
      BY <1>1, <1>2, <1>3, <2>2
    <3>3. (front \o back)[m] = back[m - Len(front)]
      BY <1>2, <1>3, <3>2, ConcatProperties
    <3>. QED
      BY <1>2, <1>3, <2>2, <3>1, <3>3
  <2>. QED
    BY <2>1, <2>2
<1>. QED
  BY <1>4, <1>5, <1>6

\* An action that nobody awaits any more is an action.
LEMMA AbandonedAction ==
    ASSUME NEW a \in Actions
    PROVE  [a EXCEPT !.awaited = FALSE] \in Actions /\ ~[a EXCEPT !.awaited = FALSE].awaited
BY DEF Actions

\* Which actions are awaited is all that the buttons depend on.
LEMMA AwaitedFrees ==
    ASSUME \A m \in DOMAIN posted' : ~posted'[m].awaited, busy' = Nobody
    PROVE  OneAwaited'
BY DEF OneAwaited

\* The end of an action leaves the others as they are: of the one that was
\* awaited none, of another one the awaited one.
LEMMA EndKeepsOne ==
    ASSUME TurnInv, NEW n \in DOMAIN posted, ActionEnds(n)
    PROVE  posted' \in Seq(Actions) /\ OneAwaited'
<1>1. posted \in Seq(Actions) /\ posted' = RemoveAt(posted, n)
  BY DEF TurnInv, ActionEnds
<1>2. /\ posted' \in Seq(Actions) /\ Len(posted') = Len(posted) - 1
      /\ \A m \in 1..(Len(posted) - 1) :
            posted'[m] = IF m < n THEN posted[m] ELSE posted[m + 1]
  BY <1>1, RemoveMoves
<1>. DEFINE from(m) == IF m < n THEN m ELSE m + 1
<1>3. /\ DOMAIN posted = 1..Len(posted) /\ Len(posted) \in Nat
      /\ DOMAIN posted' = 1..(Len(posted) - 1)
  BY <1>1, <1>2
<1>4. \A m \in DOMAIN posted' :
        from(m) \in DOMAIN posted /\ from(m) # n /\ posted'[m] = posted[from(m)]
  BY <1>2, <1>3
<1>5. \A m, k \in DOMAIN posted' : from(m) = from(k) => m = k
  BY <1>3
<1>6. \A k \in DOMAIN posted : k # n => \E m \in DOMAIN posted' : from(m) = k
  <2>. SUFFICES ASSUME NEW k \in DOMAIN posted, k # n
                PROVE  \E m \in DOMAIN posted' : from(m) = k
    OBVIOUS
  <2>1. CASE k < n
    <3>1. k \in DOMAIN posted' /\ from(k) = k
      BY <1>3, <2>1
    <3>. QED
      BY <3>1
  <2>2. CASE ~(k < n)
    <3>1. k - 1 \in DOMAIN posted' /\ from(k - 1) = k
      BY <1>3, <2>2
    <3>. QED
      BY <3>1
  <2>. QED
    BY <2>1, <2>2
<1>. HIDE DEF from
<1>7. CASE posted[n].awaited
  <2>1. \A k \in DOMAIN posted : k # n => ~posted[k].awaited
    BY <1>7 DEF TurnInv, OneAwaited
  <2>2. \A m \in DOMAIN posted' : ~posted'[m].awaited
    BY <1>4, <2>1
  <2>3. busy' = Nobody
    BY <1>7 DEF ActionEnds, AfterToggle
  <2>. QED
    BY <1>2, <2>2, <2>3, AwaitedFrees
<1>8. CASE ~posted[n].awaited
  <2>. DEFINE awaited == {m \in DOMAIN posted : posted[m].awaited}
              still == {m \in DOMAIN posted' : posted'[m].awaited}
  <2>1. busy' = busy
    BY <1>8 DEF ActionEnds
  <2>2. \A m, k \in awaited : m = k
    BY DEF TurnInv, OneAwaited
  <2>3. {posted[m].of : m \in awaited} = {busy} \ {Nobody}
    BY DEF TurnInv, OneAwaited
  <2>4. \A m \in still : from(m) \in awaited /\ posted'[m].of = posted[from(m)].of
    BY <1>4
  <2>5. \A k \in awaited : \E m \in still : from(m) = k
    BY <1>4, <1>6, <1>8
  <2>6. \A m, k \in still : m = k
    BY <1>5, <2>2, <2>4
  <2>7. {posted'[m].of : m \in still} = {posted[m].of : m \in awaited}
    <3>. HIDE DEF awaited, still
    <3>. QED
      BY <2>4, <2>5
  <2>. QED
    BY <1>2, <2>1, <2>3, <2>6, <2>7 DEF OneAwaited
<1>. QED
  BY <1>7, <1>8

\* No toolbar, no action at first.
LEMMA TurnInvInit == BarInit => TurnInv
BY DEF BarInit, TurnInv, OneAwaited

\* One step per action that touches the actions or their button.
LEMMA TurnInvStep == TurnInv /\ [BarNext]_barVars => TurnInv'
<1>. SUFFICES ASSUME TurnInv, [BarNext]_barVars PROVE TurnInv'
  OBVIOUS
<1>0. posted \in Seq(Actions) /\ DOMAIN posted = 1..Len(posted) /\ Len(posted) \in Nat
  BY DEF TurnInv
<1>1. CASE UNCHANGED <<shell, busy, posted>>
  BY <1>1 DEF TurnInv, OneAwaited
<1>2. CASE LogIn
  <2>1. busy = Nobody /\ busy' = Nobody /\ shell' /\ UNCHANGED posted
    BY <1>2 DEF LogIn, TurnInv
  <2>. QED
    BY <2>1 DEF TurnInv, OneAwaited
<1>3. CASE LogOut
  <2>1. posted' = [n \in DOMAIN posted |-> [posted[n] EXCEPT !.awaited = FALSE]]
        /\ busy' = Nobody
    BY <1>3 DEF LogOut
  <2>2. \A n \in DOMAIN posted :
          /\ [posted[n] EXCEPT !.awaited = FALSE] \in Actions
          /\ ~[posted[n] EXCEPT !.awaited = FALSE].awaited
    <3>1. \A n \in DOMAIN posted : posted[n] \in Actions
      BY <1>0
    <3>. QED
      BY <3>1, AbandonedAction
  <2>3. posted' \in Seq(Actions)
    BY <1>0, <2>1, <2>2
  <2>4. \A n \in DOMAIN posted' : ~posted'[n].awaited
    BY <2>1, <2>2
  <2>. QED
    BY <2>1, <2>3, <2>4, AwaitedFrees DEF TurnInv
<1>4. ASSUME NEW s \in Services, ToggleService(s) PROVE TurnInv'
  <2>. DEFINE new == [of |-> s, awaited |-> TRUE]
  <2>1. busy = Nobody /\ busy' = s /\ shell /\ UNCHANGED shell /\ posted' = Append(posted, new)
    BY <1>4 DEF ToggleService, Post
  <2>2. s # Nobody /\ new \in Actions
    BY DEF Services, Nobody, Actions
  <2>3. \A n \in DOMAIN posted : ~posted[n].awaited
    BY <2>1 DEF TurnInv, OneAwaited
  <2>4. /\ posted' \in Seq(Actions)
        /\ DOMAIN posted' = DOMAIN posted \cup {Len(posted) + 1}
        /\ posted'[Len(posted) + 1] = new
        /\ \A n \in DOMAIN posted : posted'[n] = posted[n]
    BY <1>0, <2>1, <2>2
  <2>5. {n \in DOMAIN posted' : posted'[n].awaited} = {Len(posted) + 1}
    BY <2>3, <2>4
  <2>6. {posted'[n].of : n \in {Len(posted) + 1}} = {busy'}
    BY <2>1, <2>4
  <2>. QED
    BY <2>1, <2>2, <2>4, <2>5, <2>6 DEF TurnInv, OneAwaited
<1>5. ASSUME NEW n \in 1..MaxActions, ActionEnds(n) PROVE TurnInv'
  <2>1. n \in DOMAIN posted /\ UNCHANGED shell
    BY <1>5 DEF ActionEnds
  <2>2. ~shell => busy' = Nobody
    BY <1>5 DEF ActionEnds, AfterToggle, TurnInv
  <2>. QED
    BY <1>5, <2>1, <2>2, EndKeepsOne DEF TurnInv
<1>6. ASSUME NEW n \in 1..MaxActions, ConnectionBreaks(n) PROVE TurnInv'
  <2>1. /\ n \in DOMAIN posted /\ posted[n].awaited
        /\ posted' = [posted EXCEPT ![n].awaited = FALSE]
        /\ busy' = Nobody /\ UNCHANGED shell
    BY <1>6 DEF ConnectionBreaks, AfterToggle
  <2>2. [posted[n] EXCEPT !.awaited = FALSE] \in Actions
        /\ ~[posted[n] EXCEPT !.awaited = FALSE].awaited
    <3>1. posted[n] \in Actions
      BY <1>0, <2>1
    <3>. QED
      BY <3>1, AbandonedAction
  <2>3. posted' \in Seq(Actions)
    BY <1>0, <2>1, <2>2
  <2>4. \A m \in DOMAIN posted : m # n => ~posted[m].awaited
    BY <2>1 DEF TurnInv, OneAwaited
  <2>5. \A m \in DOMAIN posted' : ~posted'[m].awaited
    BY <1>0, <2>1, <2>2, <2>4
  <2>. QED
    BY <2>1, <2>3, <2>5, AwaitedFrees DEF TurnInv
<1>7. CASE Poll
  BY <1>1, <1>7 DEF Poll
<1>8. ASSUME NEW s \in Services, ServeCheck(s) \/ HearCheck(s) \/ UNCHANGED bar PROVE TurnInv'
  BY <1>1, <1>8 DEF ServeCheck, HearCheck, bar
<1>9. CASE UNCHANGED barVars
  BY <1>1, <1>9 DEF barVars, bar
<1>. QED
  BY <1>2, <1>3, <1>4, <1>5, <1>6, <1>7, <1>8, <1>9 DEF BarNext, Checked, Acted

\* The toolbar awaits one action at most, that of its busy service, whatever the
\* services, the answers, the connections and the user do.
THEOREM OneAction == BarSpec => []OneAwaited
<1>1. BarSpec => []TurnInv
  BY TurnInvInit, TurnInvStep, PTL DEF BarSpec
<1>2. TurnInv => OneAwaited
  BY DEF TurnInv
<1>. QED
  BY <1>1, <1>2, PTL
-----------------------------------------------------------------------------
\* The shell is the activity page and the toolbar next to each other: a step of
\* one is, for the other, nothing or a service that starts or stops.
THEOREM PartsAlone == ShellSpec => Spec /\ BarSpec
<1>1. ShellInit => Init /\ BarInit
  BY DEF ShellInit
<1>2. ASSUME OnFeed PROVE [Next]_vars /\ [BarNext]_barVars
  <2>1. Next /\ UNCHANGED bar
    BY <1>2 DEF OnFeed
  <2>2. UNCHANGED up \/ \E s \in Services : Turn(s)
    BY <2>1 DEF Next, Log, Insert, LogFails, Toggle, Open, Close, Reload, Becomes, Serve,
                FetchSecond, Show, FetchFails, backend
  <2> QED
    BY <2>1, <2>2 DEF BarNext, barVars
<1>3. ASSUME OnToolbar PROVE [Next]_vars /\ [BarNext]_barVars
  <2>1. BarNext /\ UNCHANGED <<tables, web>>
    BY <1>3 DEF OnToolbar
  <2>2. UNCHANGED up \/ \E s \in Services : Turn(s)
    BY <2>1 DEF BarNext, LogIn, LogOut, Poll, Checked, Acted, ServeCheck, HearCheck,
                ActionEnds, ConnectionBreaks, ToggleService, Post
  <2> QED
    BY <2>1, <2>2 DEF Next, Toggle, vars, backend
<1>4. UNCHANGED shellVars => UNCHANGED vars /\ UNCHANGED barVars
  BY DEF shellVars, vars, backend, barVars
<1>5. [ShellNext]_shellVars => [Next]_vars /\ [BarNext]_barVars
  BY <1>2, <1>3, <1>4 DEF ShellNext
<1> QED
  BY <1>1, <1>5, PTL DEF ShellSpec, Spec, BarSpec
=============================================================================
