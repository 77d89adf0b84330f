---------------------------- MODULE ActivityFeed ----------------------------
(* The activity logs of the two services and the page that shows them.      *)
(* Handlers append rows whose failure is only logged; the page reloads on a *)
(* timer, a new load cancels the one in flight, and a load asks the two     *)
(* services one after the other.  A failed answer ends the stream for good. *)
EXTENDS Backend, Naturals, FiniteSets

CONSTANTS MaxRows,      \* bound: rows that each service may begin
          Limit         \* rows the page asks a service for

Rows == 1..MaxRows      \* in the order of created_at, id

ASSUME LimitAssumption == MaxRows \in Nat /\ Limit \in Nat \ {0}

VARIABLES begun,        \* [Services -> Nat]: rows whose created_at is taken
          writing,      \* [Services -> SUBSET Rows]: inserts under way
          table,        \* [Services -> SUBSET Rows]: activity_logs
          page,         \* is the page open?
          live,         \* is reload$ still subscribed?
          loads,        \* the loads in flight
          logs,         \* [Services -> SUBSET Rows]: what the page shows
          loading       \* the progress bar

tables == <<begun, writing, table>>
backend == <<up, tables>>
web == <<page, live, loads, logs, loading>>
vars == <<backend, web>>

Nothing == [s \in Services |-> {}]
Load == [at : Services, answer : {"none", "ok", "failed"}, got : [Services -> SUBSET Rows]]
FirstFetch == [at |-> "estoque", answer |-> "none", got |-> Nothing]

Init ==
    /\ up = [s \in Services |-> TRUE]
    /\ begun = [s \in Services |-> 0]
    /\ writing = Nothing /\ table = Nothing
    /\ page = FALSE /\ live = FALSE /\ loads = {} /\ logs = Nothing /\ loading = FALSE

-----------------------------------------------------------------------------
\* An operation of service s reports what it did; rows of concurrent requests
\* become visible in any order.
Log(s) ==
    /\ up[s] /\ begun[s] < MaxRows
    /\ begun' = [begun EXCEPT ![s] = @ + 1]
    /\ writing' = [writing EXCEPT ![s] = @ \cup {begun[s] + 1}]
    /\ UNCHANGED <<up, table, web>>

Insert(s, r) ==
    /\ r \in writing[s]
    /\ writing' = [writing EXCEPT ![s] = @ \ {r}]
    /\ table' = [table EXCEPT ![s] = @ \cup {r}]
    /\ UNCHANGED <<up, begun, web>>

\* The request's context has ended or the statement fails: a line on the
\* console, and the operation stands without its row.
LogFails(s, r) ==
    /\ r \in writing[s]
    /\ writing' = [writing EXCEPT ![s] = @ \ {r}]
    /\ UNCHANGED <<up, begun, table, web>>

\* Control stops and starts a service, or it crashes.
Toggle(s) ==
    /\ Turn(s)
    /\ UNCHANGED <<tables, web>>

\* Mutant: the window is one row too long.
OneTooMany(rows) == {r \in rows : Cardinality({q \in rows : q > r}) <= Limit}

\* Mutant: ORDER BY created_at without DESC.
Oldest(rows) == {r \in rows : Cardinality({q \in rows : q < r}) < Limit}

\* ORDER BY created_at DESC, id DESC LIMIT n.
List(rows) == {r \in rows : Cardinality({q \in rows : q > r}) < Limit}

-----------------------------------------------------------------------------
\* ngOnInit: subscribe, start the interval, and load at once.
Open ==
    /\ ~page
    /\ page' = TRUE /\ live' = TRUE /\ loads' = {FirstFetch} /\ loading' = TRUE
    /\ UNCHANGED <<backend, logs>>

\* ngOnDestroy: takeUntil cancels everything, and the component is gone.
Close ==
    /\ page
    /\ page' = FALSE /\ live' = FALSE /\ loads' = {} /\ logs' = Nothing /\ loading' = FALSE
    /\ UNCHANGED backend

\* Mutant: mergeMap, which lets the loads in flight come home.
ReloadMerging ==
    /\ live /\ Cardinality(loads) < 2
    /\ loads' = loads \cup {FirstFetch}
    /\ loading' = TRUE
    /\ UNCHANGED <<backend, page, live, logs>>

\* The interval or the button: switchMap cancels the load in flight.
Reload ==
    /\ live
    /\ loads' = {FirstFetch}
    /\ loading' = TRUE
    /\ UNCHANGED <<backend, page, live, logs>>

Becomes(l, m) == loads' = (loads \ {l}) \cup {m}

\* GET /logs at service s; without the service the proxy answers an error.
Serve(s) ==
    \E l \in loads :
       /\ l.at = s /\ l.answer = "none"
       /\ IF up[s] THEN Becomes(l, [l EXCEPT !.answer = "ok", !.got[s] = List(table[s])])
                   ELSE Becomes(l, [l EXCEPT !.answer = "failed"])
       /\ UNCHANGED <<backend, page, live, logs, loading>>

\* The logs of Estoque are here; those of Faturamento are asked for only now.
FetchSecond ==
    \E l \in loads :
       /\ l.at = "estoque" /\ l.answer = "ok"
       /\ Becomes(l, [l EXCEPT !.at = "faturamento", !.answer = "none"])
       /\ UNCHANGED <<backend, page, live, logs, loading>>

\* Mutant: the progress bar is not taken away.
ShowStillLoading ==
    \E l \in loads :
       /\ l.at = "faturamento" /\ l.answer = "ok"
       /\ loads' = loads \ {l}
       /\ logs' = l.got
       /\ UNCHANGED <<backend, page, live, loading>>

\* Both are here: merge, sort and show.
Show ==
    \E l \in loads :
       /\ l.at = "faturamento" /\ l.answer = "ok"
       /\ loads' = loads \ {l}
       /\ logs' = l.got /\ loading' = FALSE
       /\ UNCHANGED <<backend, page, live>>

\* No catchError: the error ends the stream, and nothing puts loading back.
FetchFails ==
    \E l \in loads :
       /\ l.answer = "failed"
       /\ live' = FALSE /\ loads' = {}
       /\ UNCHANGED <<backend, page, logs, loading>>

-----------------------------------------------------------------------------
Next ==
    \/ \E s \in Services :
          \/ Log(s) \/ Toggle(s) \/ Serve(s)
          \/ \E r \in Rows : Insert(s, r) \/ LogFails(s, r)
    \/ Open \/ Close \/ Reload \/ FetchSecond \/ Show \/ FetchFails

Spec == Init /\ [][Next]_vars

\* The interval keeps ticking, and answers are not overtaken by the next tick
\* every single time: a load takes milliseconds, a period three seconds.
Fairness ==
    /\ WF_vars(Reload)
    /\ \A s \in Services : SF_vars(Serve(s))
    /\ SF_vars(FetchSecond) /\ SF_vars(Show) /\ SF_vars(FetchFails)

FairSpec == Spec /\ Fairness

-----------------------------------------------------------------------------
Window == {rows \in SUBSET Rows : Cardinality(rows) <= Limit}

TypeOK ==
    /\ up \in [Services -> BOOLEAN]
    /\ begun \in [Services -> 0..MaxRows]
    /\ writing \in [Services -> SUBSET Rows]
    /\ table \in [Services -> SUBSET Rows]
    /\ page \in BOOLEAN /\ live \in BOOLEAN /\ loading \in BOOLEAN
    /\ loads \subseteq Load
    /\ logs \in [Services -> Window]

PushedOut(r, rows) == Cardinality({q \in rows : q > r}) >= Limit

\* A row the page shows stays there until Limit newer rows push it out: no late
\* answer of an earlier load ever takes the page back.
FeedNeverForgets ==
    [][page /\ page' => \A s \in Services : \A r \in logs[s] :
          r \in logs'[s] \/ PushedOut(r, logs'[s])]_vars

\* The progress bar says whether a load is in flight, with one exception: a
\* stream that a failed answer has ended looks like one that is loading.
LoadingTold == page => (loading <=> loads # {} \/ ~live)

\* "com atualizacao automatica a cada 3s": a row of either table is shown in the
\* end, or pushed out by newer ones, unless the page is left or its stream ends.
FeedCatchesUp ==
    \A s \in Services : \A r \in Rows :
       live /\ r \in table[s] ~> ~live \/ r \in logs[s] \/ PushedOut(r, table[s])
=============================================================================
