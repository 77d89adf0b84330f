------------------------------- MODULE Toolbar -------------------------------
(* The toolbar of the web application: a badge per service, kept by a poll   *)
(* whose checks nothing orders, and one button that starts or stops it.      *)
(* An action that Control has begun goes on when its connection breaks and   *)
(* when logging out destroys the toolbar: nobody waits for it any more.      *)
EXTENDS Backend, Naturals, SequencesExt

CONSTANTS MaxChecks,    \* bound: health checks of a service in flight at once
          MaxActions    \* bound: actions that Control executes at once

Nobody == "nobody"

VARIABLES shell,        \* is the toolbar on the screen?
          badge,        \* [Services -> BOOLEAN]: isUp()
          busy,         \* the service being started or stopped, or Nobody
          checks,       \* [Services -> Seq]: health checks in flight
          posted        \* actions in Control, and whether the toolbar awaits them

bar == <<shell, badge, busy, checks, posted>>
barVars == <<up, bar>>

NoChecks == [s \in Services |-> <<>>]
Down == [s \in Services |-> FALSE]

BarInit ==
    /\ up \in [Services -> BOOLEAN]
    /\ shell = FALSE /\ badge = Down /\ busy = Nobody
    /\ checks = NoChecks /\ posted = <<>>

-----------------------------------------------------------------------------
\* ngOnInit checks both services at once.
LogIn ==
    /\ ~shell
    /\ shell' = TRUE /\ badge' = Down /\ busy' = Nobody
    /\ checks' = [s \in Services |-> <<"asked">>]
    /\ UNCHANGED <<up, posted>>

\* ngOnDestroy, at logout: nothing is heard any more, and Control goes on.
LogOut ==
    /\ shell
    /\ shell' = FALSE /\ badge' = Down /\ busy' = Nobody /\ checks' = NoChecks
    /\ posted' = [n \in DOMAIN posted |-> [posted[n] EXCEPT !.awaited = FALSE]]
    /\ UNCHANGED up

\* interval(5000): both services, of which one may be at the bound.
Poll ==
    /\ shell
    /\ checks' = [s \in Services |-> IF Len(checks[s]) < MaxChecks
                                     THEN Append(checks[s], "asked") ELSE checks[s]]
    /\ UNCHANGED <<shell, up, badge, busy, posted>>

\* The service answers, or the proxy does in its place.
ServeCheck(s) ==
    \E n \in DOMAIN checks[s] :
       /\ checks[s][n] = "asked"
       /\ checks' = [checks EXCEPT ![s][n] = IF up[s] THEN "up" ELSE "down"]
       /\ UNCHANGED <<shell, up, badge, busy, posted>>

\* Mutant: check() without catchError, so that a failure tells the badge nothing.
HearSuccess(s) ==
    \E n \in DOMAIN checks[s] :
       /\ checks[s][n] # "asked"
       /\ badge' = [badge EXCEPT ![s] = @ \/ checks[s][n] = "up"]
       /\ checks' = [checks EXCEPT ![s] = RemoveAt(@, n)]
       /\ UNCHANGED <<shell, up, busy, posted>>

\* The last answer to arrive stays on the badge, however old it is.
HearCheck(s) ==
    \E n \in DOMAIN checks[s] :
       /\ checks[s][n] # "asked"
       /\ badge' = [badge EXCEPT ![s] = checks[s][n] = "up"]
       /\ checks' = [checks EXCEPT ![s] = RemoveAt(@, n)]
       /\ UNCHANGED <<shell, up, busy, posted>>

-----------------------------------------------------------------------------
Post(s) ==
    /\ Len(posted) < MaxActions
    /\ busy' = s
    /\ posted' = Append(posted, [of |-> s, awaited |-> TRUE])
    /\ UNCHANGED <<shell, up, badge, checks>>

\* Mutant: only the button of the busy service is disabled.
ToggleOther(s) ==
    /\ shell /\ busy # s
    /\ Post(s)

\* toggleService(): stop where the badge says up, start where it says down.
ToggleService(s) ==
    /\ shell /\ busy = Nobody
    /\ Post(s)

\* Mutant: only a success calls afterToggle().
AfterSuccess(s, ok) ==
    IF ok THEN /\ Len(checks[s]) < MaxChecks
               /\ busy' = Nobody
               /\ checks' = [checks EXCEPT ![s] = Append(@, "asked")]
          ELSE UNCHANGED <<busy, checks>>

\* afterToggle(), which an error answer calls like a success: one more check.
AfterToggle(s, ok) ==
    /\ Len(checks[s]) < MaxChecks
    /\ busy' = Nobody
    /\ checks' = [checks EXCEPT ![s] = Append(@, "asked")]

\* Control answers, or it has not received the action, or it dies.
ActionEnds(n) ==
    /\ n \in DOMAIN posted
    /\ posted' = RemoveAt(posted, n)
    /\ IF posted[n].awaited THEN \E ok \in BOOLEAN : AfterToggle(posted[n].of, ok)
                            ELSE UNCHANGED <<busy, checks>>
    /\ UNCHANGED <<shell, up, badge>>

\* The connection breaks, which the browser takes for the end of the action.  The
\* handler does not look at the request's context: Control goes on.
ConnectionBreaks(n) ==
    /\ n \in DOMAIN posted /\ posted[n].awaited
    /\ posted' = [posted EXCEPT ![n].awaited = FALSE]
    /\ AfterToggle(posted[n].of, FALSE)
    /\ UNCHANGED <<shell, up, badge>>

-----------------------------------------------------------------------------
Checked == \E s \in Services : ServeCheck(s) \/ HearCheck(s)
Acted == \E n \in 1..MaxActions : ActionEnds(n)

BarNext ==
    \/ LogIn \/ LogOut \/ Poll \/ Checked \/ Acted
    \/ \E n \in 1..MaxActions : ConnectionBreaks(n)
    \/ \E s \in Services : (Turn(s) /\ UNCHANGED bar) \/ ToggleService(s)

BarSpec == BarInit /\ [][BarNext]_barVars

\* The interval ticks, every check is answered by the service or the proxy, and
\* Control answers every action (EveryActionAnswered of Supervisor).  No
\* connection has to break.
BarFairness ==
    /\ WF_barVars(Poll)
    /\ \A s \in Services : WF_barVars(ServeCheck(s)) /\ WF_barVars(HearCheck(s))
    /\ SF_barVars(Acted)

-----------------------------------------------------------------------------
\* Of the actions that Control executes the toolbar awaits one at most, and its
\* buttons are disabled exactly that long, for the service it is about.  So what
\* overlaps in Control are actions nobody awaits: only a broken connection or a
\* logout takes an action from what Supervisor calls "in turn".
OneAwaited ==
    LET awaited == {n \in DOMAIN posted : posted[n].awaited}
    IN  /\ \A m, n \in awaited : m = n
        /\ {posted[n].of : n \in awaited} = {busy} \ {Nobody}

\* A badge tells the truth in the end and for good, however late the answers of
\* earlier checks arrive, once its service stays as it is.
BadgeSettles ==
    \A s \in Services, state \in BOOLEAN :
       <>[](shell /\ up[s] = state) => <>[](badge[s] = state)

\* The buttons are enabled again after every action, also a failed one.
BusyEnds == busy # Nobody ~> busy = Nobody
=============================================================================
