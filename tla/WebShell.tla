------------------------------ MODULE WebShell ------------------------------
(* The parts of the web application that a timer drives: the toolbar and the *)
(* activity page.  They share no state but the services they hear of, which  *)
(* come and go at any time, so a behaviour exercises one of them.            *)
EXTENDS ActivityFeed, Toolbar

VARIABLE part           \* the part that this behaviour exercises

shellVars == <<vars, bar, part>>

ShellInit == Init /\ BarInit /\ part \in {"feed", "toolbar"}

OnFeed == part = "feed" /\ Next /\ UNCHANGED <<bar, part>>
OnToolbar == part = "toolbar" /\ BarNext /\ UNCHANGED <<tables, web, part>>

ShellNext == OnFeed \/ OnToolbar

\* The fairness of each part; the other part has nothing to do.
ShellSpec == ShellInit /\ [][ShellNext]_shellVars /\ Fairness /\ BarFairness
=============================================================================
