----------------------------- MODULE PageLoads -----------------------------
(* How the products page and the invoices page load their lists: every load *)
(* is a subscription of its own that only leaving the page cancels, so      *)
(* answers come in any order and the last to arrive is shown.               *)
EXTENDS Naturals, SequencesExt

CONSTANTS MaxLoads,     \* bound: loads in flight at once
          EmptyList     \* what a page shows before its first answer

VARIABLES here,         \* is the page open?
          shown,        \* the list on the page
          loads,        \* Seq([answered, list]): loads in flight, as they were asked
          garbled       \* history: has a load failed or been overtaken since the
                        \* list was last loaded with no other load in flight?

pageVars == <<here, shown, loads, garbled>>

Asked == [answered |-> FALSE, list |-> EmptyList]

Init == here = FALSE /\ shown = EmptyList /\ loads = <<>> /\ garbled = FALSE

\* ngOnInit of a new component loads at once.
Enter ==
    /\ ~here
    /\ here' = TRUE /\ shown' = EmptyList /\ loads' = <<Asked>> /\ garbled' = FALSE

\* ngOnDestroy cancels the loads.
Leave ==
    /\ here
    /\ here' = FALSE /\ shown' = EmptyList /\ loads' = <<>> /\ UNCHANGED garbled

\* Mutant: what has been done is not loaded again.
NoReload == UNCHANGED pageVars

\* One more load, next to those in flight.
Reload ==
    /\ Len(loads) < MaxLoads
    /\ loads' = Append(loads, Asked)
    /\ garbled' = (garbled /\ loads # <<>>)
    /\ UNCHANGED <<here, shown>>

\* The service reads its committed table.
ServeLoad(n, table) ==
    /\ n \in DOMAIN loads /\ ~loads[n].answered
    /\ loads' = [loads EXCEPT ![n] = [answered |-> TRUE, list |-> table]]
    /\ garbled' = (garbled \/ \E m \in 1..(n - 1) : ~loads[m].answered)
    /\ UNCHANGED <<here, shown>>

ShowLoad(n) ==
    /\ n \in DOMAIN loads /\ loads[n].answered
    /\ shown' = loads[n].list
    /\ loads' = RemoveAt(loads, n)
    /\ garbled' = (garbled \/ n > 1)
    /\ UNCHANGED here

\* An error answer: a message, and the list stays.
LoadFails(n) ==
    /\ n \in DOMAIN loads
    /\ loads' = RemoveAt(loads, n)
    /\ garbled' = TRUE
    /\ UNCHANGED <<here, shown>>
=============================================================================
