------------------------------ MODULE Breaker ------------------------------
(* The circuit breaker the Faturamento service keeps in memory for its      *)
(* calls to Estoque.  Its methods run under a mutex, so each is one step.   *)
EXTENDS Integers

CONSTANT Threshold    \* consecutive failures that open the breaker

VARIABLES failures,   \* failures recorded since the last success or reset
          open,       \* BOOLEAN
          cooled      \* open, and resetTimeout has passed since openedAt

breakerVars == <<failures, open, cooled>>

BreakerInit == failures = 0 /\ open = FALSE /\ cooled = FALSE

\* allow() answers true.
Admits == open => cooled

\* Mutant: the reset closes the breaker and forgets the count.
AllowKeepingCount ==
    /\ Admits
    /\ open' = FALSE
    /\ cooled' = FALSE
    /\ UNCHANGED failures

\* allow(): the first call after the timeout closes the breaker on its way.
Allow ==
    /\ Admits
    /\ failures' = IF open THEN 0 ELSE failures
    /\ open' = FALSE
    /\ cooled' = FALSE

\* Reaching the threshold opens the breaker; failures of calls that are still
\* under way count on, and each of them restarts the timeout.
RecordFailure ==
    /\ failures' = failures + 1
    /\ open' = (open \/ failures + 1 >= Threshold)
    /\ cooled' = (cooled /\ failures + 1 < Threshold)

\* Mutant: a success closes the breaker and leaves the count.
RecordSuccessKeepingCount ==
    /\ open' = FALSE
    /\ cooled' = FALSE
    /\ UNCHANGED failures

RecordSuccess ==
    /\ failures' = 0
    /\ open' = FALSE
    /\ cooled' = FALSE

\* resetTimeout passes.
Elapse ==
    /\ open /\ ~cooled
    /\ cooled' = TRUE
    /\ UNCHANGED <<failures, open>>
=============================================================================
