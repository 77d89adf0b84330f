--------------------------- MODULE EstoqueClient ---------------------------
(* EstoqueClient.ConsumeStock: the calls of concurrent print handlers share *)
(* one breaker, and each call retries transient errors with a backoff.      *)
(* What Estoque answers is left open here; PrintFlow supplies it.           *)
EXTENDS Integers, FiniteSets

CONSTANTS Calls,        \* goroutines that call ConsumeStock
          Threshold,    \* of the breaker
          MaxRetries    \* requests a call may repeat after the first one

ASSUME CallsAssumption == IsFiniteSet(Calls)
ASSUME ThresholdAssumption == Threshold \in Nat \ {0}
ASSUME MaxRetriesAssumption == MaxRetries \in Nat

VARIABLES failures, open, cooled,   \* the breaker
          phase,      \* [Calls -> Phases]
          attempt,    \* [Calls -> Nat]: requests sent so far by this call
          result      \* [Calls -> Results]: what ConsumeStock returned

breaker == <<failures, open, cooled>>
callVars == <<phase, attempt, result>>
vars == <<failures, open, cooled, phase, attempt, result>>

B == INSTANCE Breaker

Phases == {"idle", "sending", "backoff", "returned"}
Refusals == {"insufficient", "not_found", "bad_status"}
Results == {"none", "ok", "unavailable", "cancelled"} \cup Refusals

Init ==
    /\ B!BreakerInit
    /\ phase = [c \in Calls |-> "idle"]
    /\ attempt = [c \in Calls |-> 0]
    /\ result = [c \in Calls |-> "none"]

Return(c, outcome) ==
    /\ phase' = [phase EXCEPT ![c] = "returned"]
    /\ result' = [result EXCEPT ![c] = outcome]
    /\ UNCHANGED attempt

\* The breaker admits the call, which sends its first request.
Begin(c) ==
    /\ phase[c] = "idle"
    /\ B!Allow
    /\ phase' = [phase EXCEPT ![c] = "sending"]
    /\ attempt' = [attempt EXCEPT ![c] = 1]
    /\ UNCHANGED result

\* "circuit breaker open": nothing is sent and nothing is recorded.
FailFast(c) ==
    /\ phase[c] = "idle"
    /\ ~B!Admits
    /\ Return(c, "unavailable")
    /\ UNCHANGED breaker

\* Status 200.
Succeed(c) ==
    /\ phase[c] = "sending"
    /\ B!RecordSuccess
    /\ Return(c, "ok")

\* Status 409, 404 or another below 500: not retried, recorded as a failure.
Refused(c, refusal) ==
    /\ phase[c] = "sending"
    /\ B!RecordFailure
    /\ Return(c, refusal)

\* Mutant: one retry too many.
BackOffOnceMore(c) ==
    /\ phase[c] = "sending"
    /\ attempt[c] <= MaxRetries + 1
    /\ phase' = [phase EXCEPT ![c] = "backoff"]
    /\ UNCHANGED <<breaker, attempt, result>>

\* A transport error or a status from 500 on, with retries left.
BackOff(c) ==
    /\ phase[c] = "sending"
    /\ attempt[c] <= MaxRetries
    /\ phase' = [phase EXCEPT ![c] = "backoff"]
    /\ UNCHANGED <<breaker, attempt, result>>

\* The same on the last attempt.
GiveUp(c) ==
    /\ phase[c] = "sending"
    /\ attempt[c] > MaxRetries
    /\ B!RecordFailure
    /\ Return(c, "unavailable")

\* Mutant: the attempts are not counted.
RetryUncounted(c) ==
    /\ phase[c] = "backoff"
    /\ phase' = [phase EXCEPT ![c] = "sending"]
    /\ UNCHANGED <<breaker, attempt, result>>

Retry(c) ==
    /\ phase[c] = "backoff"
    /\ phase' = [phase EXCEPT ![c] = "sending"]
    /\ attempt' = [attempt EXCEPT ![c] = @ + 1]
    /\ UNCHANGED <<breaker, result>>

\* The request context ends during the backoff: ctx.Err() is returned and the
\* breaker is told nothing.
Cancel(c) ==
    /\ phase[c] = "backoff"
    /\ Return(c, "cancelled")
    /\ UNCHANGED breaker

\* The handler is done with the call; its goroutine slot serves another.
Reuse(c) ==
    /\ phase[c] = "returned"
    /\ phase' = [phase EXCEPT ![c] = "idle"]
    /\ attempt' = [attempt EXCEPT ![c] = 0]
    /\ result' = [result EXCEPT ![c] = "none"]
    /\ UNCHANGED breaker

Elapse == B!Elapse /\ UNCHANGED callVars

\* Every request comes to an end: the HTTP client gives up after its timeout.
Conclude(c) ==
    \/ Succeed(c)
    \/ \E refusal \in Refusals : Refused(c, refusal)
    \/ BackOff(c)
    \/ GiveUp(c)

Next ==
    \/ \E c \in Calls : Begin(c) \/ FailFast(c) \/ Conclude(c) \/ Retry(c)
                          \/ Cancel(c) \/ Reuse(c)
    \/ Elapse

Spec == Init /\ [][Next]_vars

-----------------------------------------------------------------------------
InFlight == {c \in Calls : phase[c] \in {"sending", "backoff"}}

TypeOK ==
    /\ failures \in Nat
    /\ open \in BOOLEAN /\ cooled \in BOOLEAN
    /\ phase \in [Calls -> Phases]
    /\ attempt \in [Calls -> 0..(MaxRetries + 1)]
    /\ result \in [Calls -> Results]

\* The two fields that say "open" never disagree, whatever late answers of
\* calls admitted before the opening record: a breaker with open = FALSE and
\* failures at the threshold would open on one failure after a reset.
OpenIffThreshold == open <=> failures >= Threshold

\* Calls admitted before the opening may fail late, each at most once, so the
\* count stays bounded however long the outage lasts.
LateFailuresBounded == failures < Threshold + Cardinality(Calls)
=============================================================================
