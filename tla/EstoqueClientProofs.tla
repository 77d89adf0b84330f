------------------------ MODULE EstoqueClientProofs ------------------------
(* Proofs about the breaker and the calls that share it, for any finite     *)
(* number of concurrent calls, any threshold and any number of retries.     *)
EXTENDS EstoqueClient, FiniteSetTheorems, TLAPS

\* Once the breaker is open only calls admitted earlier can record a failure:
\* those recorded and those still to come stay below the bound together.
LateBudget ==
    open => failures + Cardinality(InFlight) <= Threshold - 1 + Cardinality(Calls)

\* A call backs off only when it has a retry left.
RetriesLeft == \A c \in Calls : phase[c] = "backoff" => attempt[c] <= MaxRetries

IInv == TypeOK /\ OpenIffThreshold /\ LateBudget /\ RetriesLeft

\* InFlight is finite and no larger than Calls.
LEMMA InFlightFinite ==
    /\ IsFiniteSet(InFlight) /\ Cardinality(InFlight) \in Nat
    /\ Cardinality(Calls) \in Nat /\ Cardinality(InFlight) <= Cardinality(Calls)
<1>1. InFlight \subseteq Calls
  BY DEF InFlight
<1> QED
  BY <1>1, CallsAssumption, FS_Subset, FS_CardinalityType

\* One call leaving the set lowers its cardinality by one.
LEMMA InFlightLeaves ==
    ASSUME NEW c \in InFlight, InFlight' = InFlight \ {c}
    PROVE  Cardinality(InFlight') = Cardinality(InFlight) - 1
BY InFlightFinite, FS_RemoveElement

\* A call returns: from then on it is not in flight.
LEMMA ReturnLeaves ==
    ASSUME TypeOK, RetriesLeft, NEW c \in InFlight, NEW outcome \in Results, Return(c, outcome)
    PROVE  /\ InFlight' = InFlight \ {c}
           /\ phase' \in [Calls -> Phases]
           /\ attempt' \in [Calls -> 0..(MaxRetries + 1)]
           /\ result' \in [Calls -> Results]
           /\ RetriesLeft'
<1>1. c \in Calls
  BY DEF InFlight
<1>2. \A d \in Calls : phase'[d] = IF d = c THEN "returned" ELSE phase[d]
  BY <1>1 DEF Return, TypeOK
<1> QED
  BY <1>1, <1>2 DEF Return, TypeOK, Phases, InFlight, RetriesLeft

\* A recorded failure uses up one of the failures that were still to come.
LEMMA FailureIInv ==
    ASSUME IInv, NEW c \in InFlight, NEW outcome \in Results,
           B!RecordFailure, Return(c, outcome)
    PROVE  IInv'
<1>1. TypeOK'
  <2>1. failures' \in Nat /\ open' \in BOOLEAN /\ cooled' \in BOOLEAN
    BY DEF IInv, TypeOK, B!RecordFailure
  <2> QED
    BY <2>1, ReturnLeaves DEF IInv, TypeOK
<1>2. OpenIffThreshold'
  <2>1. failures' = failures + 1 /\ (open' <=> open \/ failures + 1 >= Threshold)
    BY DEF B!RecordFailure
  <2>2. failures \in Nat /\ (open <=> failures >= Threshold)
    BY DEF IInv, TypeOK, OpenIffThreshold
  <2>3. failures >= Threshold => failures + 1 >= Threshold
    BY <2>2, ThresholdAssumption
  <2> QED
    BY <2>1, <2>2, <2>3 DEF OpenIffThreshold
<1>3. LateBudget'
  <2>1. Cardinality(InFlight') = Cardinality(InFlight) - 1
    BY ReturnLeaves, InFlightLeaves DEF IInv
  <2>2. CASE open
    BY <2>1, <2>2, InFlightFinite, ThresholdAssumption
    DEF IInv, TypeOK, LateBudget, B!RecordFailure
  <2>3. CASE ~open
    <3>1. failures < Threshold
      BY <2>3, ThresholdAssumption DEF IInv, TypeOK, OpenIffThreshold
    <3> QED
      BY <2>1, <3>1, InFlightFinite, ThresholdAssumption
      DEF IInv, TypeOK, LateBudget, B!RecordFailure
  <2> QED
    BY <2>2, <2>3
<1> QED
  BY <1>1, <1>2, <1>3, ReturnLeaves DEF IInv

\* With the breaker untouched, the invariant survives as long as no call is added.
LEMMA QuietIInv ==
    ASSUME IInv, TypeOK', RetriesLeft', UNCHANGED breaker, InFlight' \subseteq InFlight
    PROVE  IInv'
<1>1. Cardinality(InFlight') <= Cardinality(InFlight) /\ Cardinality(InFlight') \in Nat
  BY InFlightFinite, FS_Subset, FS_CardinalityType
<1>2. OpenIffThreshold'
  BY DEF IInv, OpenIffThreshold, breaker
<1>3. LateBudget'
  BY <1>1, InFlightFinite, ThresholdAssumption DEF IInv, TypeOK, LateBudget, breaker
<1> QED
  BY <1>2, <1>3 DEF IInv

\* A step that closes the breaker, or finds it closed, needs no budget.
LEMMA ClosedIInv ==
    ASSUME TypeOK', RetriesLeft', ~open', failures' < Threshold
    PROVE  IInv'
<1>1. failures' \in Nat /\ ~(failures' >= Threshold)
  BY ThresholdAssumption DEF TypeOK
<1> QED
  BY <1>1 DEF IInv, OpenIffThreshold, LateBudget

\* Every step keeps the invariant.
LEMMA NextIInv == IInv /\ [Next]_vars => IInv'
<1> SUFFICES ASSUME IInv, [Next]_vars PROVE IInv'
  OBVIOUS
<1> USE DEF IInv
<1>1. ASSUME NEW c \in Calls, Begin(c) PROVE IInv'
  <2>1. failures' \in Nat /\ failures' < Threshold /\ open' = FALSE /\ cooled' = FALSE
    BY <1>1, ThresholdAssumption DEF Begin, B!Allow, TypeOK, OpenIffThreshold
  <2>2. 1 \in 0..(MaxRetries + 1)
    BY MaxRetriesAssumption
  <2>3. /\ phase' \in [Calls -> Phases]
        /\ attempt' \in [Calls -> 0..(MaxRetries + 1)]
        /\ result' \in [Calls -> Results]
    BY <1>1, <2>2 DEF Begin, TypeOK, Phases
  <2>4. RetriesLeft'
    BY <1>1 DEF Begin, TypeOK, RetriesLeft
  <2> QED
    BY <2>1, <2>3, <2>4, ClosedIInv DEF TypeOK
<1>2. ASSUME NEW c \in Calls, FailFast(c) PROVE IInv'
  <2>1. TypeOK'
    BY <1>2 DEF FailFast, Return, breaker, TypeOK, Phases, Results
  <2>2. InFlight' \subseteq InFlight /\ RetriesLeft'
    BY <1>2 DEF FailFast, Return, TypeOK, InFlight, RetriesLeft
  <2> QED
    BY <1>2, <2>1, <2>2, QuietIInv DEF FailFast
<1>3. ASSUME NEW c \in Calls, Succeed(c) PROVE IInv'
  <2>1. c \in InFlight /\ Return(c, "ok") /\ B!RecordSuccess
    BY <1>3 DEF Succeed, InFlight
  <2>2. failures' \in Nat /\ failures' < Threshold /\ open' = FALSE /\ cooled' = FALSE
    BY <2>1, ThresholdAssumption DEF B!RecordSuccess
  <2>3. TypeOK' /\ RetriesLeft'
    BY <2>1, <2>2, ReturnLeaves DEF TypeOK, Results
  <2> QED
    BY <2>2, <2>3, ClosedIInv
<1>4. ASSUME NEW c \in Calls, GiveUp(c) \/ \E refusal \in Refusals : Refused(c, refusal)
      PROVE  IInv'
  <2>1. c \in InFlight
    BY <1>4 DEF GiveUp, Refused, InFlight
  <2> QED
    BY <1>4, <2>1, FailureIInv DEF GiveUp, Refused, Results
<1>5. ASSUME NEW c \in Calls, BackOff(c) PROVE IInv'
  <2>1. TypeOK'
    BY <1>5 DEF BackOff, breaker, TypeOK, Phases
  <2>2. InFlight' \subseteq InFlight /\ RetriesLeft'
    BY <1>5 DEF BackOff, TypeOK, InFlight, RetriesLeft
  <2> QED
    BY <1>5, <2>1, <2>2, QuietIInv DEF BackOff
<1>6. ASSUME NEW c \in Calls, Retry(c) PROVE IInv'
  <2>1. attempt[c] + 1 \in 0..(MaxRetries + 1)
    BY <1>6, MaxRetriesAssumption DEF Retry, TypeOK, RetriesLeft
  <2>2. TypeOK'
    BY <1>6, <2>1 DEF Retry, breaker, TypeOK, Phases
  <2>3. InFlight' \subseteq InFlight /\ RetriesLeft'
    BY <1>6 DEF Retry, TypeOK, InFlight, RetriesLeft
  <2> QED
    BY <1>6, <2>2, <2>3, QuietIInv DEF Retry
<1>7. ASSUME NEW c \in Calls, Cancel(c) PROVE IInv'
  <2>1. c \in InFlight /\ Return(c, "cancelled") /\ UNCHANGED breaker
    BY <1>7 DEF Cancel, InFlight
  <2>2. TypeOK' /\ RetriesLeft' /\ InFlight' \subseteq InFlight
    BY <2>1, ReturnLeaves DEF TypeOK, Results, breaker
  <2> QED
    BY <2>1, <2>2, QuietIInv
<1>8. ASSUME NEW c \in Calls, Reuse(c) PROVE IInv'
  <2>1. TypeOK'
    BY <1>8, MaxRetriesAssumption DEF Reuse, breaker, TypeOK, Phases, Results
  <2>2. InFlight' \subseteq InFlight /\ RetriesLeft'
    BY <1>8 DEF Reuse, TypeOK, InFlight, RetriesLeft
  <2> QED
    BY <1>8, <2>1, <2>2, QuietIInv DEF Reuse
<1>9. CASE Elapse
  <2>1. /\ failures' = failures /\ open' = open /\ cooled' = TRUE
        /\ phase' = phase /\ attempt' = attempt /\ result' = result
    BY <1>9 DEF Elapse, B!Elapse, callVars
  <2>2. InFlight' = InFlight
    BY <2>1 DEF InFlight
  <2> QED
    BY <2>1, <2>2 DEF TypeOK, OpenIffThreshold, LateBudget, RetriesLeft
<1>10. CASE UNCHANGED vars
  BY <1>10 DEF vars, TypeOK, OpenIffThreshold, LateBudget, InFlight, RetriesLeft
<1> QED
  BY <1>1, <1>2, <1>3, <1>4, <1>5, <1>6, <1>7, <1>8, <1>9, <1>10 DEF Next, Conclude

\* The inductive invariant holds of every behaviour.
THEOREM Inductive == Spec => []IInv
<1>1. Init => IInv
  <2> SUFFICES ASSUME Init PROVE IInv
    OBVIOUS
  <2>1. failures = 0 /\ open = FALSE /\ cooled = FALSE
    BY DEF Init, B!BreakerInit
  <2>2. 0 \in 0..(MaxRetries + 1)
    BY MaxRetriesAssumption
  <2>3. TypeOK
    BY <2>1, <2>2 DEF Init, TypeOK, Phases, Results
  <2>4. ~(failures >= Threshold)
    BY <2>1, ThresholdAssumption
  <2>5. OpenIffThreshold /\ LateBudget
    BY <2>1, <2>4 DEF OpenIffThreshold, LateBudget
  <2>6. RetriesLeft
    BY DEF Init, RetriesLeft
  <2> QED
    BY <2>3, <2>5, <2>6 DEF IInv
<1>2. IInv /\ [Next]_vars => IInv'
  BY NextIInv
<1> QED
  BY <1>1, <1>2, PTL DEF Spec

\* Type correctness of the client, its attempts bounded by MaxRetries + 1.
THEOREM TypeCorrect == Spec => []TypeOK
<1>1. IInv => TypeOK
  BY DEF IInv
<1> QED
  BY <1>1, Inductive, PTL

\* open and failures agree in every interleaving of late answers and resets.
THEOREM BreakerConsistent == Spec => []OpenIffThreshold
<1>1. IInv => OpenIffThreshold
  BY DEF IInv
<1> QED
  BY <1>1, Inductive, PTL

\* The failure count is bounded by the calls that can be under way at once.
THEOREM FailureCountBounded == Spec => []LateFailuresBounded
<1>1. IInv => LateFailuresBounded
  <2> SUFFICES ASSUME IInv PROVE LateFailuresBounded
    OBVIOUS
  <2>1. CASE open
    BY <2>1, InFlightFinite, ThresholdAssumption
    DEF IInv, TypeOK, LateBudget, LateFailuresBounded
  <2>2. CASE ~open
    BY <2>2, InFlightFinite, ThresholdAssumption
    DEF IInv, TypeOK, OpenIffThreshold, LateFailuresBounded
  <2> QED
    BY <2>1, <2>2
<1> QED
  BY <1>1, Inductive, PTL
=============================================================================
