-------------------------- MODULE PrintFlowProofs --------------------------
(* Proofs about the print of an invoice, for any invoices, keys, prints and *)
(* retries.  With every fault allowed: what is closed is paid, one print    *)
(* wins, stored responses are true, the books agree, and a print comes to   *)
(* an end.  Where faults matter, under the faults that do no harm: that an  *)
(* invoice is paid once, that a refusal leaves it unpaid, and that retries  *)
(* deduct once.  And that the print uses its two parts as they describe     *)
(* themselves.                                                              *)
EXTENDS PrintFlow, Sums

\* A request that Estoque has answered or applied was sent, by a print that has
\* started on an existing invoice, and "ok" tells of a committed deduction.
Wire ==
    /\ \A a \in Attempts : verdict[a] = "ok" => a \in applied
    /\ \A a \in applied : verdict[a] # "none"
    /\ \A a \in Attempts : verdict[a] # "none" => a \in sent
    /\ \A a \in sent : pc[a[1]] # "idle" /\ req[a[1]].inv \in Invoices

\* A call in progress counts its attempts within the bound and has no result
\* yet; one that returned "ok" was told so about a deduction of its own print.
CallsHonest ==
    \A p \in Prints :
        /\ phase[p] = "sending" => attempt[p] \in 1..(MaxRetries + 1)
        /\ phase[p] = "backoff" => attempt[p] \in 1..MaxRetries
        /\ result[p] # "none" => phase[p] = "returned"
        /\ result[p] = "ok" => \E a \in applied : a[1] = p

\* What the handler has established when it reaches a place.
PlacesReached ==
    \A p \in Prints :
        /\ pc[p] \in {"lookup", "save"} => req[p].key \in Keys
        /\ pc[p] \in {"consume", "claim", "reread", "save"} => req[p].inv \in Invoices
        /\ pc[p] \in {"claim", "reread", "save"} => result[p] = "ok"
        /\ answer[p] # "none" => pc[p] = "done"

\* p has closed its invoice and is on its way to answer, or has answered.
Claimed(p) == pc[p] \in {"reread", "save"} \/ answer[p] = "printed"

\* A claim is exclusive: the invoice is closed and no other print has claimed it.
Claims ==
    /\ \A p \in Prints :
          Claimed(p) => req[p].inv \in Invoices /\ status[req[p].inv] = "CLOSED"
    /\ \A p, q \in Prints : Claimed(p) /\ Claimed(q) /\ req[p].inv = req[q].inv => p = q

IInv ==
    /\ TypeOK /\ Wire /\ CallsHonest /\ PlacesReached /\ Claims
    /\ ClosedIsPaid /\ StoredIsTrue

-----------------------------------------------------------------------------
\* What a caller sends names an invoice, or an unknown id, and a key, or none.
LEMMA RequestTypes ==
    \A q \in Requests \cup {NoRequest} :
        q.inv \in Invoices \cup {UnknownId} /\ q.key \in Keys \cup {NoKey}
BY RequestsAssumption DEF NoRequest

\* An attempt of a call in progress is one of the requests of the model.
LEMMA CurrentIsAttempt ==
    ASSUME CallsHonest, NEW p \in Prints, phase[p] = "sending"
    PROVE  Current(p) \in Attempts /\ Current(p)[1] = p
BY DEF CallsHonest, Current, Attempts

\* The initial state: nothing is closed, stored, sent or claimed.
LEMMA InitIInv == Init => IInv
<1> SUFFICES ASSUME Init PROVE IInv
  OBVIOUS
<1>1. Client!TypeOK
  <2>1. failures = 0 /\ open = FALSE /\ cooled = FALSE
    BY DEF Init, Client!Init, Client!B!BreakerInit
  <2>2. 0 \in 0..(MaxRetries + 1)
    BY RetriesAssumption
  <2>3. /\ phase \in [Prints -> Client!Phases]
        /\ attempt \in [Prints -> 0..(MaxRetries + 1)]
        /\ result \in [Prints -> Client!Results]
    BY <2>2 DEF Init, Client!Init, Client!Phases, Client!Results
  <2> QED
    BY <2>1, <2>3 DEF Client!TypeOK
<1>2. TypeOK
  BY <1>1, NeedAssumption
  DEF Init, TypeOK, Places, Answers, Estoque!NoRequests, Estoque!NoDemand, Estoque!Verdicts
<1>3. Wire /\ CallsHonest
  BY DEF Init, Wire, CallsHonest, Estoque!NoRequests, Client!Init
<1>4. PlacesReached /\ Claims
  BY DEF Init, PlacesReached, Claims, Claimed
<1>5. ClosedIsPaid /\ StoredIsTrue
  BY DEF Init, ClosedIsPaid, StoredIsTrue
<1> QED
  BY <1>2, <1>3, <1>4, <1>5 DEF IInv

-----------------------------------------------------------------------------
(* A step of the handler of p alone: the tables, the wire, the client and   *)
(* Estoque stay as they are.                                                *)

LEMMA HandlerStep ==
    ASSUME IInv, NEW p \in Prints, NEW place \in Places, NEW a \in Answers,
           pc[p] \notin {"idle", "done"},
           pc' = [pc EXCEPT ![p] = place], answer' = [answer EXCEPT ![p] = a],
           UNCHANGED <<req, ctxDone, tables, sent, client, estoque>>,
           place # "idle",
           place \in {"lookup", "save"} => req[p].key \in Keys,
           place \in {"consume", "claim", "reread", "save"} => req[p].inv \in Invoices,
           place \in {"claim", "reread", "save"} => result[p] = "ok",
           a # "none" => place = "done",
           place \in {"reread", "save"} \/ a = "printed" => Claimed(p)
    PROVE  IInv'
<1> USE DEF handler, tables, client, estoque
<1>1. TypeOK'
  BY DEF IInv, TypeOK, Client!TypeOK
<1>2. Wire'
  <2>1. \A b \in sent : b[1] \in Prints
    BY DEF IInv, TypeOK, Attempts
  <2> QED
    BY <2>1 DEF IInv, TypeOK, Wire
<1>3. CallsHonest'
  BY DEF IInv, CallsHonest
<1>4. PlacesReached'
  BY DEF IInv, TypeOK, PlacesReached
<1>5. \A q \in Prints : Claimed(q)' => Claimed(q)
  BY DEF IInv, TypeOK, Claimed
<1>6. Claims'
  BY <1>5 DEF IInv, Claims
<1>7. ClosedIsPaid' /\ StoredIsTrue'
  BY DEF IInv, ClosedIsPaid, StoredIsTrue, Paid
<1> QED
  BY <1>1, <1>2, <1>3, <1>4, <1>6, <1>7 DEF IInv

-----------------------------------------------------------------------------
(* A caller starts a print.                                                 *)
LEMMA StartStep ==
    ASSUME IInv, NEW p \in Prints, NEW q \in Requests, Start(p, q)
    PROVE  IInv'
<1> USE DEF Start, tables, client, estoque
<1>1. /\ q.inv \in Invoices \cup {UnknownId} /\ q.key \in Keys \cup {NoKey}
      /\ answer[p] = "none"
  BY RequestTypes DEF IInv, PlacesReached
<1>2. /\ req' \in [Prints -> Requests \cup {NoRequest}] /\ pc' \in [Prints -> Places]
      /\ pc'[p] \in {"load", "lookup"}
      /\ \A o \in Prints \ {p} : pc'[o] = pc[o] /\ req'[o] = req[o]
      /\ req'[p] = q
  BY DEF IInv, TypeOK, Places
<1>3. TypeOK'
  BY <1>2 DEF IInv, TypeOK, Client!TypeOK
<1>4. \A a \in sent : a \in Attempts /\ a[1] \in Prints \ {p}
  BY DEF IInv, TypeOK, Wire, Attempts
<1>5. applied \subseteq sent
  BY DEF IInv, TypeOK, Wire
<1>6. Wire'
  BY <1>2, <1>4 DEF IInv, Wire
<1>7. CallsHonest'
  BY DEF IInv, CallsHonest
<1>8. result[p] # "ok"
  BY <1>4, <1>5 DEF IInv, CallsHonest
<1>9. PlacesReached'
  BY <1>1, <1>2 DEF IInv, PlacesReached
<1>10. Claims'
  <2>1. \A o \in Prints : Claimed(o)' => Claimed(o) /\ o # p
    BY <1>1, <1>2 DEF Claimed
  <2> QED
    BY <2>1, <1>2 DEF IInv, Claims
<1>11. ClosedIsPaid'
  BY <1>2, <1>4, <1>5 DEF IInv, ClosedIsPaid, Paid
<1>12. StoredIsTrue'
  BY <1>2, <1>8 DEF IInv, StoredIsTrue
<1> QED
  BY <1>3, <1>6, <1>7, <1>9, <1>10, <1>11, <1>12 DEF IInv

-----------------------------------------------------------------------------
(* A step of the call of p: what it sends is one of the requests of p, and  *)
(* it returns "ok" only about a committed deduction.                        *)
LEMMA CallStep ==
    ASSUME IInv, NEW p \in Prints, pc[p] = "consume", phase[p] # "returned",
           NEW ph \in Client!Phases, NEW n \in 0..(MaxRetries + 1), NEW r \in Client!Results,
           phase' = [phase EXCEPT ![p] = ph],
           attempt' = [attempt EXCEPT ![p] = n],
           result' = [result EXCEPT ![p] = r],
           failures' \in Nat, open' \in BOOLEAN, cooled' \in BOOLEAN,
           sent' = sent \/ sent' = sent \cup {<<p, n>>},
           sent' # sent => n \in 1..(MaxRetries + 1),
           UNCHANGED <<handler, tables, estoque>>,
           ph = "sending" => n \in 1..(MaxRetries + 1),
           ph = "backoff" => n \in 1..MaxRetries,
           r # "none" => ph = "returned",
           r = "ok" => \E a \in applied : a[1] = p
    PROVE  IInv'
<1> USE DEF handler, tables, estoque
<1>1. sent' \subseteq Attempts
  BY DEF IInv, TypeOK, Attempts
<1>2. Client!TypeOK'
  BY DEF IInv, TypeOK, Client!TypeOK
<1>3. TypeOK'
  BY <1>1, <1>2 DEF IInv, TypeOK
<1>4. req[p].inv \in Invoices
  BY DEF IInv, PlacesReached
<1>5. Wire'
  BY <1>4 DEF IInv, Wire
<1>6. /\ phase'[p] = ph /\ attempt'[p] = n /\ result'[p] = r
      /\ \A o \in Prints \ {p} :
            phase'[o] = phase[o] /\ attempt'[o] = attempt[o] /\ result'[o] = result[o]
  BY DEF IInv, TypeOK, Client!TypeOK
<1>7. CallsHonest'
  BY <1>6 DEF IInv, CallsHonest
<1>8. result[p] = "none"
  BY DEF IInv, CallsHonest
<1>9. PlacesReached'
  BY <1>6 DEF IInv, PlacesReached
<1>10. Claims'
  BY DEF IInv, Claims, Claimed
<1>11. ClosedIsPaid' /\ StoredIsTrue'
  BY <1>6, <1>8 DEF IInv, ClosedIsPaid, StoredIsTrue, Paid
<1> QED
  BY <1>3, <1>5, <1>7, <1>9, <1>10, <1>11 DEF IInv

\* Every step of Begin, Retry and Listen is such a step of the call.
LEMMA ClientSteps ==
    ASSUME IInv, NEW p \in Prints, Begin(p) \/ Retry(p) \/ Listen(p)
    PROVE  IInv'
<1> USE DEF Client!Phases
<1>1. /\ MaxRetries \in Nat
      /\ attempt[p] \in 0..(MaxRetries + 1) /\ result[p] \in Client!Results
      /\ failures \in Nat /\ open \in BOOLEAN /\ cooled \in BOOLEAN
      /\ phase \in [Prints -> Client!Phases]
  BY RetriesAssumption DEF IInv, TypeOK, Client!TypeOK
<1>2. /\ phase[p] # "returned" => result[p] = "none"
      /\ phase[p] = "sending" => attempt[p] \in 1..(MaxRetries + 1)
      /\ phase[p] = "backoff" => attempt[p] \in 1..MaxRetries
  BY <1>1 DEF IInv, CallsHonest
<1>3. result = [result EXCEPT ![p] = result[p]] /\ attempt = [attempt EXCEPT ![p] = attempt[p]]
  BY DEF IInv, TypeOK, Client!TypeOK
<1>4. "none" \in Client!Results /\ "ok" \in Client!Results /\ "unavailable" \in Client!Results
      /\ "cancelled" \in Client!Results /\ "insufficient" \in Client!Results
  BY DEF Client!Results, Client!Refusals
<1>5. Client!B!RecordFailure => failures' \in Nat /\ open' \in BOOLEAN /\ cooled' \in BOOLEAN
  <2>1. Client!B!RecordFailure => failures' \in Nat
    BY <1>1 DEF Client!B!RecordFailure
  <2>2. Client!B!RecordFailure => open' \in BOOLEAN /\ cooled' \in BOOLEAN
    BY DEF Client!B!RecordFailure
  <2> QED
    BY <2>1, <2>2
<1>6. ASSUME NEW r \in Client!Results, Client!Return(p, r), pc[p] = "consume",
             phase[p] # "returned", failures' \in Nat, open' \in BOOLEAN, cooled' \in BOOLEAN,
             UNCHANGED <<handler, tables, sent, estoque>>,
             r = "ok" => \E a \in applied : a[1] = p
      PROVE  IInv'
  <2>1. phase' = [phase EXCEPT ![p] = "returned"] /\ result' = [result EXCEPT ![p] = r]
        /\ attempt' = [attempt EXCEPT ![p] = attempt[p]]
    BY <1>3, <1>6 DEF Client!Return
  <2> QED
    BY <1>1, <1>6, <2>1, CallStep
<1>7. CASE Begin(p)
  <2>1. /\ failures' \in Nat /\ open' = FALSE /\ cooled' = FALSE
        /\ phase[p] = "idle" /\ phase' = [phase EXCEPT ![p] = "sending"]
        /\ attempt' = [attempt EXCEPT ![p] = 1] /\ result' = [result EXCEPT ![p] = result[p]]
    BY <1>1, <1>3, <1>7 DEF Begin, Client!Begin, Client!B!Allow
  <2>2. 1 \in 1..(MaxRetries + 1) /\ 1 \in 0..(MaxRetries + 1) /\ attempt'[p] = 1
    BY <1>1, <2>1 DEF IInv, TypeOK, Client!TypeOK
  <2>3. sent' = sent \/ sent' = sent \cup {<<p, 1>>}
    BY <1>7, <2>2 DEF Begin, Send
  <2> QED
    BY <1>1, <1>2, <1>7, <2>1, <2>2, <2>3, CallStep DEF Begin
<1>8. CASE Retry(p)
  <2> DEFINE n == attempt[p] + 1
  <2>1. /\ failures' = failures /\ open' = open /\ cooled' = cooled
        /\ phase[p] = "backoff" /\ phase' = [phase EXCEPT ![p] = "sending"]
        /\ attempt' = [attempt EXCEPT ![p] = n] /\ result' = [result EXCEPT ![p] = result[p]]
    BY <1>3, <1>8 DEF Retry, Client!Retry, Client!breaker
  <2>2. n \in 1..(MaxRetries + 1) /\ n \in 0..(MaxRetries + 1)
    BY <1>1, <1>2, <2>1
  <2>3. attempt'[p] = n
    BY <2>1 DEF IInv, TypeOK, Client!TypeOK
  <2>4. sent' = sent \/ sent' = sent \cup {<<p, n>>}
    BY <1>8, <2>3 DEF Retry, Send
  <2> QED
    BY <1>1, <1>2, <1>8, <2>1, <2>2, <2>4, CallStep DEF Retry
<1>9. CASE Listen(p)
  <2>1. pc[p] = "consume" /\ UNCHANGED <<handler, tables, sent, estoque>>
    BY <1>9 DEF Listen
  <2>2. CASE Client!FailFast(p)
    BY <1>1, <1>4, <1>6, <2>1, <2>2 DEF Client!FailFast, Client!breaker
  <2>3. CASE Client!BackOff(p)
    <3>1. /\ failures' = failures /\ open' = open /\ cooled' = cooled
          /\ phase[p] = "sending" /\ phase' = [phase EXCEPT ![p] = "backoff"]
          /\ attempt' = [attempt EXCEPT ![p] = attempt[p]]
          /\ result' = [result EXCEPT ![p] = result[p]]
          /\ attempt[p] <= MaxRetries
      BY <1>3, <2>3 DEF Client!BackOff, Client!breaker
    <3>2. attempt[p] \in 1..MaxRetries
      BY <1>1, <1>2, <3>1
    <3> QED
      BY <1>1, <1>2, <2>1, <3>1, <3>2, CallStep
  <2>4. CASE Client!GiveUp(p)
    BY <1>4, <1>5, <1>6, <2>1, <2>4 DEF Client!GiveUp
  <2>5. CASE Client!Cancel(p)
    BY <1>1, <1>4, <1>6, <2>1, <2>5 DEF Client!Cancel, Client!breaker
  <2>6. CASE Client!Refused(p, "insufficient")
    BY <1>4, <1>5, <1>6, <2>1, <2>6 DEF Client!Refused
  <2>7. CASE phase[p] = "sending" /\ verdict[Current(p)] = "ok" /\ Client!Succeed(p)
    <3>1. Current(p) \in applied /\ Current(p)[1] = p
      BY <2>7, CurrentIsAttempt DEF IInv, Wire
    <3>2. failures' \in Nat /\ open' = FALSE /\ cooled' = FALSE
      BY <2>7 DEF Client!Succeed, Client!B!RecordSuccess
    <3> QED
      BY <1>4, <1>6, <2>1, <2>7, <3>1, <3>2 DEF Client!Succeed
  <2> QED
    BY <1>9, <2>2, <2>3, <2>4, <2>5, <2>6, <2>7 DEF Listen, HearAnswer, HearNothing
<1> QED
  BY <1>7, <1>8, <1>9

-----------------------------------------------------------------------------
(* Estoque serves a request: what it deducts never exceeds the stock, and   *)
(* the request it answers was sent by a print of an existing invoice.       *)
LEMMA ServeStep ==
    ASSUME IInv, NEW a \in Attempts, EstoqueServes(a)
    PROVE  IInv'
<1> USE DEF handler, tables, client
<1>1. /\ verdict \in [Attempts -> Estoque!Verdicts] /\ applied \subseteq Attempts
      /\ stock \in [Codes -> Nat] /\ demand \in [Attempts -> [Codes -> Nat]]
      /\ UNCHANGED <<handler, tables, sent, client>>
  BY DEF IInv, TypeOK, EstoqueServes
<1>2. /\ verdict' \in [Attempts -> Estoque!Verdicts]
      /\ \A b \in Attempts \ {a} : verdict'[b] = verdict[b]
      /\ a \in sent
      /\ \/ applied' = applied /\ verdict'[a] \in {"pending", "insufficient", "error"}
            /\ verdict[a] \in {"none", "pending"}
         \/ applied' = applied \cup {a} /\ verdict'[a] \in {"ok", "error"}
  <2>1. CASE a \in sent /\ Estoque!Receive(a, Need[req[a[1]].inv])
    BY <1>1, <2>1 DEF Estoque!Receive, Estoque!Verdicts
  <2>2. CASE Estoque!Consume(a)
    BY <1>1, <2>2 DEF Estoque!Consume, Estoque!Verdicts, IInv, Wire
  <2>3. CASE Estoque!Refuse(a)
    BY <1>1, <2>3 DEF Estoque!Refuse, Estoque!Verdicts, IInv, Wire
  <2>4. CASE a \in sent /\ Estoque!Fail(a)
    BY <1>1, <2>4 DEF Estoque!Fail, Estoque!Verdicts
  <2> QED
    BY <2>1, <2>2, <2>3, <2>4 DEF EstoqueServes
<1>3. stock' \in [Codes -> Nat]
  <2>1. CASE Estoque!Consume(a)
    <3>1. ASSUME NEW c \in Codes PROVE stock[c] - demand[a][c] \in Nat
      <4>1. stock[c] \in Nat /\ demand[a][c] \in Nat
        BY <1>1
      <4>2. demand[a][c] > 0 => demand[a][c] <= stock[c]
        BY <2>1 DEF Estoque!Consume, Estoque!Covers
      <4> QED
        BY <4>1, <4>2
    <3> QED
      BY <2>1, <3>1 DEF Estoque!Consume
  <2> QED
    BY <1>1, <2>1 DEF EstoqueServes, Estoque!Receive, Estoque!Refuse, Estoque!Fail
<1>4. demand' \in [Attempts -> [Codes -> Nat]]
  <2>1. CASE a \in sent /\ Estoque!Receive(a, Need[req[a[1]].inv])
    <3>1. Need[req[a[1]].inv] \in [Codes -> Nat]
      BY <2>1, NeedAssumption DEF IInv, Wire
    <3> QED
      BY <1>1, <2>1, <3>1 DEF Estoque!Receive
  <2> QED
    BY <1>1, <2>1 DEF EstoqueServes, Estoque!Consume, Estoque!Refuse, Estoque!Fail
<1>5. TypeOK'
  BY <1>1, <1>2, <1>3, <1>4 DEF IInv, TypeOK, Client!TypeOK
<1>6. applied \subseteq applied'
  BY <1>2
<1>7. Wire'
  BY <1>1, <1>2 DEF IInv, Wire
<1>8. CallsHonest'
  BY <1>1, <1>6 DEF IInv, CallsHonest
<1>9. PlacesReached' /\ Claims' /\ StoredIsTrue'
  BY <1>1 DEF IInv, PlacesReached, Claims, Claimed, StoredIsTrue
<1>10. ClosedIsPaid'
  BY <1>1, <1>6 DEF IInv, ClosedIsPaid, Paid
<1> QED
  BY <1>5, <1>7, <1>8, <1>9, <1>10 DEF IInv

-----------------------------------------------------------------------------
(* Steps that close an invoice and that store a response.                   *)

\* The handler of p closes its invoice: it holds the only claim, or it has
\* been told of an error and claims nothing.
LEMMA CloseStep ==
    ASSUME IInv, NEW p \in Prints, pc[p] = "claim",
           NEW place \in {"reread", "done"}, NEW a \in {"none", "internal"},
           place = "reread" => status[req[p].inv] = "OPEN" /\ a = "none",
           status' = [status EXCEPT ![req[p].inv] = "CLOSED"],
           pc' = [pc EXCEPT ![p] = place], answer' = [answer EXCEPT ![p] = a],
           UNCHANGED <<req, ctxDone, saved, sent, client, estoque>>
    PROVE  IInv'
<1> USE DEF client, estoque
<1>1. req[p].inv \in Invoices /\ result[p] = "ok"
  BY DEF IInv, PlacesReached
<1>2. PICK b \in applied : b[1] = p
  BY <1>1 DEF IInv, CallsHonest
<1>3. /\ status' \in [Invoices -> {"OPEN", "CLOSED"}]
      /\ status'[req[p].inv] = "CLOSED"
      /\ \A i \in Invoices : i # req[p].inv => status'[i] = status[i]
      /\ pc' \in [Prints -> Places] /\ answer' \in [Prints -> Answers]
      /\ pc'[p] = place /\ answer'[p] = a
      /\ \A o \in Prints \ {p} : pc'[o] = pc[o] /\ answer'[o] = answer[o]
  BY <1>1 DEF IInv, TypeOK, Places, Answers
<1>4. TypeOK'
  BY <1>3 DEF IInv, TypeOK, Client!TypeOK
<1>5. Wire'
  <2>1. \A s \in sent : s[1] \in Prints
    BY DEF IInv, TypeOK, Attempts
  <2> QED
    BY <1>3, <2>1 DEF IInv, Wire
<1>6. CallsHonest'
  BY DEF IInv, CallsHonest
<1>7. PlacesReached'
  <2>1. place = "reread" => answer'[p] = "none"
    BY <1>3
  <2> QED
    BY <1>1, <1>3, <2>1 DEF IInv, PlacesReached
<1>8. Claims'
  <2>1. \A o \in Prints \ {p} : Claimed(o)' => Claimed(o)
    BY <1>3 DEF Claimed
  <2>2. Claimed(p)' => \A o \in Prints : Claimed(o) => req[o].inv # req[p].inv
    BY <1>3 DEF IInv, Claims, Claimed
  <2>3. \A i \in Invoices : status[i] = "CLOSED" => status'[i] = "CLOSED"
    BY <1>3
  <2> QED
    BY <1>1, <1>3, <2>1, <2>2, <2>3 DEF IInv, Claims
<1>9. ClosedIsPaid'
  BY <1>2, <1>3 DEF IInv, ClosedIsPaid, Paid
<1>10. StoredIsTrue'
  <2>1. \A k \in Keys : saved[k] # UnknownId => saved[k] \in Invoices
    BY DEF IInv, TypeOK
  <2> QED
    BY <1>3, <2>1 DEF IInv, StoredIsTrue
<1> QED
  BY <1>4, <1>5, <1>6, <1>7, <1>8, <1>9, <1>10 DEF IInv

\* The handler of p stores the response of its print and answers.
LEMMA StoreStep ==
    ASSUME IInv, NEW p \in Prints, pc[p] = "save", Store(p), Answer(p, "printed"),
           UNCHANGED <<status, sent, client, estoque>>
    PROVE  IInv'
<1> USE DEF Answer, client, estoque
<1>1. req[p].inv \in Invoices /\ req[p].key \in Keys /\ result[p] = "ok"
  BY DEF IInv, PlacesReached
<1>2. status[req[p].inv] = "CLOSED" /\ Claimed(p)
  BY DEF IInv, Claims, Claimed
<1>3. /\ saved' \in [Keys -> Invoices \cup {UnknownId}]
      /\ \A k \in Keys : \/ saved'[k] = saved[k]
                         \/ k = req[p].key /\ saved'[k] = req[p].inv
  BY <1>1 DEF IInv, TypeOK, Store
<1>4. req[p] = [inv |-> req[p].inv, key |-> req[p].key]
  BY RequestsAssumption DEF IInv, TypeOK, NoRequest
<1>5. /\ pc' \in [Prints -> Places] /\ answer' \in [Prints -> Answers]
      /\ pc'[p] = "done" /\ answer'[p] = "printed"
      /\ \A o \in Prints \ {p} : pc'[o] = pc[o] /\ answer'[o] = answer[o]
  BY DEF IInv, TypeOK, Places, Answers
<1>6. TypeOK'
  BY <1>3, <1>5 DEF IInv, TypeOK, Client!TypeOK
<1>7. Wire'
  <2>1. \A s \in sent : s[1] \in Prints
    BY DEF IInv, TypeOK, Attempts
  <2> QED
    BY <1>5, <2>1 DEF IInv, Wire
<1>8. CallsHonest'
  BY DEF IInv, CallsHonest
<1>9. PlacesReached'
  BY <1>5 DEF IInv, PlacesReached
<1>10. Claims'
  <2>1. \A o \in Prints : Claimed(o)' => Claimed(o)
    BY <1>2, <1>5 DEF Claimed
  <2> QED
    BY <2>1 DEF IInv, Claims
<1>11. ClosedIsPaid'
  BY DEF IInv, ClosedIsPaid, Paid
<1>12. StoredIsTrue'
  BY <1>1, <1>2, <1>3, <1>4 DEF IInv, StoredIsTrue
<1> QED
  BY <1>6, <1>7, <1>8, <1>9, <1>10, <1>11, <1>12 DEF IInv

-----------------------------------------------------------------------------
\* Every step of a handler keeps the invariant.
LEMMA HandleStep ==
    ASSUME IInv, NEW p \in Prints, Handle(p)
    PROVE  IInv'
<1> USE DEF Goto, Answer
<1>1. /\ req[p] \in Requests \cup {NoRequest}
      /\ pc[p] # "done" => answer[p] = "none"
      /\ answer = [answer EXCEPT ![p] = answer[p]]
  BY DEF IInv, TypeOK, PlacesReached
<1>2. req[p].inv \in Invoices \cup {UnknownId} /\ req[p].key \in Keys \cup {NoKey}
  BY <1>1, RequestTypes
<1>3. "none" \in Answers /\ "stored" \in Answers /\ "not_found" \in Answers
      /\ "not_open" \in Answers /\ "insufficient" \in Answers /\ "unavailable" \in Answers
      /\ "already_closed" \in Answers /\ "internal" \in Answers /\ "printed" \in Answers
  BY DEF Answers
<1>4. "load" \in Places /\ "consume" \in Places /\ "claim" \in Places
      /\ "reread" \in Places /\ "save" \in Places /\ "done" \in Places
  BY DEF Places
<1>5. ASSUME NEW place \in Places, Goto(p, place), pc[p] \notin {"idle", "done"},
             UNCHANGED <<tables, sent, client, estoque>>,
             place \in {"load", "consume", "claim", "save"},
             place = "save" => req[p].key \in Keys /\ pc[p] = "reread",
             place = "consume" => req[p].inv \in Invoices,
             place = "claim" => pc[p] = "consume" /\ result[p] = "ok"
      PROVE  IInv'
  <2>1. pc' = [pc EXCEPT ![p] = place] /\ answer' = [answer EXCEPT ![p] = "none"]
        /\ UNCHANGED <<req, ctxDone, tables, sent, client, estoque>>
    BY <1>1, <1>5
  <2>2. /\ place \in {"consume", "claim", "reread", "save"} => req[p].inv \in Invoices
        /\ place \in {"claim", "reread", "save"} => result[p] = "ok"
        /\ place = "save" => Claimed(p)
    BY <1>5 DEF IInv, PlacesReached, Claimed
  <2> QED
    BY <1>3, <1>5, <2>1, <2>2, HandlerStep
<1>6. ASSUME NEW a \in Answers, Answer(p, a), pc[p] \notin {"idle", "done"},
             UNCHANGED <<tables, sent, client, estoque>>,
             a = "printed" => pc[p] \in {"reread", "save"}
      PROVE  IInv'
  <2>1. a = "printed" => Claimed(p)
    BY <1>6 DEF Claimed
  <2> QED
    BY <1>4, <1>6, <2>1, HandlerStep
<1>7. CASE Lookup(p)
  BY <1>3, <1>4, <1>5, <1>6, <1>7 DEF Lookup
<1>8. CASE Load(p)
  BY <1>2, <1>3, <1>4, <1>5, <1>6, <1>8 DEF Load
<1>9. CASE Begin(p) \/ Retry(p) \/ Listen(p)
  BY <1>9, ClientSteps
<1>10. CASE AfterCall(p)
  BY <1>3, <1>4, <1>5, <1>6, <1>10 DEF AfterCall
<1>11. CASE Claim(p)
  <2>1. CASE status[req[p].inv] = "OPEN"
    <3>1. pc' = [pc EXCEPT ![p] = "reread"] /\ answer' = [answer EXCEPT ![p] = "none"]
      BY <1>1, <1>11, <2>1 DEF Claim
    <3> QED
      BY <1>11, <2>1, <3>1, CloseStep DEF Claim
  <2>2. CASE status[req[p].inv] # "OPEN"
    BY <1>3, <1>6, <1>11, <2>2 DEF Claim, tables
  <2> QED
    BY <2>1, <2>2
<1>12. CASE Reread(p)
  BY <1>2, <1>3, <1>4, <1>5, <1>6, <1>12 DEF Reread
<1>13. CASE Save(p)
  BY <1>13, StoreStep DEF Save
<1>14. CASE StatementFails(p)
  <2>1. CASE UNCHANGED tables
    BY <1>3, <1>6, <1>14, <2>1 DEF StatementFails
  <2>2. CASE pc[p] = "claim" /\ status' = [status EXCEPT ![req[p].inv] = "CLOSED"] /\ UNCHANGED saved
    BY <1>14, <2>2, CloseStep DEF StatementFails
  <2>3. CASE pc[p] = "save" /\ Store(p) /\ UNCHANGED status
    BY <1>14, <2>3, StoreStep DEF StatementFails
  <2> QED
    BY <1>14, <2>1, <2>2, <2>3 DEF StatementFails
<1> QED
  BY <1>7, <1>8, <1>9, <1>10, <1>11, <1>12, <1>13, <1>14 DEF Handle

\* The process dies: what was claimed and not answered stays closed.
LEMMA CrashStep == ASSUME IInv, Crash PROVE IInv'
<1> USE DEF Crash, tables, estoque
<1>1. /\ pc' \in [Prints -> Places]
      /\ \A p \in Prints : \/ pc'[p] = pc[p]
                           \/ pc[p] # "idle" /\ pc'[p] = "dead"
      /\ \A p \in Prints : pc[p] = "done" => pc'[p] = "done"
  BY DEF IInv, TypeOK, Places, Running
<1>2. Client!TypeOK'
  <2>1. failures' \in Nat /\ open' \in BOOLEAN /\ cooled' \in BOOLEAN
    OBVIOUS
  <2> QED
    BY <2>1 DEF IInv, TypeOK, Client!TypeOK
<1>3. TypeOK'
  BY <1>1, <1>2 DEF IInv, TypeOK
<1>4. Wire'
  <2>1. \A s \in sent : s[1] \in Prints
    BY DEF IInv, TypeOK, Attempts
  <2> QED
    BY <1>1, <2>1 DEF IInv, Wire
<1>5. CallsHonest'
  BY DEF IInv, CallsHonest
<1>6. PlacesReached'
  BY <1>1 DEF IInv, PlacesReached
<1>7. Claims'
  <2>1. \A p \in Prints : Claimed(p)' => Claimed(p)
    BY <1>1 DEF Claimed
  <2> QED
    BY <2>1 DEF IInv, Claims
<1>8. ClosedIsPaid' /\ StoredIsTrue'
  BY DEF IInv, ClosedIsPaid, StoredIsTrue, Paid
<1> QED
  BY <1>3, <1>4, <1>5, <1>6, <1>7, <1>8 DEF IInv

\* A context that ends, a reset timeout that passes and a stuttering step
\* touch nothing the invariant speaks of but its types.
LEMMA QuietStep ==
    ASSUME IInv, ctxDone' \subseteq Prints, cooled' \in BOOLEAN,
           UNCHANGED <<pc, req, answer, tables, sent, estoque>>,
           UNCHANGED <<failures, open, phase, attempt, result>>
    PROVE  IInv'
<1> USE DEF tables, estoque
<1>1. TypeOK'
  BY DEF IInv, TypeOK, Client!TypeOK
<1>2. Wire' /\ CallsHonest' /\ PlacesReached'
  BY DEF IInv, Wire, CallsHonest, PlacesReached
<1>3. Claims' /\ ClosedIsPaid' /\ StoredIsTrue'
  BY DEF IInv, Claims, Claimed, ClosedIsPaid, StoredIsTrue, Paid
<1> QED
  BY <1>1, <1>2, <1>3 DEF IInv

LEMMA NextIInv == IInv /\ [Next]_vars => IInv'
<1> SUFFICES ASSUME IInv, [Next]_vars PROVE IInv'
  OBVIOUS
<1>1. ctxDone \subseteq Prints /\ cooled \in BOOLEAN
  BY DEF IInv, TypeOK, Client!TypeOK
<1>2. ASSUME NEW p \in Prints, NEW q \in Requests, Start(p, q) PROVE IInv'
  BY <1>2, StartStep
<1>3. ASSUME NEW p \in Prints, Handle(p) PROVE IInv'
  BY <1>3, HandleStep
<1>4. ASSUME NEW p \in Prints, Timeout(p) PROVE IInv'
  BY <1>1, <1>4, QuietStep DEF Timeout, client
<1>5. ASSUME NEW a \in Attempts, EstoqueServes(a) PROVE IInv'
  BY <1>5, ServeStep
<1>6. CASE Crash
  BY <1>6, CrashStep
<1>7. CASE ResetTimeoutPasses
  BY <1>1, <1>7, QuietStep
  DEF ResetTimeoutPasses, Client!Elapse, Client!B!Elapse, Client!callVars, handler
<1>8. CASE UNCHANGED vars
  BY <1>1, <1>8, QuietStep DEF vars, handler, client
<1> QED
  BY <1>2, <1>3, <1>4, <1>5, <1>6, <1>7, <1>8 DEF Next

-----------------------------------------------------------------------------
\* The inductive invariant holds of every behaviour.
THEOREM Inductive == Spec => []IInv
<1> QED
  BY InitIInv, NextIInv, PTL DEF Spec

\* The variables of the print, the client and Estoque keep their types: stock
\* never falls below zero and no call exceeds its retries.
THEOREM TypeCorrect == Spec => []TypeOK
<1>1. IInv => TypeOK
  BY DEF IInv
<1> QED
  BY <1>1, Inductive, PTL

\* An invoice that Print has closed is paid: its deduction is committed in
\* Estoque, whatever faults happen.
THEOREM ClosedImpliesPaid == Spec => []ClosedIsPaid
<1>1. IInv => ClosedIsPaid
  BY DEF IInv
<1> QED
  BY <1>1, Inductive, PTL

\* At most one print of an invoice is answered with a fresh success: ClaimClose
\* decides, whatever the keys and the faults.
THEOREM OneFreshSuccess == Spec => []OnePrinter
<1>1. IInv => OnePrinter
  BY DEF IInv, Claims, Claimed, OnePrinter
<1> QED
  BY <1>1, Inductive, PTL

\* A stored response is the response of a print of that invoice with that key,
\* which Estoque has served.
THEOREM StoredResponseTrue == Spec => []StoredIsTrue
<1>1. IInv => StoredIsTrue
  BY DEF IInv
<1> QED
  BY <1>1, Inductive, PTL

-----------------------------------------------------------------------------
(* The books of the two services.                                           *)

\* A request that Estoque has not decided, or has refused, is not committed; while
\* it is not decided it asks what the items of its invoice ask.
Undecided ==
    \A a \in Attempts :
        /\ verdict[a] \in {"pending", "insufficient"} => a \notin applied
        /\ verdict[a] = "pending" => demand[a] = Need[req[a[1]].inv]

\* What left the stock is what the committed requests, finitely many, took.
Balanced ==
    /\ IsFiniteSet(applied)
    /\ \A c \in Codes : stock[c] + Used(c) = InitialStock[c]

Books == IInv /\ Undecided /\ Balanced

\* A committed request took natural numbers, those its invoice asks.
LEMMA UsedTerms ==
    ASSUME IInv, NEW a \in applied, NEW c \in Codes
    PROVE  a \in Attempts /\ req[a[1]].inv \in Invoices /\ Need[req[a[1]].inv][c] \in Nat
<1>1. a \in Attempts /\ a \in sent
  BY DEF IInv, TypeOK, Wire
<1>2. req[a[1]].inv \in Invoices
  BY <1>1 DEF IInv, Wire
<1> QED
  BY <1>1, <1>2, NeedAssumption

\* A step that leaves Estoque and the requests of its callers alone.
LEMMA BooksIdle ==
    ASSUME IInv', Books, UNCHANGED <<req, estoque>>
    PROVE  Books'
<1>1. \A c \in Codes : Used(c)' = Used(c)
  BY DEF Used, estoque
<1> QED
  BY <1>1 DEF Books, Undecided, Balanced, estoque

\* A print that starts has no request at Estoque yet.
LEMMA StartBooks ==
    ASSUME Books, NEW p \in Prints, NEW q \in Requests, Start(p, q)
    PROVE  Books'
<1>1. IInv'
  BY StartStep DEF Books
<1>2. \A a \in Attempts : verdict[a] # "none" => a[1] \in Prints /\ a[1] # p /\ req'[a[1]] = req[a[1]]
  BY DEF Start, Books, IInv, TypeOK, Wire, Attempts
<1>3. UNCHANGED <<stock, demand, verdict, applied>>
  BY DEF Start, estoque
<1>4. Undecided'
  BY <1>2, <1>3 DEF Books, Undecided
<1>5. \A a \in applied : req'[a[1]] = req[a[1]]
  BY <1>2 DEF Books, IInv, TypeOK, Wire
<1>6. \A c \in Codes : Used(c)' = Used(c)
  BY <1>3, <1>5 DEF Used
<1> QED
  BY <1>1, <1>3, <1>4, <1>6 DEF Books, Balanced

\* The commit of Estoque books the demand of the request.
LEMMA ConsumeBooks ==
    ASSUME IInv', Books, NEW a \in Attempts, Estoque!Consume(a), UNCHANGED req
    PROVE  Books'
<1>1. /\ verdict[a] = "pending" /\ applied' = applied \cup {a} /\ demand' = demand
      /\ stock' = [c \in Codes |-> stock[c] - demand[a][c]]
  BY DEF Estoque!Consume
<1>2. /\ \A b \in Attempts : b # a => verdict'[b] = verdict[b]
      /\ verdict'[a] \in {"ok", "error"}
  BY DEF Estoque!Consume, Books, IInv, TypeOK
<1>3. Undecided'
  BY <1>1, <1>2 DEF Books, Undecided
<1>4. a \notin applied /\ demand[a] = Need[req[a[1]].inv] /\ IsFiniteSet(applied)
  BY <1>1 DEF Books, Undecided, Balanced
<1>5. ASSUME NEW c \in Codes PROVE stock'[c] + Used(c)' = InitialStock[c]
  <2> DEFINE h == [b \in applied |-> Need[req[b[1]].inv][c]]
             k == [b \in applied \cup {a} |-> Need[req[b[1]].inv][c]]
  <2>1. \A b \in applied \cup {a} : k[b] \in Int
    <3>1. \A b \in applied' : Need[req'[b[1]].inv][c] \in Nat
      <4> SUFFICES ASSUME NEW b \in applied' PROVE Need[req'[b[1]].inv][c] \in Nat
        OBVIOUS
      <4>1. b \in sent' /\ b \in Attempts
        BY DEF IInv, TypeOK, Wire
      <4>2. req'[b[1]].inv \in Invoices
        BY <4>1 DEF IInv, Wire
      <4> QED
        BY <4>2, NeedAssumption
    <3> QED
      BY <1>1, <3>1
  <2>2. \A b \in applied : h[b] = k[b]
    OBVIOUS
  <2>3. k[a] = demand[a][c]
    BY <1>4
  <2>4. Used(c) = SumFunctionOnSet(h, applied) /\ Used(c)' = SumFunctionOnSet(k, applied \cup {a})
    BY <1>1 DEF Used, SumFunction
  <2> HIDE DEF h, k
  <2>5. SumFunctionOnSet(h, applied) = SumFunctionOnSet(k, applied)
    BY <1>4, <2>2, SumSame
  <2>6. SumFunctionOnSet(k, applied \cup {a}) = SumFunctionOnSet(k, applied) + k[a]
    BY <1>4, <2>1, SumAdd
  <2>7. SumFunctionOnSet(k, applied) \in Int /\ k[a] \in Int
    BY <1>4, <2>1, SumInt
  <2>8. stock[c] + Used(c) = InitialStock[c] /\ stock[c] \in Nat /\ stock'[c] = stock[c] - demand[a][c]
    BY <1>1 DEF Books, Balanced, IInv, TypeOK
  <2> QED
    BY <2>3, <2>4, <2>5, <2>6, <2>7, <2>8
<1>6. Balanced'
  BY <1>1, <1>4, <1>5, FS_AddElement DEF Balanced
<1> QED
  BY <1>3, <1>6 DEF Books

\* Estoque's side of a request.
LEMMA ServeBooks ==
    ASSUME Books, NEW a \in Attempts, EstoqueServes(a)
    PROVE  Books'
<1>1. IInv' /\ UNCHANGED req
  BY ServeStep DEF Books, EstoqueServes, handler
<1>2. CASE Estoque!Receive(a, Need[req[a[1]].inv])
  <2>1. /\ verdict[a] = "none" /\ UNCHANGED <<stock, applied>>
        /\ verdict' = [verdict EXCEPT ![a] = "pending"]
        /\ demand' = [demand EXCEPT ![a] = Need[req[a[1]].inv]]
    BY <1>2 DEF Estoque!Receive
  <2>2. a \notin applied
    BY <2>1 DEF Books, IInv, Wire
  <2>3. Undecided'
    BY <1>1, <2>1, <2>2 DEF Books, Undecided, IInv, TypeOK
  <2>4. \A c \in Codes : Used(c)' = Used(c)
    BY <1>1, <2>1 DEF Used
  <2> QED
    BY <1>1, <2>1, <2>3, <2>4 DEF Books, Balanced
<1>3. CASE Estoque!Consume(a)
  BY <1>1, <1>3, ConsumeBooks
<1>4. CASE Estoque!Refuse(a) \/ Estoque!Fail(a)
  <2>1. UNCHANGED <<stock, demand, applied>>
    BY <1>4 DEF Estoque!Refuse, Estoque!Fail
  <2>2. /\ \A b \in Attempts : b # a => verdict'[b] = verdict[b]
        /\ \/ verdict'[a] = "insufficient" /\ verdict[a] = "pending"
           \/ verdict'[a] = "error"
    BY <1>4 DEF Estoque!Refuse, Estoque!Fail, Books, IInv, TypeOK
  <2>3. Undecided'
    BY <1>1, <2>1, <2>2 DEF Books, Undecided
  <2>4. \A c \in Codes : Used(c)' = Used(c)
    BY <1>1, <2>1 DEF Used
  <2> QED
    BY <1>1, <2>1, <2>3, <2>4 DEF Books, Balanced
<1> QED
  BY <1>2, <1>3, <1>4 DEF EstoqueServes

\* Every step keeps the books.
LEMMA NextBooks == Books /\ [Next]_vars => Books'
<1> SUFFICES ASSUME Books, [Next]_vars PROVE Books'
  OBVIOUS
<1>1. IInv'
  BY NextIInv DEF Books
<1>2. ASSUME NEW p \in Prints, NEW q \in Requests, Start(p, q) PROVE Books'
  BY <1>2, StartBooks
<1>3. ASSUME NEW p \in Prints, Handle(p) PROVE Books'
  <2>1. UNCHANGED <<req, estoque>>
    BY <1>3 DEF Handle, Lookup, Load, Begin, Retry, Listen, AfterCall, Claim, Reread, Save,
                StatementFails, Answer, Goto, handler
  <2> QED
    BY <1>1, <2>1, BooksIdle
<1>4. ASSUME NEW a \in Attempts, EstoqueServes(a) PROVE Books'
  BY <1>4, ServeBooks
<1>5. CASE (\E p \in Prints : Timeout(p)) \/ Crash \/ ResetTimeoutPasses \/ UNCHANGED vars
  <2>1. UNCHANGED <<req, estoque>>
    BY <1>5 DEF Timeout, Crash, ResetTimeoutPasses, vars, handler
  <2> QED
    BY <1>1, <2>1, BooksIdle
<1> QED
  BY <1>2, <1>3, <1>4, <1>5 DEF Next

\* Before any request the stock is the initial one.
LEMMA InitBooks == Init => Books
<1> SUFFICES ASSUME Init PROVE Books
  OBVIOUS
<1>1. applied = {} /\ stock = InitialStock /\ verdict = [a \in Attempts |-> "none"]
  BY DEF Init, Estoque!NoRequests
<1>2. ASSUME NEW c \in Codes PROVE stock[c] + Used(c) = InitialStock[c]
  <2>1. Used(c) = 0
    BY <1>1, SumEmpty DEF Used, SumFunction
  <2>2. InitialStock[c] \in Nat
    BY NeedAssumption
  <2> QED
    BY <1>1, <2>1, <2>2
<1> QED
  BY <1>1, <1>2, InitIInv, FS_EmptySet DEF Books, Undecided, Balanced

\* Different closed invoices were paid by different requests, so what they ask
\* is a part of what the committed requests took.
LEMMA OwedIsUsed ==
    ASSUME Books, NEW c \in Codes
    PROVE  Owed(c) <= Used(c)
<1> DEFINE closed == {i \in Invoices : status[i] = "CLOSED"}
           payer == [i \in closed |-> CHOOSE a \in applied : req[a[1]].inv = i]
           h == [i \in closed |-> Need[i][c]]
           k == [a \in applied |-> Need[req[a[1]].inv][c]]
<1>1. \A i \in closed : payer[i] \in applied /\ req[payer[i][1]].inv = i
  BY DEF Books, IInv, ClosedIsPaid, Paid
<1>2. payer \in [closed -> applied] /\ \A i, j \in closed : payer[i] = payer[j] => i = j
  BY <1>1
<1>3. IsFiniteSet(applied)
  BY DEF Books, Balanced
<1>4. IsFiniteSet(closed)
  <2> HIDE DEF closed, payer
  <2>1. payer \in Injection(closed, applied)
    BY <1>2 DEF Injection, IsInjective
  <2> QED
    BY <1>3, <2>1, FS_Injection
<1>5. \A i \in closed : h[i] \in Int /\ h[i] <= k[payer[i]]
  <2>1. \A i \in Invoices : Need[i][c] \in Nat
    BY NeedAssumption
  <2>2. \A i \in closed : k[payer[i]] = Need[i][c] /\ h[i] = Need[i][c] /\ i \in Invoices
    BY <1>1
  <2> HIDE DEF closed, payer, h, k
  <2> QED
    BY <2>1, <2>2
<1>6. \A a \in applied : k[a] \in Nat
  BY UsedTerms DEF Books
<1>7. Owed(c) = SumFunctionOnSet(h, closed) /\ Used(c) = SumFunctionOnSet(k, applied)
  BY DEF Owed, Used, SumFunction
<1> HIDE DEF closed, payer, h, k
<1>8. SumFunctionOnSet(h, closed) <= SumFunctionOnSet(k, applied)
  BY <1>2, <1>3, <1>4, <1>5, <1>6, SumInjection
<1> QED
  BY <1>7, <1>8

\* What left Estoque's stock is what its committed requests asked, and covers
\* every invoice that Faturamento has closed, under every fault.
THEOREM StockAccounts == Spec => []StockAccountsForClosed
<1>1. Books => StockAccountsForClosed
  BY OwedIsUsed DEF Books, Balanced, StockAccountsForClosed
<1> QED
  BY <1>1, InitBooks, NextBooks, PTL DEF Spec
-----------------------------------------------------------------------------
\* Prints that nothing disturbs.

\* Estoque answers no 5xx and no statement of Faturamento fails.
Healthy == Faults \cap {"estoque", "db"} = {}

NoErrors == ctxDone = {} /\ \A a \in Attempts : verdict[a] # "error"

\* What a call returned is what Estoque made of its first request, or that it
\* sent none.
Outcome(p) ==
    \/ result[p] = "ok" /\ verdict[<<p, 1>>] = "ok"
    \/ result[p] = "insufficient" /\ verdict[<<p, 1>>] = "insufficient"
    \/ result[p] = "unavailable" /\ <<p, 1>> \notin sent

\* A print sends one request and waits for its answer.
OneRequest ==
    /\ \A a \in sent : a[2] = 1 /\ phase[a[1]] # "idle"
    /\ \A p \in Prints :
          \/ phase[p] = "idle"
          \/ phase[p] = "sending" /\ pc[p] = "consume" /\ attempt[p] = 1
          \/ phase[p] = "returned" /\ Outcome(p)

Paying(p) == pc[p] \in {"consume", "claim"}

\* The invoice of a print that pays is open until it closes it, so that no other
\* request for it has been paid.
PaysOpen ==
    /\ \A p \in Prints : Paying(p) => status[req[p].inv] = "OPEN"
    /\ \A a \in applied : status[req[a[1]].inv] = "CLOSED" \/ Paying(a[1])
    /\ \A a, b \in applied : req[a[1]].inv = req[b[1]].inv => a = b

\* What happens while no request is cut short and no process dies.
Steady ==
    \/ \E p \in Prints, q \in Requests : Start(p, q)
    \/ \E p \in Prints : Handle(p)
    \/ \E a \in Attempts : EstoqueServes(a)
    \/ ResetTimeoutPasses

\* A request that ends has its answer.
Heard == \A p \in Prints : HearNothing(p) => HearAnswer(p)

\* A healthy Estoque answers what it decided.
LEMMA NoErrorsStep ==
    ASSUME Healthy, Books, NoErrors, [Steady]_vars
    PROVE  NoErrors'
<1>1. ASSUME NEW p \in Prints, NEW q \in Requests, Start(p, q)
      PROVE  UNCHANGED <<ctxDone, verdict>>
  BY <1>1 DEF Start, estoque
<1>2. ASSUME NEW p \in Prints, Handle(p) PROVE UNCHANGED <<ctxDone, verdict>>
  BY <1>2 DEF Handle, Lookup, Load, Begin, Retry, Listen, AfterCall, Claim, Reread, Save,
              StatementFails, Answer, Goto, handler, estoque
<1>3. ASSUME NEW a \in Attempts, EstoqueServes(a) PROVE NoErrors'
  <2>1. UNCHANGED ctxDone /\ verdict \in [Attempts -> Estoque!Verdicts]
    BY <1>3 DEF EstoqueServes, handler, Books, IInv, TypeOK
  <2>2. \E v \in {"pending", "ok", "insufficient"} : verdict' = [verdict EXCEPT ![a] = v]
    <3>1. "estoque" \notin Faults
      BY DEF Healthy
    <3>2. CASE Estoque!Receive(a, Need[req[a[1]].inv])
      BY <3>2 DEF Estoque!Receive
    <3>3. CASE Estoque!Refuse(a)
      BY <3>3 DEF Estoque!Refuse
    <3>4. CASE Estoque!Consume(a) /\ verdict'[a] = "ok"
      BY <2>1, <3>4 DEF Estoque!Consume
    <3> QED
      BY <1>3, <3>1, <3>2, <3>3, <3>4 DEF EstoqueServes
  <2> QED
    BY <2>1, <2>2 DEF NoErrors
<1>4. CASE ResetTimeoutPasses \/ UNCHANGED vars
  BY <1>4 DEF ResetTimeoutPasses, vars, handler, estoque, NoErrors
<1> QED
  BY <1>1, <1>2, <1>3, <1>4 DEF Steady, NoErrors

\* In these conditions no statement fails ...
LEMMA NoStatementFails ==
    ASSUME Healthy, NoErrors, NEW p \in Prints
    PROVE  ~StatementFails(p)
BY DEF Healthy, NoErrors, StatementFails

\* ... and a call that ends has heard what Estoque decided, or was not begun.
LEMMA CallEnds ==
    ASSUME Books, NoErrors, OneRequest, NEW p \in Prints, Listen(p), Heard
    PROVE  /\ phase' = [phase EXCEPT ![p] = "returned"] /\ attempt' = attempt
           /\ \E r \in {"ok", "insufficient", "unavailable"} :
                 /\ result' = [result EXCEPT ![p] = r]
                 /\ r = "ok" => verdict[<<p, 1>>] = "ok"
                 /\ r = "insufficient" => verdict[<<p, 1>>] = "insufficient"
                 /\ r = "unavailable" => <<p, 1>> \notin sent
<1>1. CASE Client!FailFast(p)
  <2>1. <<p, 1>> \notin sent
    <3>1. <<p, 1>>[1] = p /\ phase[p] = "idle"
      BY <1>1 DEF Client!FailFast
    <3> QED
      BY <3>1 DEF OneRequest
  <2> QED
    BY <1>1, <2>1 DEF Client!FailFast, Client!Return
<1>2. CASE phase[p] = "sending" /\ HearAnswer(p)
  <2>1. Current(p) = <<p, 1>> /\ Current(p) \in Attempts
    <3>1. attempt[p] = 1
      BY <1>2 DEF OneRequest
    <3> QED
      BY <1>2, <3>1, CurrentIsAttempt DEF Current, Books, IInv
  <2>2. verdict[<<p, 1>>] # "error"
    BY <2>1 DEF NoErrors
  <2>3. \/ verdict[<<p, 1>>] = "ok" /\ Client!Succeed(p)
        \/ verdict[<<p, 1>>] = "insufficient" /\ Client!Refused(p, "insufficient")
    BY <1>2, <2>1, <2>2 DEF HearAnswer
  <2> QED
    BY <2>3 DEF Client!Succeed, Client!Refused, Client!Return
<1>3. p \notin ctxDone
  BY DEF NoErrors
<1>4. HearNothing(p) => phase[p] = "sending" /\ HearAnswer(p)
  BY DEF HearNothing, Client!BackOff, Client!GiveUp, Heard
<1> QED
  BY <1>1, <1>2, <1>3, <1>4 DEF Listen

\* The handler of p goes from place to place, between its statements.
LEMMA PlaceStep ==
    ASSUME Books, NEW p \in Prints,
           Lookup(p) \/ Load(p) \/ AfterCall(p) \/ Claim(p) \/ Reread(p) \/ Save(p)
    PROVE  /\ \E place \in Places : pc' = [pc EXCEPT ![p] = place]
           /\ UNCHANGED <<req, ctxDone, sent, client, estoque>>
           /\ Running(p)
           /\ pc[p] = "consume" => phase[p] = "returned"
BY DEF Lookup, Load, AfterCall, Claim, Reread, Save, Goto, Answer, Running, Places, tables

\* One step per action: a print sends one request and waits for its answer.
LEMMA OneRequestStep ==
    ASSUME Healthy, Books, NoErrors, OneRequest, [Steady]_vars, Heard
    PROVE  OneRequest'
<1> USE DEF client
<1>1. /\ pc \in [Prints -> Places] /\ phase \in [Prints -> Client!Phases]
      /\ attempt \in [Prints -> 0..(MaxRetries + 1)] /\ result \in [Prints -> Client!Results]
      /\ sent \subseteq Attempts /\ verdict \in [Attempts -> Estoque!Verdicts]
      /\ \A p \in Prints : <<p, 1>> \in Attempts
  BY RetriesAssumption DEF Books, IInv, TypeOK, Client!TypeOK, Attempts
<1>2. ASSUME NEW p \in Prints, NEW q \in Requests, Start(p, q) PROVE OneRequest'
  <2>1. \A o \in Prints : pc[o] = "consume" => pc'[o] = "consume"
    BY <1>1, <1>2 DEF Start
  <2> QED
    BY <1>2, <2>1 DEF Start, OneRequest, Outcome, estoque
<1>3. ASSUME NEW p \in Prints, Begin(p) PROVE OneRequest'
  <2>1. /\ pc[p] = "consume" /\ phase[p] = "idle"
        /\ phase' = [phase EXCEPT ![p] = "sending"] /\ attempt' = [attempt EXCEPT ![p] = 1]
        /\ result' = result /\ UNCHANGED <<handler, estoque>>
    BY <1>3 DEF Begin, Client!Begin
  <2>2. sent' = sent \/ sent' = sent \cup {<<p, 1>>}
    <3>1. attempt'[p] = 1
      BY <1>1, <2>1
    <3> QED
      BY <1>3, <3>1 DEF Begin, Send
  <2>3. \A o \in Prints \ {p} : <<o, 1>> \in sent' => <<o, 1>> \in sent
    BY <2>2
  <2>4. \A o \in Prints \ {p} : Outcome(o) => Outcome(o)'
    BY <1>1, <2>1, <2>3 DEF Outcome, estoque
  <2>5. \A a \in sent' : a[2] = 1 /\ phase'[a[1]] # "idle"
    <3>1. \A a \in sent : a[1] \in Prints /\ a[2] = 1 /\ phase[a[1]] # "idle"
      BY <1>1 DEF Attempts, OneRequest
    <3>2. <<p, 1>>[1] = p /\ <<p, 1>>[2] = 1
      OBVIOUS
    <3> QED
      BY <1>1, <2>1, <2>2, <3>1, <3>2
  <2>6. \A o \in Prints \ {p} : phase'[o] = phase[o] /\ attempt'[o] = attempt[o]
    BY <1>1, <2>1
  <2>7. phase'[p] = "sending" /\ attempt'[p] = 1 /\ pc' = pc
    BY <1>1, <2>1 DEF handler
  <2> QED
    BY <2>1, <2>4, <2>5, <2>6, <2>7 DEF OneRequest
<1>4. ASSUME NEW p \in Prints, Retry(p) PROVE FALSE
  BY <1>4 DEF Retry, Client!Retry, OneRequest
<1>5. ASSUME NEW p \in Prints, Listen(p) PROVE OneRequest'
  <2>1. UNCHANGED <<pc, sent, verdict, attempt>> /\ phase' = [phase EXCEPT ![p] = "returned"]
    BY <1>5, CallEnds DEF Listen, handler, estoque
  <2>2. PICK r \in {"ok", "insufficient", "unavailable"} :
           /\ result' = [result EXCEPT ![p] = r]
           /\ r = "ok" => verdict[<<p, 1>>] = "ok"
           /\ r = "insufficient" => verdict[<<p, 1>>] = "insufficient"
           /\ r = "unavailable" => <<p, 1>> \notin sent
    BY <1>5, CallEnds
  <2>3. result'[p] = r /\ \A o \in Prints \ {p} : result'[o] = result[o]
    BY <1>1, <2>2
  <2>4. phase'[p] = "returned" /\ \A o \in Prints \ {p} : phase'[o] = phase[o]
    BY <1>1, <2>1
  <2>5. Outcome(p)' /\ \A o \in Prints \ {p} : Outcome(o) => Outcome(o)'
    BY <2>1, <2>2, <2>3 DEF Outcome
  <2>6. \A a \in sent : a[1] \in Prints
    BY <1>1 DEF Attempts
  <2> QED
    BY <2>1, <2>4, <2>5, <2>6 DEF OneRequest
<1>6. ASSUME NEW p \in Prints,
             Lookup(p) \/ Load(p) \/ AfterCall(p) \/ Claim(p) \/ Reread(p) \/ Save(p)
      PROVE  OneRequest'
  <2>1. \A o \in Prints : phase[o] = "sending" /\ pc[o] = "consume" => pc'[o] = "consume"
    BY <1>1, <1>6, PlaceStep
  <2> QED
    BY <1>6, <2>1, PlaceStep DEF OneRequest, Outcome, estoque
<1>7. ASSUME NEW a \in Attempts, EstoqueServes(a) PROVE OneRequest'
  <2>1. UNCHANGED <<pc, sent, phase, attempt, result>>
    BY <1>7 DEF EstoqueServes, handler
  <2>2. verdict[a] \in {"none", "pending"} /\ a \in sent
        /\ \E v \in Estoque!Verdicts : verdict' = [verdict EXCEPT ![a] = v]
    BY <1>7 DEF EstoqueServes, Estoque!Receive, Estoque!Consume, Estoque!Refuse, Estoque!Fail,
                Estoque!Verdicts, Books, IInv, Wire
  <2>3. \A p \in Prints : Outcome(p) => Outcome(p)'
    <3>1. \A b \in Attempts : verdict[b] \in {"ok", "insufficient"} => verdict'[b] = verdict[b]
      BY <1>1, <2>2
    <3> QED
      BY <1>1, <2>1, <3>1 DEF Outcome
  <2> QED
    BY <2>1, <2>3 DEF OneRequest
<1>8. CASE ResetTimeoutPasses
  <2>1. UNCHANGED <<pc, sent, phase, attempt, result, verdict>>
    BY <1>8 DEF ResetTimeoutPasses, Client!Elapse, Client!callVars, handler, estoque
  <2> QED
    BY <2>1 DEF OneRequest, Outcome
<1>9. CASE UNCHANGED vars
  <2>1. UNCHANGED <<pc, sent, phase, attempt, result, verdict>>
    BY <1>9 DEF vars, handler, estoque
  <2> QED
    BY <2>1 DEF OneRequest, Outcome
<1> QED
  BY <1>2, <1>3, <1>4, <1>5, <1>6, <1>7, <1>8, <1>9, NoStatementFails DEF Steady, Handle

\* Of an applied request: it is the first one of a print that has begun.
LEMMA AppliedFirst ==
    ASSUME Books, OneRequest, NEW a \in applied
    PROVE  /\ a \in Attempts /\ a \in sent /\ a[1] \in Prints /\ a = <<a[1], 1>>
           /\ pc[a[1]] # "idle" /\ req[a[1]].inv \in Invoices
<1>1. a \in Attempts /\ a \in sent
  BY DEF Books, IInv, TypeOK, Wire
<1>2. a[2] = 1 /\ pc[a[1]] # "idle" /\ req[a[1]].inv \in Invoices
  BY <1>1 DEF OneRequest, Books, IInv, Wire
<1> QED
  BY <1>1, <1>2 DEF Attempts

\* One step per action of the handler of p, the only print that runs.
LEMMA PaysOpenHandle ==
    ASSUME Healthy, Books, NoErrors, OneRequest, PaysOpen, NEW p \in Prints, Handle(p),
           \A o \in Prints : Running(o) => o = p
    PROVE  PaysOpen'
<1>1. /\ pc \in [Prints -> Places] /\ status \in [Invoices -> {"OPEN", "CLOSED"}]
      /\ applied' = applied /\ req' = req
  BY DEF Books, IInv, TypeOK, Handle, Lookup, Load, Begin, Retry, Listen, AfterCall, Claim,
         Reread, Save, StatementFails, Goto, Answer, handler, estoque
<1>2. \A o \in Prints : Paying(o) => o = p
  BY DEF Paying, Running
<1>3. \A a \in applied : a[1] \in Prints /\ req[a[1]].inv \in Invoices /\ a = <<a[1], 1>>
  BY AppliedFirst
<1>4. CASE Begin(p) \/ Retry(p) \/ Listen(p)
  <2>1. UNCHANGED <<pc, status>>
    BY <1>4 DEF Begin, Retry, Listen, handler, tables
  <2> QED
    BY <1>1, <2>1 DEF PaysOpen, Paying
<1>5. ASSUME status' = status, NEW place \in Places, pc' = [pc EXCEPT ![p] = place],
             place \in {"consume", "claim"} => status[req[p].inv] = "OPEN",
             \A a \in applied : a[1] = p /\ Paying(p)
                => place \in {"consume", "claim"}
      PROVE  PaysOpen'
  <2>1. pc'[p] = place /\ \A o \in Prints \ {p} : pc'[o] = pc[o]
    BY <1>1, <1>5
  <2>2. \A o \in Prints : Paying(o)' => status'[req'[o].inv] = "OPEN"
    BY <1>1, <1>2, <1>5, <2>1 DEF PaysOpen, Paying
  <2>3. \A a \in applied : Paying(a[1]) => Paying(a[1])'
    BY <1>2, <1>3, <1>5, <2>1 DEF Paying
  <2> QED
    BY <1>1, <1>5, <2>2, <2>3 DEF PaysOpen
<1>6. CASE Lookup(p)
  <2>1. \E place \in {"done", "load"} : pc' = [pc EXCEPT ![p] = place]
    BY <1>6 DEF Lookup, Goto, Answer
  <2>2. status' = status /\ ~Paying(p)
    BY <1>6 DEF Lookup, tables, Paying
  <2> QED
    BY <1>5, <2>1, <2>2 DEF Places
<1>7. CASE Load(p)
  <2>1. \/ pc' = [pc EXCEPT ![p] = "done"]
        \/ /\ pc' = [pc EXCEPT ![p] = "consume"]
           /\ req[p].inv # UnknownId /\ status[req[p].inv] = "OPEN"
    BY <1>7 DEF Load, Goto, Answer
  <2>2. status' = status /\ ~Paying(p)
    BY <1>7 DEF Load, tables, Paying
  <2> QED
    BY <1>5, <2>1, <2>2 DEF Places
<1>8. CASE AfterCall(p)
  <2>1. status' = status /\ phase[p] = "returned" /\ Outcome(p) /\ Paying(p)
    BY <1>8 DEF AfterCall, tables, OneRequest, Paying
  <2>2. CASE result[p] = "ok"
    <3>1. pc' = [pc EXCEPT ![p] = "claim"]
      BY <1>8, <2>2 DEF AfterCall, Goto
    <3> QED
      BY <1>5, <2>1, <3>1 DEF Places, PaysOpen
  <2>3. CASE result[p] # "ok"
    <3>1. pc' = [pc EXCEPT ![p] = "done"]
      BY <1>8, <2>3 DEF AfterCall, Answer
    <3>2. ASSUME NEW a \in applied, a[1] = p PROVE FALSE
      BY <2>1, <2>3, <3>2, AppliedFirst DEF Outcome, Books, Undecided
    <3> QED
      BY <1>5, <2>1, <3>1, <3>2 DEF Places
  <2> QED
    BY <2>2, <2>3
<1>9. CASE Claim(p)
  <2>1. pc[p] = "claim" /\ status[req[p].inv] = "OPEN" /\ req[p].inv \in Invoices
    BY <1>9 DEF Claim, PaysOpen, Paying, Books, IInv, PlacesReached
  <2>2. /\ status' = [status EXCEPT ![req[p].inv] = "CLOSED"]
        /\ pc' = [pc EXCEPT ![p] = "reread"]
    BY <1>9, <2>1 DEF Claim, Goto
  <2>3. pc'[p] = "reread" /\ \A o \in Prints \ {p} : pc'[o] = pc[o]
    BY <1>1, <2>2
  <2>4. \A o \in Prints : ~Paying(o)'
    BY <1>2, <2>3 DEF Paying
  <2>5. \A a \in applied : status'[req[a[1]].inv] = "CLOSED"
    BY <1>1, <1>2, <1>3, <2>1, <2>2 DEF PaysOpen
  <2> QED
    BY <1>1, <2>4, <2>5 DEF PaysOpen
<1>10. CASE Reread(p) \/ Save(p)
  <2>1. \E place \in {"done", "save"} : pc' = [pc EXCEPT ![p] = place]
    BY <1>10 DEF Reread, Save, Goto, Answer
  <2>2. status' = status /\ ~Paying(p)
    BY <1>10 DEF Reread, Save, tables, Paying
  <2> QED
    BY <1>5, <2>1, <2>2 DEF Places
<1> QED
  BY <1>4, <1>6, <1>7, <1>8, <1>9, <1>10, NoStatementFails DEF Handle

\* Estoque pays only the print that runs, whose invoice no other has paid.
LEMMA PaysOpenServes ==
    ASSUME Books, OneRequest, PaysOpen, NEW a \in Attempts, EstoqueServes(a),
           \A o, p \in Prints : Running(o) /\ Running(p) => o = p
    PROVE  PaysOpen'
<1>1. UNCHANGED <<pc, req, status>>
  BY DEF EstoqueServes, handler, tables
<1>2. CASE applied' = applied
  BY <1>1, <1>2 DEF PaysOpen, Paying
<1>3. CASE Estoque!Consume(a)
  <2>1. applied' = applied \cup {a} /\ verdict[a] = "pending"
    BY <1>3 DEF Estoque!Consume
  <2>2. a \in sent /\ a[1] \in Prints /\ a = <<a[1], 1>> /\ phase[a[1]] # "idle"
    <3>1. a \in sent
      BY <2>1 DEF Books, IInv, Wire
    <3> QED
      BY <3>1 DEF OneRequest, Attempts
  <2>3. ~Outcome(a[1])
    BY <2>1, <2>2 DEF Outcome
  <2>4. pc[a[1]] = "consume"
    BY <2>2, <2>3 DEF OneRequest
  <2>5. Paying(a[1]) /\ status[req[a[1]].inv] = "OPEN"
    BY <2>2, <2>4 DEF Paying, PaysOpen
  <2>6. ASSUME NEW b \in applied, req[b[1]].inv = req[a[1]].inv PROVE b = a
    <3>1. Paying(b[1]) /\ b[1] \in Prints /\ b = <<b[1], 1>>
      BY <2>5, <2>6, AppliedFirst DEF PaysOpen
    <3>2. b[1] = a[1]
      BY <2>2, <2>5, <3>1 DEF Paying, Running
    <3> QED
      BY <2>2, <3>1, <3>2
  <2> QED
    BY <1>1, <2>1, <2>5, <2>6 DEF PaysOpen, Paying
<1> QED
  BY <1>2, <1>3 DEF EstoqueServes, Estoque!Receive, Estoque!Refuse, Estoque!Fail

\* What else happens pays and closes nothing.
LEMMA PaysOpenStep ==
    ASSUME Healthy, Books, NoErrors, OneRequest, PaysOpen, [Steady]_vars,
           \A o, p \in Prints : Running(o) /\ Running(p) => o = p
    PROVE  PaysOpen'
<1>1. ASSUME NEW p \in Prints, NEW q \in Requests, Start(p, q) PROVE PaysOpen'
  <2>1. \A o \in Prints \ {p} : pc'[o] = pc[o] /\ req'[o] = req[o]
    BY <1>1 DEF Start, Books, IInv, TypeOK
  <2>2. pc[p] = "idle" /\ ~Paying(p)' /\ UNCHANGED <<status, applied>>
    BY <1>1 DEF Start, Paying, Books, IInv, TypeOK, tables, estoque
  <2>3. \A a \in applied : a[1] \in Prints \ {p}
    BY <2>2, AppliedFirst
  <2> QED
    BY <2>1, <2>2, <2>3 DEF PaysOpen, Paying
<1>2. ASSUME NEW p \in Prints, Handle(p) PROVE PaysOpen'
  <2>1. CASE Running(p)
    BY <1>2, <2>1, PaysOpenHandle
  <2>2. CASE ~Running(p)
    <3>1. FALSE
      BY <1>2, <2>2, NoStatementFails DEF Handle, Lookup, Load, Begin, Retry, Listen, AfterCall,
         Claim, Reread, Save, Running
    <3> QED
      BY <3>1
  <2> QED
    BY <2>1, <2>2
<1>3. ASSUME NEW a \in Attempts, EstoqueServes(a) PROVE PaysOpen'
  BY <1>3, PaysOpenServes
<1>4. CASE ResetTimeoutPasses \/ UNCHANGED vars
  <2>1. UNCHANGED <<pc, req, status, applied>>
    BY <1>4 DEF ResetTimeoutPasses, vars, handler, tables, estoque
  <2> QED
    BY <2>1 DEF PaysOpen, Paying
<1> QED
  BY <1>1, <1>2, <1>3, <1>4 DEF Steady

\* PAID: an invoice has one payment at most, and is closed exactly when it is
\* paid, once no print runs.
LEMMA PaidOncePays == ASSUME Books, OneRequest, PaysOpen PROVE PaidOnce
<1> SUFFICES ASSUME NEW i \in Invoices
             PROVE  /\ Cardinality(Paid(i)) <= 1
                    /\ (\A p \in Prints : ~Running(p)) => (Paid(i) # {} <=> status[i] = "CLOSED")
  BY DEF PaidOnce
<1>1. Paid(i) = {} \/ \E a : Paid(i) = {a}
  BY DEF Paid, PaysOpen
<1>2. Cardinality(Paid(i)) <= 1
  <2>1. Cardinality(Paid(i)) = 0 \/ Cardinality(Paid(i)) = 1
    BY <1>1, FS_EmptySet, FS_Singleton
  <2> QED
    BY <2>1
<1>3. ASSUME \A p \in Prints : ~Running(p), NEW a \in Paid(i) PROVE status[i] = "CLOSED"
  <2>1. a \in applied /\ req[a[1]].inv = i
    BY DEF Paid
  <2>2. a[1] \in Prints
    BY <2>1, AppliedFirst
  <2> QED
    BY <1>3, <2>1, <2>2 DEF PaysOpen, Paying, Running
<1>4. status[i] = "CLOSED" => Paid(i) # {}
  BY DEF Books, IInv, ClosedIsPaid
<1> QED
  BY <1>2, <1>3, <1>4

\* REFUSED: the only step that refuses a print leaves its invoice open and unpaid.
LEMMA RefusalPays ==
    ASSUME Healthy, Books, NoErrors, OneRequest, PaysOpen, [Steady]_vars,
           \A o, p \in Prints : Running(o) /\ Running(p) => o = p
    PROVE  RefusalKeepsOpen
<1> SUFFICES ASSUME NEW p \in Prints, answer[p] = "none",
                    answer'[p] \in {"insufficient", "unavailable"}
             PROVE  status'[req[p].inv] = "OPEN" /\ Paid(req[p].inv)' = {}
  BY DEF RefusalKeepsOpen
<1>1. AfterCall(p)
  <2>1. \A o \in Prints : \A a : a \notin {"insufficient", "unavailable"} => ~Answer(o, a)
    BY DEF Answer, Books, IInv, TypeOK
  <2>2. answer' # answer
    OBVIOUS
  <2>3. PICK o \in Prints : Handle(o)
    BY <2>2 DEF Steady, Start, EstoqueServes, ResetTimeoutPasses, vars, handler
  <2>4. AfterCall(o)
    BY <2>1, <2>2, <2>3, NoStatementFails
       DEF Handle, Lookup, Load, Begin, Retry, Listen, Claim, Reread, Save, Goto, handler
  <2>5. o = p
    BY <2>4 DEF AfterCall, Goto, Answer, Books, IInv, TypeOK
  <2> QED
    BY <2>4, <2>5
<1>2. result[p] # "ok" /\ UNCHANGED <<status, req, applied>>
  BY <1>1 DEF AfterCall, Goto, tables, estoque, Answer
<1>3. Running(p) /\ Paying(p) /\ phase[p] = "returned"
  BY <1>1 DEF AfterCall, Running, Paying
<1>4. status[req[p].inv] = "OPEN" /\ Outcome(p)
  BY <1>3 DEF PaysOpen, OneRequest
<1>5. ASSUME NEW a \in applied, req[a[1]].inv = req[p].inv PROVE FALSE
  <2>1. Paying(a[1]) /\ a \in Attempts /\ a \in sent /\ a[1] \in Prints /\ a = <<a[1], 1>>
    BY <1>4, <1>5, AppliedFirst DEF PaysOpen
  <2>2. a[1] = p
    BY <1>3, <2>1 DEF Paying, Running
  <2>3. verdict[a] # "insufficient"
    BY <2>1 DEF Books, Undecided
  <2> QED
    BY <1>2, <1>4, <2>1, <2>2, <2>3 DEF Outcome
<1> QED
  BY <1>2, <1>4, <1>5 DEF Paid

\* No print, no request, no payment at first.
LEMMA QuietInit == Init => NoErrors /\ OneRequest /\ PaysOpen
<1> SUFFICES ASSUME Init PROVE NoErrors /\ OneRequest /\ PaysOpen
  OBVIOUS
<1>1. /\ ctxDone = {} /\ sent = {} /\ applied = {} /\ verdict = [a \in Attempts |-> "none"]
      /\ phase = [p \in Prints |-> "idle"] /\ pc = [p \in Prints |-> "idle"]
  BY DEF Init, Estoque!NoRequests, Client!Init
<1> QED
  BY <1>1 DEF NoErrors, OneRequest, PaysOpen, Paying

-----------------------------------------------------------------------------
\* One print at a time, without faults.

OneRuns == \A o, p \in Prints : Running(o) /\ Running(p) => o = p

\* A print begins when no other runs, and none comes back.
LEMMA OneRunsStep == ASSUME IInv, OneRuns, [Next]_vars, ~Overlap PROVE OneRuns'
<1>1. pc \in [Prints -> Places]
  BY DEF IInv, TypeOK
<1>2. ASSUME NEW p \in Prints, NEW q \in Requests, Start(p, q) PROVE OneRuns'
  <2>1. \A o \in Prints : o # p => pc'[o] = pc[o] /\ ~Running(o)
    BY <1>1, <1>2 DEF Start
  <2> QED
    BY <2>1 DEF OneRuns, Running
<1>3. ASSUME NEW p \in Prints, Handle(p) PROVE OneRuns'
  <2>1. \A o \in Prints : Running(o)' => Running(o)
    <3>1. \A o \in Prints : o # p => pc'[o] = pc[o]
      BY <1>1, <1>3 DEF Handle, Lookup, Load, Begin, Retry, Listen, AfterCall, Claim, Reread, Save,
         StatementFails, Answer, Goto, handler
    <3>2. Running(p)
      BY <1>3 DEF Handle, Lookup, Load, Begin, Retry, Listen, AfterCall, Claim, Reread, Save,
         StatementFails, Running
    <3> QED
      BY <3>1, <3>2 DEF Running
  <2> QED
    BY <2>1 DEF OneRuns
<1>4. CASE Crash
  BY <1>1, <1>4 DEF Crash, OneRuns, Running
<1>5. CASE \/ \E p \in Prints : Timeout(p)
           \/ \E a \in Attempts : EstoqueServes(a)
           \/ ResetTimeoutPasses \/ UNCHANGED vars
  BY <1>5 DEF Timeout, EstoqueServes, ResetTimeoutPasses, vars, handler, OneRuns, Running
<1> QED
  BY <1>2, <1>3, <1>4, <1>5 DEF Next

Alone == Books /\ NoErrors /\ OneRequest /\ PaysOpen /\ OneRuns

LEMMA AloneInit == Init => Alone
BY InitBooks, QuietInit DEF Alone, OneRuns, Init, Running

LEMMA AloneStep == ASSUME Faults = {}, ~Overlap, Alone, [Next]_vars PROVE Alone'
<1>1. Healthy /\ Heard
  BY DEF Healthy, Heard, HearNothing, Alone, NoErrors
<1>2. [Steady]_vars
  BY DEF Next, Steady, Timeout, Crash
<1> QED
  BY <1>1, <1>2, NextBooks, NoErrorsStep, OneRequestStep, PaysOpenStep, OneRunsStep
     DEF Alone, OneRuns, Books

\* Without faults and with one print at a time, whoever sends them: every invoice
\* is paid at most once and closed exactly when it is paid, for any invoices,
\* keys, prints and stock.
THEOREM PaidOnceAlone == ASSUME Faults = {}, ~Overlap PROVE Spec => []PaidOnce
<1>1. Alone => PaidOnce
  BY PaidOncePays DEF Alone
<1>2. Alone /\ [Next]_vars => Alone'
  BY AloneStep
<1> QED
  BY <1>1, <1>2, AloneInit, PTL DEF Spec

\* ... and a refused print leaves its invoice open and unpaid.
THEOREM RefusedAlone == ASSUME Faults = {}, ~Overlap PROVE Spec => [][RefusalKeepsOpen]_vars
<1>1. Alone /\ [Next]_vars => [RefusalKeepsOpen]_vars
  BY RefusalPays DEF Alone, OneRuns, Healthy, Next, Steady, Timeout, Crash
<1>2. Alone /\ [Next]_vars => Alone'
  BY AloneStep
<1> QED
  BY <1>1, <1>2, AloneInit, PTL DEF Spec

-----------------------------------------------------------------------------
\* Retries without a reason.

Retried == {"net", "estoque"}

\* A request is sent again only after one that was not answered; a print whose
\* context has ended sends nothing, so its retries stay with it.
SentOnce ==
    /\ \A a \in Attempts : verdict[a] # "error"
    /\ \A a \in sent : a[2] = 1
    /\ \A p \in Prints \ ctxDone :
          phase[p] # "backoff" /\ (phase[p] = "sending" => attempt[p] = 1)

LEMMA SentOnceInit == Init => SentOnce
BY DEF Init, SentOnce, Estoque!NoRequests, Client!Init

\* One step per action that sends, answers or ends a request.
LEMMA SentOnceStep ==
    ASSUME Faults \cap Retried = {}, IInv, SentOnce, [Next]_vars
    PROVE  SentOnce'
<1> USE DEF client, estoque
<1>1. /\ phase \in [Prints -> Client!Phases] /\ attempt \in [Prints -> 0..(MaxRetries + 1)]
      /\ verdict \in [Attempts -> Estoque!Verdicts]
      /\ "net" \notin Faults /\ "estoque" \notin Faults
  BY DEF IInv, TypeOK, Client!TypeOK, Retried
<1>2. ASSUME NEW p \in Prints, Begin(p) PROVE SentOnce'
  <2>1. /\ phase' = [phase EXCEPT ![p] = "sending"] /\ attempt' = [attempt EXCEPT ![p] = 1]
        /\ UNCHANGED <<ctxDone, verdict>>
    BY <1>2 DEF Begin, Client!Begin, handler
  <2>2. sent' \subseteq sent \cup {<<p, 1>>}
    <3>1. attempt'[p] = 1
      BY <1>1, <2>1
    <3> QED
      BY <1>2, <3>1 DEF Begin, Send
  <2>3. phase'[p] = "sending" /\ attempt'[p] = 1
        /\ \A o \in Prints \ {p} : phase'[o] = phase[o] /\ attempt'[o] = attempt[o]
    BY <1>1, <2>1
  <2> QED
    BY <2>1, <2>2, <2>3 DEF SentOnce
<1>3. ASSUME NEW p \in Prints, Retry(p) PROVE SentOnce'
  <2>1. phase[p] = "backoff"
    BY <1>3 DEF Retry, Client!Retry
  <2>2. p \in ctxDone /\ sent' = sent
    BY <1>3, <2>1 DEF SentOnce, Retry, Send
  <2>3. /\ \A o \in Prints \ {p} : phase'[o] = phase[o] /\ attempt'[o] = attempt[o]
        /\ UNCHANGED <<ctxDone, verdict>>
    BY <1>1, <1>3 DEF Retry, Client!Retry, handler
  <2> QED
    BY <2>2, <2>3 DEF SentOnce
<1>4. ASSUME NEW p \in Prints, Listen(p) PROVE SentOnce'
  <2>1. UNCHANGED <<sent, ctxDone, verdict, attempt>>
    BY <1>4 DEF Listen, HearAnswer, HearNothing, handler, Client!FailFast, Client!Succeed,
                Client!Refused, Client!BackOff, Client!GiveUp, Client!Cancel, Client!Return
  <2>2. CASE phase' = [phase EXCEPT ![p] = "returned"]
    <3>1. phase'[p] = "returned" /\ \A o \in Prints \ {p} : phase'[o] = phase[o]
      BY <1>1, <2>2
    <3> QED
      BY <2>1, <3>1 DEF SentOnce
  <2>3. CASE Client!BackOff(p)
    <3>1. p \in ctxDone
      <4>1. phase[p] = "sending" /\ verdict[Current(p)] # "error"
        BY <2>3, CurrentIsAttempt DEF Client!BackOff, IInv, SentOnce
      <4>2. ~HearAnswer(p) \/ phase'[p] = "returned"
        BY <1>1, <4>1 DEF HearAnswer, Client!Succeed, Client!Refused, Client!Return
      <4>3. phase'[p] = "backoff"
        BY <1>1, <2>3 DEF Client!BackOff
      <4> QED
        BY <1>1, <1>4, <4>1, <4>2, <4>3
           DEF Listen, HearNothing, Client!FailFast, Client!Return
    <3>2. \A o \in Prints \ {p} : phase'[o] = phase[o]
      BY <1>1, <2>3 DEF Client!BackOff
    <3> QED
      BY <2>1, <3>1, <3>2 DEF SentOnce
  <2> QED
    BY <1>4, <2>2, <2>3 DEF Listen, HearAnswer, HearNothing, Client!FailFast, Client!Succeed,
                Client!Refused, Client!GiveUp, Client!Cancel, Client!Return
<1>5. ASSUME NEW a \in Attempts, EstoqueServes(a) PROVE SentOnce'
  <2>1. UNCHANGED <<sent, ctxDone, phase, attempt>>
    BY <1>5 DEF EstoqueServes, handler
  <2>2. \E v \in {"pending", "ok", "insufficient"} : verdict' = [verdict EXCEPT ![a] = v]
    BY <1>1, <1>5 DEF EstoqueServes, Estoque!Receive, Estoque!Refuse, Estoque!Consume
  <2> QED
    BY <1>1, <2>1, <2>2 DEF SentOnce
<1>6. CASE UNCHANGED <<sent, phase, attempt, verdict>> /\ ctxDone \subseteq ctxDone'
  BY <1>6 DEF SentOnce
<1>7. ASSUME NEW p \in Prints, NEW q \in Requests, Start(p, q) PROVE SentOnce'
  BY <1>6, <1>7 DEF Start
<1>8. ASSUME NEW p \in Prints,
             Lookup(p) \/ Load(p) \/ AfterCall(p) \/ Claim(p) \/ Reread(p) \/ Save(p)
             \/ StatementFails(p)
      PROVE  SentOnce'
  BY <1>6, <1>8 DEF Lookup, Load, AfterCall, Claim, Reread, Save, StatementFails, Goto, Answer
<1>9. CASE (\E p \in Prints : Timeout(p)) \/ Crash \/ ResetTimeoutPasses \/ UNCHANGED vars
  BY <1>6, <1>9 DEF Timeout, Crash, ResetTimeoutPasses, Client!Elapse, Client!callVars, vars, handler
<1> QED
  BY <1>2, <1>3, <1>4, <1>5, <1>7, <1>8, <1>9 DEF Next, Handle

\* The retries of a print deduct twice only when a message is lost or late or
\* Estoque answers 5xx: cancelled requests, failing statements and crashes of
\* Faturamento alone never make it so.
THEOREM RetriesHarmless ==
    ASSUME Faults \cap Retried = {}
    PROVE  Spec => []RetryPaidOnce
<1>1. IInv /\ SentOnce /\ [Next]_vars => SentOnce'
  BY SentOnceStep
<1>2. IInv /\ SentOnce => RetryPaidOnce
  <2> SUFFICES ASSUME IInv, SentOnce, NEW p \in Prints
               PROVE  Cardinality({a \in applied : a[1] = p}) <= 1
    BY DEF RetryPaidOnce
  <2>1. \A a \in applied : a[1] = p => a = <<p, 1>>
    BY DEF IInv, TypeOK, Wire, Attempts, SentOnce
  <2>2. {a \in applied : a[1] = p} = {} \/ {a \in applied : a[1] = p} = {<<p, 1>>}
    BY <2>1
  <2>3. \/ Cardinality({a \in applied : a[1] = p}) = 0
        \/ Cardinality({a \in applied : a[1] = p}) = 1
    BY <2>2, FS_EmptySet, FS_Singleton
  <2> QED
    BY <2>3
<1> QED
  BY <1>1, <1>2, SentOnceInit, Inductive, PTL DEF Spec

-----------------------------------------------------------------------------
\* The parts a print is made of.

\* ESTOQUE: the requests of the prints meet the Estoque of StockLedger, whose
\* promise the transactions of StockTx keep; only requests of existing invoices
\* reach it, each at most once.
THEOREM EstoqueAsPromised == Spec => Estoque!NoRequests /\ [][Estoque!Next]_(Estoque!ledgerVars)
<1>1. Init => Estoque!NoRequests
  BY DEF Init
<1>2. IInv /\ [Next]_vars => [Estoque!Next]_(Estoque!ledgerVars)
  <2> SUFFICES ASSUME IInv, [Next]_vars, ~UNCHANGED Estoque!ledgerVars PROVE Estoque!Next
    OBVIOUS
  <2>1. ~UNCHANGED estoque
    BY DEF estoque, Estoque!ledgerVars
  <2>2. PICK a \in Attempts : EstoqueServes(a)
    BY <2>1 DEF Next, Start, Handle, Lookup, Load, Begin, Retry, Listen, AfterCall, Claim, Reread,
                Save, StatementFails, Timeout, Crash, ResetTimeoutPasses, vars
  <2>3. a \in sent => Need[req[a[1]].inv] \in {Need[i] : i \in Invoices}
    BY DEF IInv, Wire
  <2> QED
    BY <2>2, <2>3 DEF EstoqueServes, Estoque!Next
<1> QED
  BY <1>1, <1>2, Inductive, PTL DEF Spec

\* A Faturamento process that starts again has a new breaker.
BreakerRestarts ==
    /\ failures' = 0 /\ open' = FALSE /\ cooled' = FALSE
    /\ UNCHANGED Client!callVars

\* CLIENT: the prints use the client as EstoqueClient describes it, and what goes
\* on inside a call is nothing else; only a crash is added.
THEOREM ClientAsDescribed ==
    Spec => Client!Init /\ [][Client!Next \/ BreakerRestarts]_(Client!vars)
<1>1. Init => Client!Init
  BY DEF Init
<1>2. [Next]_vars => [Client!Next \/ BreakerRestarts]_(Client!vars)
  <2> SUFFICES ASSUME [Next]_vars, ~UNCHANGED Client!vars
               PROVE  Client!Next \/ BreakerRestarts
    OBVIOUS
  <2>1. ~UNCHANGED client
    BY DEF client, Client!vars
  <2>2. CASE Crash
    BY <2>2 DEF Crash, BreakerRestarts, Client!callVars
  <2>3. CASE ResetTimeoutPasses
    BY <2>3 DEF ResetTimeoutPasses, Client!Next
  <2>4. ASSUME NEW p \in Prints, Begin(p) \/ Retry(p) PROVE Client!Next
    BY <2>4 DEF Begin, Retry, Client!Next
  <2>5. ASSUME NEW p \in Prints, Listen(p) PROVE Client!Next
    <3>1. "insufficient" \in Client!Refusals
      BY DEF Client!Refusals
    <3>2. \/ Client!FailFast(p) \/ Client!Succeed(p) \/ Client!Refused(p, "insufficient")
          \/ Client!BackOff(p) \/ Client!GiveUp(p) \/ Client!Cancel(p)
      BY <2>5 DEF Listen, HearAnswer, HearNothing
    <3> QED
      BY <3>1, <3>2 DEF Client!Next, Client!Conclude
  <2> QED
    BY <2>1, <2>2, <2>3, <2>4, <2>5
       DEF Next, Start, Handle, Lookup, Load, AfterCall, Claim, Reread, Save, StatementFails,
           Timeout, EstoqueServes, vars
<1> QED
  BY <1>1, <1>2, PTL DEF Spec

-----------------------------------------------------------------------------
\* A print comes to an end: each step of its handler is one further, no step of
\* anybody takes it back, and there are finitely many.

CallSteps == 2 * MaxRetries + 2

\* How far the call of ConsumeStock is.
CallRank(p) ==
    CASE phase[p] = "idle" -> 0
      [] phase[p] = "sending" -> 2 * attempt[p] - 1
      [] phase[p] = "backoff" -> 2 * attempt[p]
      [] OTHER -> CallSteps

\* How far the handler is.
Rank(p) ==
    CASE pc[p] = "idle" -> 0
      [] pc[p] = "lookup" -> 1
      [] pc[p] = "load" -> 2
      [] pc[p] = "consume" -> 3 + CallRank(p)
      [] pc[p] = "claim" -> CallSteps + 4
      [] pc[p] = "reread" -> CallSteps + 5
      [] pc[p] = "save" -> CallSteps + 6
      [] OTHER -> CallSteps + 7

LastRank == CallSteps + 7

Ranked ==
    \A p \in Prints : CallRank(p) \in 0..CallSteps /\ Rank(p) \in 0..LastRank

\* The ranks are bounded.
LEMMA RankBounds == IInv => Ranked
<1> SUFFICES ASSUME IInv, NEW p \in Prints
             PROVE  CallRank(p) \in 0..CallSteps /\ Rank(p) \in 0..LastRank
  BY DEF Ranked
<1>1. /\ MaxRetries \in Nat /\ phase[p] \in Client!Phases /\ pc[p] \in Places
      /\ phase[p] = "sending" => attempt[p] \in 1..(MaxRetries + 1)
      /\ phase[p] = "backoff" => attempt[p] \in 1..MaxRetries
  BY RetriesAssumption DEF IInv, TypeOK, Client!TypeOK, CallsHonest
<1>2. CallRank(p) \in 0..CallSteps
  <2>1. CASE phase[p] = "idle"
    BY <1>1, <2>1 DEF CallRank, CallSteps
  <2>2. CASE phase[p] = "sending"
    BY <1>1, <2>2 DEF CallRank, CallSteps
  <2>3. CASE phase[p] = "backoff"
    BY <1>1, <2>3 DEF CallRank, CallSteps
  <2>4. CASE phase[p] = "returned"
    BY <1>1, <2>4 DEF CallRank, CallSteps
  <2> QED
    BY <1>1, <2>1, <2>2, <2>3, <2>4 DEF Client!Phases
<1>3. CallSteps \in Nat
  BY <1>1 DEF CallSteps
<1> HIDE DEF CallSteps, CallRank
<1>4. Rank(p) \in 0..LastRank
  <2>1. CASE pc[p] = "consume"
    <3>1. Rank(p) = 3 + CallRank(p)
      BY <2>1 DEF Rank
    <3> QED
      BY <1>2, <1>3, <3>1 DEF LastRank
  <2>2. CASE pc[p] # "consume"
    <3>1. Rank(p) \in {0, 1, 2, CallSteps + 4, CallSteps + 5, CallSteps + 6, CallSteps + 7}
      BY <1>1, <2>2 DEF Rank, Places
    <3> QED
      BY <1>3, <3>1 DEF LastRank
  <2> QED
    BY <2>1, <2>2
<1> QED
  BY <1>2, <1>4

\* A step inside the call of p.
LEMMA CallAdvances ==
    ASSUME IInv, NEW p \in Prints, Begin(p) \/ Retry(p) \/ Listen(p)
    PROVE  /\ CallRank(p) < CallRank(p)' /\ pc[p] = "consume" /\ pc' = pc
           /\ \A o \in Prints \ {p} : phase'[o] = phase[o] /\ attempt'[o] = attempt[o]
<1>1. /\ MaxRetries \in Nat
      /\ phase \in [Prints -> Client!Phases] /\ attempt \in [Prints -> 0..(MaxRetries + 1)]
      /\ phase[p] = "sending" => attempt[p] \in 1..(MaxRetries + 1)
      /\ phase[p] = "backoff" => attempt[p] \in 1..MaxRetries
  BY RetriesAssumption DEF IInv, TypeOK, Client!TypeOK, CallsHonest
<1>2. pc[p] = "consume" /\ pc' = pc
  BY DEF Begin, Retry, Listen, handler
<1>3. CASE Begin(p)
  <2>1. /\ phase[p] = "idle" /\ phase' = [phase EXCEPT ![p] = "sending"]
        /\ attempt' = [attempt EXCEPT ![p] = 1]
    BY <1>3 DEF Begin, Client!Begin
  <2>2. phase'[p] = "sending" /\ attempt'[p] = 1
        /\ \A o \in Prints \ {p} : phase'[o] = phase[o] /\ attempt'[o] = attempt[o]
    BY <1>1, <2>1
  <2> QED
    BY <1>2, <2>1, <2>2 DEF CallRank
<1>4. CASE Retry(p)
  <2>1. /\ phase[p] = "backoff" /\ phase' = [phase EXCEPT ![p] = "sending"]
        /\ attempt' = [attempt EXCEPT ![p] = attempt[p] + 1]
    BY <1>4 DEF Retry, Client!Retry
  <2>2. phase'[p] = "sending" /\ attempt'[p] = attempt[p] + 1
        /\ \A o \in Prints \ {p} : phase'[o] = phase[o] /\ attempt'[o] = attempt[o]
    BY <1>1, <2>1
  <2>3. CallRank(p) = 2 * attempt[p] /\ CallRank(p)' = 2 * attempt'[p] - 1
    BY <2>1, <2>2 DEF CallRank
  <2> QED
    BY <1>1, <1>2, <2>1, <2>2, <2>3
<1>5. CASE Client!BackOff(p)
  <2>1. phase'[p] = "backoff" /\ phase[p] = "sending" /\ attempt' = attempt
        /\ \A o \in Prints \ {p} : phase'[o] = phase[o]
    BY <1>1, <1>5 DEF Client!BackOff
  <2>2. CallRank(p) = 2 * attempt[p] - 1 /\ CallRank(p)' = 2 * attempt[p]
    BY <2>1 DEF CallRank
  <2> QED
    BY <1>1, <1>2, <2>1, <2>2
<1>6. ASSUME NEW r, Client!Return(p, r), phase[p] # "returned" PROVE CallRank(p) < CallRank(p)'
  <2>1. phase'[p] = "returned"
    BY <1>1, <1>6 DEF Client!Return
  <2>2. CallRank(p)' = CallSteps
    BY <2>1 DEF CallRank
  <2>3. CASE phase[p] = "idle"
    BY <1>1, <2>2, <2>3 DEF CallRank, CallSteps
  <2>4. CASE phase[p] = "sending"
    BY <1>1, <2>2, <2>4 DEF CallRank, CallSteps
  <2>5. CASE phase[p] = "backoff"
    BY <1>1, <2>2, <2>5 DEF CallRank, CallSteps
  <2> QED
    BY <1>1, <1>6, <2>3, <2>4, <2>5 DEF Client!Phases
<1>7. ASSUME NEW r, Client!Return(p, r)
      PROVE  \A o \in Prints \ {p} : phase'[o] = phase[o] /\ attempt'[o] = attempt[o]
  BY <1>1, <1>7 DEF Client!Return
<1>8. CASE Listen(p) /\ ~Client!BackOff(p)
  <2>1. \E r : Client!Return(p, r) /\ phase[p] # "returned"
    BY <1>8 DEF Listen, HearAnswer, HearNothing, Client!FailFast, Client!Succeed, Client!Refused,
                Client!GiveUp, Client!Cancel
  <2> QED
    BY <1>2, <1>6, <1>7, <2>1
<1> QED
  BY <1>3, <1>4, <1>5, <1>8

\* No step takes a print back, and each step of its handler is one further.
Advance ==
    \A p \in Prints : Rank(p) <= Rank(p)' /\ (Handle(p) => Rank(p) < Rank(p)')

\* A step of the handler of p outside its call.
LEMMA PlaceAdvances ==
    ASSUME IInv, Ranked, Ranked', NEW p \in Prints,
           \/ Lookup(p) \/ Load(p) \/ AfterCall(p) \/ Claim(p)
           \/ Reread(p) \/ Save(p) \/ StatementFails(p)
    PROVE  /\ Rank(p) < Rank(p)' /\ client' = client
           /\ \A o \in Prints \ {p} : pc'[o] = pc[o]
<1> DEFINE To(places) == \E place \in places : pc' = [pc EXCEPT ![p] = place]
<1>1. pc \in [Prints -> Places] /\ CallSteps \in Nat
      /\ CallRank(p) \in 0..CallSteps /\ CallRank(p)' \in 0..CallSteps
  BY RetriesAssumption DEF IInv, TypeOK, Ranked, CallSteps
<1>2. \/ pc[p] = "lookup" /\ To({"done", "load"})
      \/ pc[p] = "load" /\ To({"done", "consume"})
      \/ pc[p] = "consume" /\ phase[p] = "returned" /\ To({"done", "claim"})
      \/ pc[p] = "claim" /\ To({"done", "reread"})
      \/ pc[p] = "reread" /\ To({"done", "save"})
      \/ pc[p] = "save" /\ To({"done"})
  BY DEF Lookup, Load, AfterCall, Claim, Reread, Save, StatementFails, Goto, Answer
<1>3. client' = client
  BY DEF Lookup, Load, AfterCall, Claim, Reread, Save, StatementFails, client
<1>4. \A o \in Prints \ {p} : pc'[o] = pc[o]
  BY <1>1, <1>2
<1>5. phase[p] = "returned" => CallRank(p) = CallSteps
  BY DEF CallRank
<1>6. \/ pc[p] = "lookup" /\ pc'[p] \in {"done", "load"}
      \/ pc[p] = "load" /\ pc'[p] \in {"done", "consume"}
      \/ pc[p] = "consume" /\ CallRank(p) = CallSteps /\ pc'[p] \in {"done", "claim"}
      \/ pc[p] = "claim" /\ pc'[p] \in {"done", "reread"}
      \/ pc[p] = "reread" /\ pc'[p] \in {"done", "save"}
      \/ pc[p] = "save" /\ pc'[p] = "done"
  BY <1>1, <1>2, <1>5
<1> HIDE DEF CallSteps, CallRank, To
<1>7. Rank(p) < Rank(p)'
  BY <1>1, <1>6 DEF Rank
<1> QED
  BY <1>3, <1>4, <1>7

\* A step that leaves the place and the call of o alone leaves its rank alone.
LEMMA RankKept ==
    ASSUME NEW o \in Prints, pc'[o] = pc[o],
           phase'[o] = phase[o], attempt'[o] = attempt[o]
    PROVE  Rank(o)' = Rank(o)
BY DEF Rank, CallRank

\* Every step of the system.
LEMMA AdvanceStep ==
    ASSUME IInv, Ranked, Ranked', Next
    PROVE  Advance
<1>1. \A o \in Prints : Rank(o) \in 0..LastRank /\ Rank(o)' \in 0..LastRank
  BY DEF Ranked
<1>2. pc \in [Prints -> Places] /\ LastRank = CallSteps + 7 /\ CallSteps \in Nat
  BY RetriesAssumption DEF IInv, TypeOK, LastRank, CallSteps
<1>3. \A p \in Prints : Handle(p) => pc[p] \in Places \ {"idle", "done", "dead"}
  BY <1>2 DEF Handle, Lookup, Load, Begin, Retry, Listen, AfterCall, Claim, Reread, Save,
              StatementFails
<1> HIDE DEF LastRank, CallSteps
<1>4. ASSUME NEW p \in Prints, Handle(p)
      PROVE  Rank(p) < Rank(p)' /\ \A o \in Prints \ {p} : Rank(o)' = Rank(o)
  <2>1. CASE Begin(p) \/ Retry(p) \/ Listen(p)
    <3>1. /\ CallRank(p) < CallRank(p)' /\ pc[p] = "consume" /\ pc' = pc
          /\ \A o \in Prints \ {p} : phase'[o] = phase[o] /\ attempt'[o] = attempt[o]
      BY <2>1, CallAdvances
    <3>2. Rank(p) = 3 + CallRank(p) /\ Rank(p)' = 3 + CallRank(p)'
      BY <3>1 DEF Rank
    <3>3. CallRank(p) \in Int /\ CallRank(p)' \in Int
      BY <1>2 DEF Ranked
    <3>4. \A o \in Prints \ {p} : Rank(o)' = Rank(o)
      BY <3>1, RankKept
    <3> HIDE DEF CallRank, Rank
    <3> QED
      BY <3>1, <3>2, <3>3, <3>4
  <2>2. CASE ~(Begin(p) \/ Retry(p) \/ Listen(p))
    <3>1. /\ Rank(p) < Rank(p)' /\ client' = client
          /\ \A o \in Prints \ {p} : pc'[o] = pc[o]
      BY <1>4, <2>2, PlaceAdvances DEF Handle
    <3>2. \A o \in Prints \ {p} : Rank(o)' = Rank(o)
      BY <3>1, RankKept DEF client
    <3> QED
      BY <3>1, <3>2
  <2> QED
    BY <2>1, <2>2
<1>5. ASSUME NEW p \in Prints, Handle(p), NEW o \in Prints PROVE Rank(o) <= Rank(o)'
  BY <1>1, <1>2, <1>4, <1>5
<1>6. ASSUME NEW p \in Prints, NEW q \in Requests, Start(p, q), NEW o \in Prints
      PROVE  Rank(o) <= Rank(o)'
  <2>1. CASE o = p
    <3>1. Rank(o) = 0
      BY <1>6, <2>1 DEF Start, Rank
    <3> QED
      BY <1>1, <1>2, <3>1
  <2>2. CASE o # p
    <3>1. pc'[o] = pc[o] /\ phase' = phase /\ attempt' = attempt
      BY <1>2, <1>6, <2>2 DEF Start, client
    <3> QED
      BY <1>1, <1>2, <3>1, RankKept
  <2> QED
    BY <2>1, <2>2
<1>7. ASSUME Crash, NEW o \in Prints PROVE Rank(o) <= Rank(o)'
  <2>1. CASE Running(o)
    <3>1. pc'[o] = "dead"
      BY <1>7, <2>1 DEF Crash
    <3>2. Rank(o)' = LastRank
      BY <3>1 DEF Rank, LastRank
    <3> QED
      BY <1>1, <1>2, <3>2
  <2>2. CASE ~Running(o)
    <3>1. pc'[o] = pc[o] /\ phase' = phase /\ attempt' = attempt
      BY <1>7, <2>2 DEF Crash
    <3> QED
      BY <1>1, <1>2, <3>1, RankKept
  <2> QED
    BY <2>1, <2>2
<1>8. ASSUME \/ \E p \in Prints : Timeout(p)
             \/ \E a \in Attempts : EstoqueServes(a)
             \/ ResetTimeoutPasses,
             NEW o \in Prints
      PROVE  Rank(o) <= Rank(o)'
  <2>1. pc' = pc /\ phase' = phase /\ attempt' = attempt
    BY <1>8 DEF Timeout, EstoqueServes, ResetTimeoutPasses, Client!Elapse, Client!callVars,
                handler, client
  <2> QED
    BY <1>1, <1>2, <2>1, RankKept
<1>9. \A o \in Prints : Rank(o) <= Rank(o)'
  BY <1>5, <1>6, <1>7, <1>8 DEF Next
<1> QED
  BY <1>4, <1>9 DEF Advance

\* Whatever is lost, late or crashes, the handler of a print takes at most
\* LastRank steps and no step of anybody takes it back: no attempt, back-off or
\* statement is repeated for ever.  With the fairness of FairSpec this is why
\* every print is answered.
THEOREM PrintsAdvance ==
    Spec => [](\A p \in Prints : Rank(p) \in 0..LastRank) /\ [][Advance]_vars
<1>1. Ranked => \A p \in Prints : Rank(p) \in 0..LastRank
  BY DEF Ranked
<1>2. IInv /\ Ranked /\ Ranked' /\ [Next]_vars => [Advance]_vars
  BY AdvanceStep
<1> QED
  BY <1>1, <1>2, Inductive, RankBounds, PTL DEF Spec
=============================================================================
