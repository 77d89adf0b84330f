----------------------------- MODULE PrintFlow -----------------------------
(* POST /api/invoices/{id}/print from end to end: handlers of the           *)
(* Faturamento service interleave over the invoice table and the table of   *)
(* idempotency keys, share one EstoqueClient and its breaker, and Estoque   *)
(* executes the requests they sent when these reach it, also after the      *)
(* caller has given up.  A print is one execution of the handler.           *)
EXTENDS Integers, FiniteSetsExt

CONSTANTS Prints,         \* executions of the handler
          Invoices,       \* rows of table invoices
          UnknownId,      \* a path id without a row
          Keys,           \* Idempotency-Key values
          NoKey,          \* header absent or blank
          Requests,       \* [inv, key] records a caller may send
          Codes,          \* product codes, all with a row in Estoque
          Need,           \* [Invoices -> [Codes -> Nat]]: the invoice items
          InitialStock,   \* [Codes -> Nat]
          Threshold, MaxRetries,   \* of the client
          Faults,         \* the faults of this run, a subset of AllFaults
          Overlap         \* may a caller print while another print runs?

ASSUME IdsAssumption == UnknownId \notin Invoices /\ NoKey \notin Keys
ASSUME RequestsAssumption ==
    Requests \subseteq [inv : Invoices \cup {UnknownId}, key : Keys \cup {NoKey}]
ASSUME NeedAssumption ==
    Need \in [Invoices -> [Codes -> Nat]] /\ InitialStock \in [Codes -> Nat]
ASSUME RetriesAssumption == MaxRetries \in Nat

VARIABLES status,       \* [Invoices -> {"OPEN", "CLOSED"}]
          saved,        \* [Keys -> Invoices \cup {UnknownId}]: stored response
          pc,           \* [Prints -> Places]: the handler
          req,          \* [Prints -> Requests \cup {NoRequest}]
          answer,       \* [Prints -> Answers]
          ctxDone,      \* prints whose request context has ended
          sent,         \* requests that went on the wire to Estoque
          failures, open, cooled, phase, attempt, result,   \* EstoqueClient
          stock, demand, verdict, applied                   \* Estoque

handler == <<pc, req, answer, ctxDone>>
tables == <<status, saved>>
client == <<failures, open, cooled, phase, attempt, result>>
estoque == <<stock, demand, verdict, applied>>
vars == <<handler, tables, sent, client, estoque>>

AllFaults == { "net",       \* a request or its answer is lost, or late
               "estoque",   \* Estoque answers 5xx
               "timeout",   \* a request context ends: 30 s, or the caller left
               "db",        \* a statement of Faturamento fails
               "crash" }    \* the Faturamento process dies

\* Estoque's requests: a print and the number of its attempt.
Attempts == Prints \X (1..(MaxRetries + 1))

Client == INSTANCE EstoqueClient WITH Calls <- Prints

Estoque == INSTANCE StockLedger WITH
    Reqs <- Attempts, created <- Codes, MaxStock <- 0,
    Demands <- {Need[i] : i \in Invoices}

Places == {"idle", "lookup", "load", "consume", "claim", "reread", "save", "done", "dead"}
Running(p) == pc[p] \notin {"idle", "done", "dead"}

Answers == {"none", "stored", "not_found", "not_open", "insufficient", "unavailable",
            "already_closed", "internal", "printed"}

NoRequest == [inv |-> UnknownId, key |-> NoKey]

Init ==
    /\ status = [i \in Invoices |-> "OPEN"]
    /\ saved = [k \in Keys |-> UnknownId]
    /\ pc = [p \in Prints |-> "idle"]
    /\ req = [p \in Prints |-> NoRequest]
    /\ answer = [p \in Prints |-> "none"]
    /\ ctxDone = {}
    /\ sent = {}
    /\ Client!Init
    /\ Estoque!NoRequests
    /\ stock = InitialStock

-----------------------------------------------------------------------------
Goto(p, place) ==
    /\ pc' = [pc EXCEPT ![p] = place]
    /\ UNCHANGED <<req, answer, ctxDone>>

Answer(p, a) ==
    /\ pc' = [pc EXCEPT ![p] = "done"]
    /\ answer' = [answer EXCEPT ![p] = a]
    /\ UNCHANGED <<req, ctxDone>>

\* Anyone may send q at any time; Overlap = FALSE asks what one execution at a
\* time can do.
Start(p, q) ==
    /\ pc[p] = "idle"
    /\ Overlap \/ \A other \in Prints : ~Running(other)
    /\ req' = [req EXCEPT ![p] = q]
    /\ pc' = [pc EXCEPT ![p] = IF q.key = NoKey THEN "load" ELSE "lookup"]
    /\ UNCHANGED <<answer, ctxDone, tables, sent, client, estoque>>

\* GetIdempotencyResponse: a stored response is returned as it is.
Lookup(p) ==
    /\ pc[p] = "lookup" /\ p \notin ctxDone
    /\ IF saved[req[p].key] # UnknownId THEN Answer(p, "stored") ELSE Goto(p, "load")
    /\ UNCHANGED <<tables, sent, client, estoque>>

\* Mutant: the invoice is claimed before the consume and never given back.
LoadClaiming(p) ==
    /\ pc[p] = "load" /\ p \notin ctxDone
    /\ CASE req[p].inv = UnknownId -> Answer(p, "not_found") /\ UNCHANGED status
         [] req[p].inv # UnknownId /\ status[req[p].inv] # "OPEN" ->
                Answer(p, "not_open") /\ UNCHANGED status
         [] OTHER -> Goto(p, "consume") /\ status' = [status EXCEPT ![req[p].inv] = "CLOSED"]
    /\ UNCHANGED <<saved, sent, client, estoque>>

\* GetByID and the status check; the items it reads never change.
Load(p) ==
    /\ pc[p] = "load" /\ p \notin ctxDone
    /\ CASE req[p].inv = UnknownId -> Answer(p, "not_found")
         [] req[p].inv # UnknownId /\ status[req[p].inv] # "OPEN" -> Answer(p, "not_open")
         [] OTHER -> Goto(p, "consume")
    /\ UNCHANGED <<tables, sent, client, estoque>>

-----------------------------------------------------------------------------
\* Estoque.ConsumeStock, called at "consume".  A request whose context has
\* ended is not sent.
Current(p) == <<p, attempt[p]>>

\* Mutant: the request carries the number of the attempt before it.
SendBehind(p) == sent' = sent \cup {Current(p)}

Send(p) == sent' = IF p \in ctxDone THEN sent ELSE sent \cup {<<p, attempt'[p]>>}

Begin(p) ==
    /\ pc[p] = "consume"
    /\ Client!Begin(p)
    /\ Send(p)
    /\ UNCHANGED <<handler, tables, estoque>>

Retry(p) ==
    /\ pc[p] = "consume"
    /\ Client!Retry(p)
    /\ Send(p)
    /\ UNCHANGED <<handler, tables, estoque>>

\* Mutant: a status from 500 on passes for success.
HearErrorAsSuccess(p) ==
    \/ verdict[Current(p)] \in {"ok", "error"} /\ Client!Succeed(p)
    \/ verdict[Current(p)] = "insufficient" /\ Client!Refused(p, "insufficient")

\* The answer of Estoque to the current request arrives ...
HearAnswer(p) ==
    \/ verdict[Current(p)] = "ok" /\ Client!Succeed(p)
    \/ verdict[Current(p)] = "insufficient" /\ Client!Refused(p, "insufficient")
    \/ verdict[Current(p)] = "error" /\ (Client!BackOff(p) \/ Client!GiveUp(p))

\* ... or the request ends without one: lost, timed out or cancelled.
HearNothing(p) ==
    /\ "net" \in Faults \/ p \in ctxDone
    /\ Client!BackOff(p) \/ Client!GiveUp(p)

\* Steps of the call that send nothing.
Listen(p) ==
    /\ pc[p] = "consume"
    /\ \/ Client!FailFast(p)
       \/ phase[p] = "sending" /\ HearAnswer(p)
       \/ HearNothing(p)
       \/ p \in ctxDone /\ Client!Cancel(p)
    /\ UNCHANGED <<handler, tables, sent, estoque>>

\* SaveIdempotencyResponse: ON CONFLICT (key) DO NOTHING.
Store(p) == saved' = [saved EXCEPT ![req[p].key] = IF @ = UnknownId THEN req[p].inv ELSE @]

\* Mutant: the handler goes on after a refusal.
AfterCallUnchecked(p) ==
    /\ pc[p] = "consume" /\ phase[p] = "returned"
    /\ IF result[p] \in {"ok", "insufficient"} THEN Goto(p, "claim") ELSE Answer(p, "unavailable")
    /\ UNCHANGED <<tables, sent, client, estoque>>

\* Mutant: the key is recorded before the invoice is closed.
AfterCallSavingFirst(p) ==
    /\ pc[p] = "consume" /\ phase[p] = "returned"
    /\ CASE result[p] = "ok" /\ req[p].key # NoKey -> Goto(p, "claim") /\ Store(p)
         [] result[p] = "ok" /\ req[p].key = NoKey -> Goto(p, "claim") /\ UNCHANGED saved
         [] OTHER -> Answer(p, "unavailable") /\ UNCHANGED saved
    /\ UNCHANGED <<status, sent, client, estoque>>

\* What the handler makes of the error the call returned.  Its 409 for a product
\* that is not found is never reached: Estoque's consume answers no 404.
AfterCall(p) ==
    /\ pc[p] = "consume" /\ phase[p] = "returned"
    /\ CASE result[p] = "ok" -> Goto(p, "claim")
         [] result[p] = "insufficient" -> Answer(p, "insufficient")
         [] OTHER -> Answer(p, "unavailable")
    /\ UNCHANGED <<tables, sent, client, estoque>>

-----------------------------------------------------------------------------
\* Mutant: the UPDATE without its status condition.
ClaimUnguarded(p) ==
    /\ pc[p] = "claim" /\ p \notin ctxDone
    /\ status' = [status EXCEPT ![req[p].inv] = "CLOSED"]
    /\ Goto(p, "reread")
    /\ UNCHANGED <<saved, sent, client, estoque>>

\* Mutant: a claim that comes too late calls RevertClose.
ClaimReverting(p) ==
    /\ pc[p] = "claim" /\ p \notin ctxDone
    /\ IF status[req[p].inv] = "OPEN"
       THEN /\ status' = [status EXCEPT ![req[p].inv] = "CLOSED"]
            /\ Goto(p, "reread")
       ELSE /\ status' = [status EXCEPT ![req[p].inv] = "OPEN"]
            /\ Answer(p, "already_closed")
    /\ UNCHANGED <<saved, sent, client, estoque>>

\* ClaimClose: UPDATE ... WHERE status = 'OPEN'.
Claim(p) ==
    /\ pc[p] = "claim" /\ p \notin ctxDone
    /\ IF status[req[p].inv] = "OPEN"
       THEN /\ status' = [status EXCEPT ![req[p].inv] = "CLOSED"]
            /\ Goto(p, "reread")
       ELSE UNCHANGED status /\ Answer(p, "already_closed")
    /\ UNCHANGED <<saved, sent, client, estoque>>

\* GetByID once more; what it returns becomes the response.
Reread(p) ==
    /\ pc[p] = "reread" /\ p \notin ctxDone
    /\ IF req[p].key = NoKey THEN Answer(p, "printed") ELSE Goto(p, "save")
    /\ UNCHANGED <<tables, sent, client, estoque>>

Save(p) ==
    /\ pc[p] = "save" /\ p \notin ctxDone
    /\ Store(p)
    /\ Answer(p, "printed")
    /\ UNCHANGED <<status, sent, client, estoque>>

\* A statement reports an error.  When only its acknowledgement was lost, its
\* effect is there all the same.  An error of the last one is ignored.
StatementFails(p) ==
    /\ "db" \in Faults \/ p \in ctxDone
    /\ \/ pc[p] \in {"lookup", "load", "claim", "reread"} /\ Answer(p, "internal")
       \/ pc[p] = "save" /\ Answer(p, "printed")
    /\ \/ UNCHANGED tables
       \/ /\ pc[p] = "claim"
          /\ status' = [status EXCEPT ![req[p].inv] = "CLOSED"]
          /\ UNCHANGED saved
       \/ /\ pc[p] = "save"
          /\ Store(p)
          /\ UNCHANGED status
    /\ UNCHANGED <<sent, client, estoque>>

-----------------------------------------------------------------------------
Timeout(p) ==
    /\ "timeout" \in Faults
    /\ Running(p) /\ p \notin ctxDone
    /\ ctxDone' = ctxDone \cup {p}
    /\ UNCHANGED <<pc, req, answer, tables, sent, client, estoque>>

\* Every running handler dies, the breaker starts afresh; the tables and what
\* is on its way to Estoque stay.
Crash ==
    /\ "crash" \in Faults
    /\ \E p \in Prints : Running(p)
    /\ pc' = [p \in Prints |-> IF Running(p) THEN "dead" ELSE pc[p]]
    /\ failures' = 0 /\ open' = FALSE /\ cooled' = FALSE
    /\ UNCHANGED <<req, answer, ctxDone, tables, sent, phase, attempt, result, estoque>>

ResetTimeoutPasses ==
    /\ Client!Elapse
    /\ UNCHANGED <<handler, tables, sent, estoque>>

\* Estoque's side of one request.
EstoqueServes(a) ==
    /\ \/ a \in sent /\ Estoque!Receive(a, Need[req[a[1]].inv])
       \/ Estoque!Consume(a) /\ ("estoque" \in Faults \/ verdict'[a] = "ok")
       \/ Estoque!Refuse(a)
       \/ "estoque" \in Faults /\ a \in sent /\ Estoque!Fail(a)
    /\ UNCHANGED <<handler, tables, sent, client>>

-----------------------------------------------------------------------------
Handle(p) ==
    \/ Lookup(p) \/ Load(p)
    \/ Begin(p) \/ Retry(p) \/ Listen(p) \/ AfterCall(p)
    \/ Claim(p) \/ Reread(p) \/ Save(p)
    \/ StatementFails(p)

Next ==
    \/ \E p \in Prints, q \in Requests : Start(p, q)
    \/ \E p \in Prints : Handle(p) \/ Timeout(p)
    \/ \E a \in Attempts : EstoqueServes(a)
    \/ Crash
    \/ ResetTimeoutPasses

Spec == Init /\ [][Next]_vars

\* The Go scheduler runs every handler and the HTTP client's timeout ends every
\* request to Estoque; nothing is assumed of Estoque, the network or the caller.
FairSpec == Spec /\ \A p \in Prints : WF_vars(Handle(p))

-----------------------------------------------------------------------------
TypeOK ==
    /\ status \in [Invoices -> {"OPEN", "CLOSED"}]
    /\ saved \in [Keys -> Invoices \cup {UnknownId}]
    /\ pc \in [Prints -> Places]
    /\ req \in [Prints -> Requests \cup {NoRequest}]
    /\ answer \in [Prints -> Answers]
    /\ ctxDone \subseteq Prints
    /\ sent \subseteq Attempts
    /\ Client!TypeOK
    /\ stock \in [Codes -> Nat]
    /\ demand \in [Attempts -> [Codes -> Nat]]
    /\ verdict \in [Attempts -> Estoque!Verdicts]
    /\ applied \subseteq Attempts

\* Requests of prints of i whose deduction is committed in Estoque.
Paid(i) == {a \in applied : req[a[1]].inv = i}

\* No invoice is closed for free, whatever is lost, late or crashes: the close
\* in one database follows a committed deduction in the other.
ClosedIsPaid == \A i \in Invoices : status[i] = "CLOSED" => Paid(i) # {}

\* Concurrent prints of an invoice, with one key or several, produce at most one
\* fresh success.
OnePrinter ==
    \A p, q \in Prints :
        answer[p] = "printed" /\ answer[q] = "printed" /\ req[p].inv = req[q].inv => p = q

\* A replayed response tells of a print that happened: the key was recorded by a
\* print of that invoice with that key, and the invoice is closed and paid.
StoredIsTrue ==
    \A k \in Keys : saved[k] # UnknownId =>
        /\ status[saved[k]] = "CLOSED"
        /\ \E p \in Prints : req[p] = [inv |-> saved[k], key |-> k] /\ result[p] = "ok"

\* What the committed requests took of c, and what the closed invoices ask of it.
Used(c) == SumFunction([a \in applied |-> Need[req[a[1]].inv][c]])
Owed(c) == SumFunction([i \in {j \in Invoices : status[j] = "CLOSED"} |-> Need[i][c]])

\* The books of the two services agree as far as they can: what left the stock
\* is what the committed requests asked, and covers every closed invoice, so two
\* invoices that compete for the last unit are never both closed.
StockAccountsForClosed ==
    \A c \in Codes : stock[c] + Used(c) = InitialStock[c] /\ Owed(c) <= Used(c)

\* A print that has started is answered, or lost with its process.
EveryPrintAnswered == \A p \in Prints : Running(p) ~> ~Running(p)

\* Without faults and with one print at a time an invoice is paid at most once,
\* and, when no print runs, it is closed exactly when it is paid.
PaidOnce ==
    \A i \in Invoices :
        /\ Cardinality(Paid(i)) <= 1
        /\ (\A p \in Prints : ~Running(p)) => (Paid(i) # {} <=> status[i] = "CLOSED")

\* A print that is refused, or meets an open breaker, leaves its invoice open and
\* unpaid, as its message says.
RefusalKeepsOpen ==
    \A p \in Prints : answer[p] = "none" /\ answer'[p] \in {"insufficient", "unavailable"}
        => status'[req[p].inv] = "OPEN" /\ Paid(req[p].inv)' = {}

\* "repeated calls with the same key return the stored result without side
\* effects": prints of an invoice with one key deduct once.
SameKeyPaidOnce ==
    \A k \in Keys, i \in Invoices :
        Cardinality({a \in applied : req[a[1]] = [inv |-> i, key |-> k]}) <= 1

\* "a network retry (double click or automatic retry) never consumes stock
\* twice": the retries inside one print deduct once.
RetryPaidOnce ==
    \A p \in Prints : Cardinality({a \in applied : a[1] = p}) <= 1
=============================================================================
