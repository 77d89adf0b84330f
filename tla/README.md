# korp in TLA+

korp issues and prints invoices. It is two Go services with one PostgreSQL
database each, a third one that starts and stops them, and an Angular
application. This directory holds TLA+ specifications of the parts where steps
of several actors meet, TLC configurations that check them on small instances,
and theorems checked by TLAPS for every value of the constants.

Paths in this file are relative to the repository; the services live under
`backend/`, the application under `frontend/invoice-app/src/app/`.

## 1. The system

### Components

| Component | State | Operations | What is hard |
|---|---|---|---|
| **Estoque** (`backend/estoque`) | table `products` | create, update, list products; `POST /products/consume` deducts the items of an invoice in one transaction | row locks taken in the order of the body; a failure on a later item; edits with absolute quantities; a commit whose acknowledgement is lost |
| **Client of Estoque** (`backend/faturamento/internal/client`) | a circuit breaker in memory | `ConsumeStock`: breaker, request, retries with backoff | calls overlap, and those admitted before the breaker opened record their outcome after it |
| **Printing** (`backend/faturamento/internal/handlers/invoice.go`, `repository/invoice_repo.go`) | tables `invoices`, `idempotency_keys` | `POST /invoices/{id}/print`: look the key up, read the invoice, consume, claim the close, store the key | a deduction in one database and a close in the other with no transaction over both; lost and late answers, retries, crashes, two prints of one invoice |
| **Creating invoices** (same files) | tables `invoices`, `invoice_items`, `invoice_counters` | `POST /invoices` takes the next number inside its transaction | numbers without gaps while transactions overlap and fail |
| **Reset scripts, migrations** (`scripts/`, `internal/db`) | the same tables | truncate; zero the counter; insert a missing counter at each start | they run next to the services |
| **Control** (`backend/control`, `scripts/run-all.sh`) | per service: `running`, `cmd`, `doneCh` under a mutex | start, stop, status; a goroutine waits for each child | check and registration under separate locks; children that hang, crash, lose their port or outlive Control |
| **Toolbar** (`features/shell`) | a badge per service, a busy flag | health polls, start and stop, logout | checks answered in any order; an action that goes on after its connection broke or the toolbar is gone |
| **Products page** (`features/products`) | the list; the dialog's form | load, dialog, AI suggestion, save | loads that overtake each other; an answer that meets a changed form |
| **Invoices page** (`features/invoices`) | the list, `printingId` | load, print | a print offered on old news, or awaited by nobody any more |
| **Activity page** (`features/logs`) | the rows shown, a progress bar | open, timer, button, leave | a polled stream that ends |
| **Activity log** | table `activity_logs` in each database | appended by handlers, read by the page | failures are only logged |
| **AI description** (`backend/estoque/internal/ai`) | none | one outgoing request, a fallback text | the form its answer meets |
| **Authentication, configuration** | a signed token; none | stateless checks; wiring | what an expired token does to a page |

### How they meet

* The invoices page posts a print with an idempotency key. The handler calls
  Estoque over HTTP through the shared client, then closes the invoice in its
  own database and stores the key. Nothing else spans the two databases.
* The products page posts products while consumes run; its dialog also asks
  Estoque for a description. No page sends the `PUT` that Estoque offers (see
  section 5).
* The toolbar asks Control to start and stop the services and polls their
  health; Control signals the processes and waits for them.
* The scripts write the databases behind the services' back, and `run-all.sh`
  ends what listens on the ports before it starts Control.

### What correct means

* *Estoque*: a consume takes everything or nothing, once, and only what is
  there; it is answered although requests lock rows in opposite orders.
* *Client*: the breaker's flag and count agree, late outcomes do not wind it
  up.
* *Printing*: what is closed is paid, one print of an invoice wins, a replayed
  response is true, the two databases' books agree; without faults an invoice is
  paid once.
* *Creating*: numbers are 1, 2, 3, ... without gap or repetition, through
  failures, restarts and resets.
* *Control*: it owns the one live process of a service; a stop that reports
  success has seen the process exit; every action is answered, also after
  Control itself has died and was started again.
* *Application*: a page at rest shows what the tables hold, a product told as
  saved is listed, a page that is stayed on pays an invoice once; a badge comes
  to tell the truth, the buttons come back, and they are disabled as long as the
  toolbar awaits an action, of which there is one at most.

The hazards behind these, each at its line, are in `PROJECT.json`.

## 2. The modules

| Module | Models | Uses |
|---|---|---|
| `StockLedger` | what Estoque promises: atomic consumption | |
| `StockTx` | Estoque as it runs: transactions, statements, row locks | `StockLedger` (refined) |
| `Breaker` | `allow`, `recordFailure`, `recordSuccess` | |
| `EstoqueClient` | `ConsumeStock` of concurrent handlers | `Breaker` (instance) |
| `PrintFlow` | the print end to end | `EstoqueClient`, `StockLedger` (instances) |
| `InvoiceRegister` | what creation promises | |
| `InvoiceNumbering` | the transaction of `Create` | `InvoiceRegister` (refined) |
| `InvoiceReset` | creation next to scripts, crashes, migrations | `InvoiceNumbering` |
| `Supervisor` | Control and the processes of one service | |
| `Backend` | the services as the application sees them: each answers or not | |
| `ActivityFeed` | the activity logs of both services and the page that polls them | `Backend` |
| `Toolbar` | badges, health checks, the start and stop button, broken connections, logout | `Backend` |
| `WebShell` | what a timer drives: activity page or toolbar | `ActivityFeed`, `Toolbar` |
| `PageLoads` | how a page loads its list | |
| `InvoicesPage` | the invoices page over the print handlers | `PrintFlow`, `PageLoads` |
| `ProductDesk` | the products page, its dialog, the AI suggestion | `PageLoads` |
| `WebPages` | the two pages that change something | `InvoicesPage`, `ProductDesk` |
| `*Proofs` | theorems about the module they are named after, and those that extend it or that it extends | TLAPS, `Sums` |
| `Sums` | lemmas about the library's sum over a finite set, for the accounts | TLAPS |
| `MC*` | model values and definitions for TLC | |

Definitions whose comment begins with "Mutant:" are faulty forms of the
definition below them. They belong to no specification: each one is what a
plausible mistake in the code would turn the definition into, and `PROJECT.json`
tells which property notices it.

### Correspondence with the code

**StockTx.** One step is one SQL statement of `ConsumeStock`
(`product_repo.go:89-118`). `items` and `next` are the loop, `taken` the
uncommitted deductions, which are also the row locks: a row is locked by the
transaction that has deducted from it. `Matches` is the guard of the UPDATE on
the version the transaction sees; a row that does not match is refused without
waiting, a row that matches and is locked is waited for, and after the wait the
guard is evaluated again (READ COMMITTED). `Commit` may answer an error, as its
acknowledgement can be lost. `CreateProduct` and `UpdateProduct` are the other
two writers. The lock manager and the deadlock detector are PostgreSQL's and
are marked external. `applied` and `restocked` are ghosts for the accounts.
`StockLedger` has one atomic `Consume`, and refuses only what the stock does not
cover.

**Breaker, EstoqueClient.** The methods of the breaker hold a mutex and are one
step each. `cooled` stands for `time.Since(openedAt) >= resetTimeout`; `Elapse`
sets it. A call is `idle`, `sending`, in `backoff` or `returned`; what Estoque
answers is left open, so that every outcome may follow every request. `Reuse`
lets a slot serve another print, which makes the model's life endless.

**PrintFlow.** A print goes through `Places` in the order of the handler
(`invoice.go:82-175`); each place is one statement or the call of the client,
whose own steps are those of `EstoqueClient`. A request that is on the wire is in
`sent`, and Estoque (`StockLedger`) serves it at any later time, also after the
caller has given up: that is how a late request deducts. A retry is a request of
its own, as it is in the code, where it carries nothing Estoque could recognise
it by. `Faults` switches on lost messages, errors of Estoque, contexts that end,
failing statements (with and without their effect) and crashes of Faturamento.
An ended context stops the handler's statements and its backoff, and requests
are no longer sent. `Overlap = FALSE` asks what one execution at a time can do.

**InvoiceNumbering, InvoiceReset.** `number[r] # 0` is the row lock on the
counter from the UPDATE to the end of the transaction. `InvoiceRegister` gives
numbers in the order in which invoices come to exist. `InvoiceReset` adds
`reset-db.sh`, whose two commands are two transactions, `reset-db.sql`, which
truncates the counter too, and `Restart`: the process dies with its
transactions and the migration inserts a missing counter row. `raced` remembers
that creations overlapped the two commands. Two outcomes of a creation need a reset
to have come before and are defined here: `FindNoCounter`, as the statement's own
seed is invisible to it, and `NumberTaken`, the UNIQUE constraint.

**Supervisor.** A handler goes from critical section to critical section of
`service.start`, `waitHealthy` and `stop` (`control/cmd/server/main.go:42-130`).
`target` and `awaited` are the pid and the channel it has read before an unlock.
The channel of a child is named by the child. The goroutine of a child first
clears the fields, whichever child they speak of by then, and then closes the
channel (`Reap`, `CloseDone`). Children boot, listen unless the port is taken,
drain when they are told to, fail to connect or migrate, and exit whenever they
like. `main` itself calls `start` (`ControlBoots`) and serves when that has come
back. `ControlDies` forgets what Control knew and leaves the children, which are
process groups of their own (`main.go:64`); `FreePort` is `run-all.sh:16-18`,
which kills what listens, before `ControlBoots` again. `overlapped` remembers
that this Control had two actions to execute at once; `straggler` that a process
which did not listen outlived its Control.

**ActivityFeed.** `Log`, `Insert` and `LogFails` are one report of a handler
(`activity_repo.go:22-35`): its place in the order of the list is taken before
the row is visible, and a failure costs the row only. Rows are numbers in that
order, and `List` keeps the newest. A load (`logs.ts:79-101`) is a record in
`loads`: which service it waits for, whether that has answered, what it has got.
`Reload` replaces the load in flight, as `switchMap` does; the services are asked
one after the other (the comment above `load` speaks of `forkJoin`). A failed
answer, which is what the proxy sends for a stopped service, ends the stream
(`live`), and `loading` stays as it was. The truncation of `activity_logs` by
`reset-db.sql` is left out: it empties the page, and the properties speak of
rows that exist.

**Toolbar.** `checks` are the health checks in flight, per service and in the
order they were asked; the service or the proxy answers any of them at any time
(`ServeCheck`), and any answered one may arrive next (`HearCheck`), as nothing
in `shell.ts:55-72` cancels or orders them. `posted` are the actions that Control
executes, each with whether the toolbar awaits it. `ActionEnds` is Control's answer
(or its death, or a request that never got there). A connection that breaks
(`ConnectionBreaks`) frees the buttons like an error answer (`shell.ts:91-94`), and
logging out (`LogOut`) stops the waiting; in both cases the action goes on, as the
handler does not look at the context of its request (`main.go:212-236`), and the next
action runs next to it. So the toolbar sees to it that it awaits one action at most
(`OneAwaited`), which is less than `~overlapped` of `Supervisor`: even one browser can
make two actions overlap, and what holds then is what `supervisor` checks without
that condition and `supervisor_owner` shows.

**PageLoads, InvoicesPage, ProductDesk.** A load is a subscription of its own
(`products.ts:56-73`, `invoices.ts:66-87`): `loads` holds them in the order they
were asked, the service answers with its committed table, and the last to arrive
is shown. `garbled` remembers that a load failed, was served before an earlier one
or arrived before it, until the list is loaded while no other load is in flight. `InvoicesPage` shows the `status` of `PrintFlow` and starts its
prints: `PrintRow` has the guard of `print()`, a row shown as open and
`printingId` free, and a key not used before; `PrintAnswered` and `PrintBreaksOff`
free the button and load again. Leaving the page forgets the print it awaited
(`strayed`); `disturbed` remembers that an answer was lost. In `ProductDesk` a
description is nothing, typed, the model's or the offline text; a change of the code
clears what begins with "Produto " and nothing else, and an answer is put into the
form whatever its code is by then.
`Environment` stops and starts Estoque, and stands for a session that expires,
which every request of the page feels in the same way.

**Backend, WebShell, WebPages.** Toolbar and activity page share only what they hear
of the services (`up`), which come and go at any time; the router shows one of the
other pages at a time, and those share nothing. A behaviour therefore exercises one
part (`part`, `route`) while the other is at rest, which leaves out no interaction
between them and spares the product of their states.

## 3. What is checked

| Run | Instance | States | Shows |
|---|---|---|---|
| `stock` | 2 products, 2 requests, lists: empty, crossed order, a repeated code, a quantity of 0 or -1 behind a valid item of the same or the other product; `MaxStock = 2` | 25 thousand | what is reserved stays covered, conservation, refinement of `StockLedger`, every request is answered |
| `client` | 3 handlers; the configured threshold 3 and 3 retries | 146 thousand | flag and count agree, late failures are bounded (that a call returns is part of `print_live`) |
| `print_faults` | 2 overlapping prints of 4 kinds of request, same stock, 1 retry, every fault | 3 million | closed is paid, one winner, stored responses are true, stock accounts for what is closed |
| `pages` | 2 prints with fresh keys over 2 units and invoices that need 1 and 2, a lossy network, 2 loads in flight; 2 codes to type | 888 thousand | while Estoque answers no 5xx and no statement fails, a page that is stayed on and hears its answers pays an invoice once and its refusals leave the invoice open; at rest it shows the table and it never reopens a row, what is saved is listed: after a load that failed or was overtaken, from the next load by itself on |
| `print_live` | 2 overlapping prints with one key, lossy network, ended contexts | 64 thousand | every print is answered |
| `numbering` | 4 creations, failures at every statement | 9 thousand | no gaps, no repetition, refinement of `InvoiceRegister`, every creation is answered |
| `reset` | 3 creations, both scripts, restarts | 7 thousand | numbers are unique; the counter follows the table unless creations overlapped `reset-db.sh` |
| `supervisor` | 2 handlers, 3 children, Control dies once | 203 thousand | in turn: one live process, owned, also after a restart of Control; always: a stop tells the truth, exits are noticed, actions are answered |
| `shell` | 2 rows per service, a window of 1; 2 checks per service and 2 actions in flight; services that stop and start | 52 thousand | the page never goes back to older rows, its progress bar tells of a load in flight or an ended stream, while the stream lives every row is shown or pushed out; badges settle on the truth, the buttons come back, and are disabled exactly while the one action the toolbar awaits goes on |
| `print_same_key` | 2 overlapping prints, one key, no faults | violation | both deduct |
| `print_retry` | prints in turn, answers may be lost | violation | the retry deducts again |
| `supervisor_owner` | as `supervisor` | violation | two overlapping starts leave a live process without owner |

The last three runs each state what a comment or document of the repository says
and find a behaviour of the code that differs; `PROJECT.json` quotes the lines.

### Why the bounds are enough

* Two requests and two products are what a lock cycle takes; a list of two
  items has an earlier item to give back and a later one to fail on. Quantities
  up to 2 distinguish "covers one", "covers both" and "covers neither".
* Three callers let two come back after a third has opened the breaker. The
  count is bounded by what the theorem `FailureCountBounded` says for any number.
* Two units, an invoice that needs one of them and an invoice that needs both:
  the first can be deducted twice by mistake, and the two cannot both be covered.
  Estoque's answers to one attempt and its retry, each early, late or never, are
  all the client distinguishes. With `Threshold = 1` the first failed print opens
  the breaker, so that the next one meets it open; the count itself is the
  business of `client`, which has the configured values.
* Four creations let three wait for the counter while one holds it.
* Two rows and a window of one row are enough for rows to become visible out of
  order and to push each other out; services fail independently between the two
  fetches of a load.
* Three children are an old one, its replacement and a third that loses the
  port; two handlers are the two actions that overlap, one of them also `main`.
  One death of Control leaves a child of each state behind, which is all the
  next Control can meet.
* Two loads, two checks or two actions in flight let the second be answered, or
  arrive, before the first. A poll that finds `MaxChecks` in flight adds none.
* Two codes let a list have one product and lack the other: a load may be served
  before, between or after two saves.

No run uses a state constraint. Creations, prints and consumes are each made
once, children are created once, and `MaxStock` bounds the quantity an edit sets.
Symmetry (of prints, keys, typed codes) is used in `print_faults` and `pages` only,
which check invariants and action properties.
`CHECK_DEADLOCK FALSE` stands where every request may have been served
(`PrintFlow`, the pages over it, `InvoiceNumbering`); elsewhere a state without successor would be
an error.

### Fairness

* `StockTx`, `InvoiceNumbering`: weak fairness of each request's own steps. A
  live transaction's statements are executed, a released lock wakes its waiter,
  and the detector ends a cycle. Requests are finite in number, so nobody waits
  behind an endless queue; nothing is assumed of clients or of failures.
* `PrintFlow`: each handler goes on, which includes the end of a request without
  an answer (the HTTP client has a timeout) and the backoff timer. Estoque, the network and the callers are not fair.
* `Supervisor`: handlers and watchers are scheduled; `startTimeout` passes
  however often the loop of `waitHealthy` turns (strong fairness, as the loop
  leaves and re-enters the place where the deadline is read). The services are
  not fair: they may hang for ever in boot or shutdown.
* `ActivityFeed`: the interval keeps ticking (weak), and the steps of a load are
  strongly fair: they may be cancelled by a tick again and again, but not every
  time, as a load takes milliseconds and a period three seconds. With answers
  slower than the period nothing would ever be shown. Handlers, services and the
  user are not fair.
* `Toolbar`: the interval ticks, every check is answered (the proxy answers for a
  service that does not) and heard, and Control answers every action (`ActionEnds`),
  which is `EveryActionAnswered` of `Supervisor`; strong, because the bound on checks
  in flight disables the answer now and then. No connection has to break.

## 4. What is proved

Every invariant and every action property of the passing runs is stated by a
theorem, and both refinements are proved. The theorems hold for every value of
the constants that satisfies the named
assumptions of the module: item lists are sequences of codes with integer
quantities, threshold and retries are naturals, ids and keys differ from their
sentinels, the sets that are counted are finite, and what the button of the
invoices page sends is one of the requests (`CallersAssumption`). A hypothesis
beyond these is in the theorem's statement.

**`Sums`** — what the accounts rest on. `SumFunctionOnSet` of the library folds over
a set in the order of `CHOOSE`, as a recursive function. That this function exists
and is unique is shown by a minimal counterexample in place of induction: among the
finitely many subsets on which the fold goes wrong one is minimal
(`MinimalSubset`). From there on a sum can be unfolded at any element
(`SumRemove`, `SumAdd`), depends on the values only (`SumSame`), grows with the set
and the values (`SumMonotone`, `SumSubset`) and is bounded through an injection
(`SumInjection`).

**`StockTxProofs`** — `TypeCorrect`, `NeverOversold`, `Conserved`,
`Refinement`. The first two need
`TakenInTx`: only an open transaction has deductions, and only on rows that
exist. Without it `CreateProduct` could set a row somebody has reserved.
They rest on the row lock (`OneWriterPerRow`), which the model takes from PostgreSQL.
`Take` keeps the reservation covered because the guard compares with the
committed stock less the transaction's own deductions and nobody else has any on
that row; `Commit` keeps it because the rows it lowers are reserved by nobody
else; `UpdateProduct` because it waits for the lock.
The accounts need `Progress`: what a transaction has taken of a product is the sum of
the items it has passed, so that at the commit it is the whole demand; and
`Settled`: committed requests are answered, and a code without a row has no stock.
`Refinement` follows step by step from these (`Books`): the body's first step is
the ledger's arrival, the commit its consumption, and a refusal is one of the ledger
because the first item that does not fit shows that the whole demand does not.
The attempt to prove it showed that the demand of a body was defined wrongly: it
added up negative quantities too, and a body that asks one unit and gives one back
would then have asked nothing, but be refused. The repository refuses a quantity
below one wherever it stands (`product_repo.go:101`), so a demand counts positive
quantities; the run now has such a body.

**`EstoqueClientProofs`** — `TypeCorrect`, `BreakerConsistent`,
`FailureCountBounded`. The bound on the count is not inductive: it needs a
budget, failures plus the calls that can still fail (`LateBudget`), and
`RetriesLeft`, which bounds the attempts of a call in progress. A call that
records a failure leaves the calls in progress, so the sum does not grow while
the breaker is open.

**`PrintFlowProofs`** — with every fault `TypeCorrect`, `ClosedImpliesPaid`,
`OneFreshSuccess`, `StoredResponseTrue`, `StockAccounts`. The invariant follows the news from
Estoque to the table: `Wire` (an "ok" tells of a committed deduction, and what
is answered was sent), `CallsHonest` (a call that returned "ok" was told so about
a deduction of its own print), `PlacesReached` (whoever stands at the claim or
beyond has such a call), `Claims` (a claim is exclusive, as its UPDATE tests the
status). The books (`Balanced`) move at a commit of Estoque only, and what the
closed invoices are owed is covered because each has a committed request of its own:
choosing one is an injection of the closed invoices into the committed requests.

Which faults break the promises of a single payment is told apart by three more.
`PaidOnceAlone` and `RefusedAlone`: without faults and with one print at a time an
invoice is paid once and closed exactly when it is paid, and a refusal leaves it
open and unpaid. A print then sends one request and waits for its answer
(`OneRequest`), and the invoice of a print on its way to the claim is open, so
that nobody else has paid it (`PaysOpen`). `RetriesHarmless`: the violation of
`print_retry` needs a lost or late message or a 5xx of Estoque; with ended
contexts, failing statements, crashes and overlapping prints the retries inside one
print deduct once, since a print whose context has ended sends nothing any more.
`PrintsAdvance`: no step takes a print back, and its handler takes at most
`2 * MaxRetries + 9` steps; with the fairness of `FairSpec` this is why every print
is answered.

`EstoqueAsPromised` and `ClientAsDescribed` tie the composition to its parts: the
requests of the prints are a behaviour of `StockLedger`, which the transactions of
`StockTx` implement, and what prints do to the breaker is a behaviour of
`EstoqueClient`, except that a crash makes it a new one.

**`InvoiceNumberingProofs`** — `TypeCorrect`, `NumbersGapFree`, `Refinement`.
`Numbered` ties the counter to the number of invoices, `OneHolder` says that one
transaction holds a number and that it is the next one, `RowAfterCommit` ties
rows to places. `Refinement` proves that initial states and steps of
`InvoiceNumbering` are initial states and steps, or stutters, of
`InvoiceRegister`. With crashes and resets `UniqueThroughResets`, `CounterFollows`. Uniqueness needs
no order of counter and table, only the lock and the constraint: one transaction
holds a number (`OneHolder`), and the number it has inserted past the UNIQUE
constraint stays free until its commit (`InsertedIsFree`). That the counter follows
needs more: away from the scripts a held number is the next one (`HeldIsNext`), and
between the two commands of an undisturbed `reset-db.sh` there is no invoice and no
holder (`NothingBetween`).

**`SupervisorProofs`** — `TypeCorrect`, `Ownership`, `OneProcess`, `StopSeesExit`. In
turn, at most one handler acts (`AtMostOneActs`), a goroutine that waits for a
child waits for the one in the fields, and none does while another is being created
(`WaitsForCmd`); a live child without a goroutine is about to be registered
(`Unregistered`), and what an earlier Control left has been ended, stragglers
excepted (`LostIsGone`). `StopSeesExit` needs that a stop waits for the process it
signals (`StopsOne`), as `cmd` and `doneCh` tell of one process (`OneDoneCh`), and
that only an exited process has its channel closed, whatever overlaps.

**`WebShellProofs`** — for the activity page `TypeCorrect`, `ProgressBar`,
`LoadsDoNotCompete`, `NeverForgets`. That a window holds at most `Limit` rows (`ListFits`) is shown
by counting: the number of newer rows is an injection of the list into
`0..Limit-1`. The progress bar needs that at most one load is in flight and none
without a stream: only then does the end of one load mean that nothing is loading. That the page never
forgets a row needs that tables only grow and that a load on its way still brings
each row the page shows, or enough newer ones (`Memory`); a load that is replaced
takes nothing with it.
For the toolbar `OneAction`: whatever is removed from the actions in Control, one at
most is awaited and the buttons know it (`EndKeepsOne`). `PartsAlone` shows that the shell is
both next to each other, so that what is proved of a part holds in it.

**`WebPagesProofs`** — `RestShowsTable`, `RowsStayClosed`, `SavedGetsListed`, `PaidOnceHere`, `RefusedHere`, `PagesPrint`, with a lossy network,
errors of Estoque and failing statements
(crashes and ended contexts are left to `PrintFlow`). All about loads rests on one notion, the list
the page will come to rest with (`Newest`): the youngest load, or what is shown when
there is none. While no print is awaited that list is the table, once it is answered
(`TruthComes`), because an undisturbed page awaits whatever print runs
(`AwaitsWhatRuns`) and loads again when it ends; on the products page it has all that
was told as saved (`SavedComes`). Rows stay closed because loads that do not overtake
each other are answered from the front with ever newer tables (`InOrder`), and no
step of the print opens an invoice (`ServicesStep`). That a load by itself makes
good what was overtaken needs that even then nothing is newer than the table (`Past`).
`PaidOnceHere` and `RefusedHere` suppose that Estoque answers no 5xx and no statement
fails (`Healthy`; with either a paid invoice can stay open and be printed again). A page
that has not left a print behind awaits the only one that runs, and a page whose
messages all arrived has calls that heard each answer (`CalmHears`), so that the
argument of `PaidOnceAlone` carries over to prints that could overlap.
`PagesPrint`: behind the pages there is a behaviour of `PrintFlow`.

**Only model-checked.** The eight liveness properties (`EveryRequestAnswered`,
`EveryPrintAnswered`, `EveryCreateReplied`, `ExitNoticed`, `EveryActionAnswered`,
`FeedCatchesUp`, `BadgeSettles`, `BusyEnds`), because the provers cannot reason about
fairness, and the three violation runs, which show a behaviour.

## 5. Observations

What the models showed beyond the three violation runs above, or what their
behaviours contain without a run of their own.

* A consume of an unknown product is answered 409 "insufficient stock"; the 404
  branch of the handler (`product.go:159`) is not reached.
* Refusals by a healthy Estoque are recorded as failures (`estoque.go:128`), so
  three prints short of stock open the breaker for everybody.
* After the reset timeout the breaker lets every waiting call through, not one
  probe as the comment at `estoque.go:22-23` has it: `allow` closes it for the
  first caller (`estoque.go:44`) and the others find it closed.
* A failed fetch of the activity page ends its subscription (`logs.ts:52-57` has
  no `catchError`): stopping a service from the toolbar freezes an open activity
  page, with its progress bar, until the tab is left and entered again. The
  tooltip and the guide speak of an update every 3 s. As Estoque is asked before
  Faturamento, a printed invoice can be shown without the deduction that preceded it.
* The success of a call admitted before the breaker opened closes it before its
  timeout (`estoque.go:65`).
* Of two overlapping prints of one invoice with different keys both may deduct;
  the one that loses the claim is answered "already closed" and the stock it took
  is not given back. `ClosedIsPaid` is therefore an implication, not an
  equivalence, and `PaidOnceOnPage` is checked for a page that is not left.
* A creation that commits between the two commands of `reset-db.sh` leaves the
  counter behind the table; later creations are refused by the UNIQUE constraint
  until the counter has passed or a reset runs again.
* After `reset-db.sql` there is no counter row. The seed in the statement of
  `Create` is invisible to the UPDATE of the same statement, so creations fail
  until a restart runs the migration.
* The pencil of the products page opens the form for a new product: `openEdit`
  passes the product itself (`products.ts:93`), the dialog looks for
  `data.product` (`product-dialog.ts:47`). Saving creates a product, or is refused
  as a duplicate, and a success is reported as "Produto atualizado". README.md:17
  promises editing. `PUT /products/{code}` has no caller in the application.
* A text of the language model stays in the form when the code changes, unless
  it begins with "Produto " (`product-dialog.ts:84`); an answer on its way is put
  into the form whatever the code is by then (`product-dialog.ts:101`). So a text
  made for one code may be saved with another, although the comment at
  `product-dialog.ts:83` says that a stale suggestion is cleared. `ProductDesk` has
  this behaviour, and no property speaks of the text.
* The toolbar's action goes on in Control when its connection breaks, and the
  buttons are free: a second start may overlap the first, which is what
  `supervisor_owner` needs.
* Of two loads of a list the older may be answered, or shown, last, and the page
  keeps the older list until it loads again.
* `printingId` belongs to the component: a page left and entered again while its
  print runs offers the invoice once more, with a fresh key, and both prints may
  deduct. Hence the condition `~strayed` of `PaidOnceOnPage`.
* DETALHAMENTO_TECNICO.md:57 says that `switchMap` in the toolbar cancels earlier
  health checks. `shell.ts:49-72` has none: an older answer may overwrite a newer
  one until the next poll, so that what holds is `BadgeSettles`. The lists of
  products and invoices are loaded without `switchMap` as well.
* The product detail reads the activity log newest first
  (`product-detail.ts:113-136`): it meets the print of an invoice before its
  creation, ignores the print as it knows no such invoice yet, and then shows the
  invoice as open.
* With an expired token every request fails until the user logs out: the guard
  asks only whether a token is there (`auth.guard.ts:10`).
* The toolbar is behind the login and the login needs Faturamento: who logs out
  while Faturamento is stopped cannot start it from the application.
* When Control dies, its children live on. `run-all.sh` kills what listens on the
  ports; a process that is still booting, or draining, survives, can take the port
  before the child of the new Control does, and then has no owner
  (`straggler`). A boot may take 30 s (`main.go:27-36` of the services: 15 s to
  connect, 15 s to migrate) while `startTimeout` is 12 s, so a start can be answered
  with an error and succeed all the same.

## 6. What is not modelled, and the plan

Not modelled: login and the token checks, configuration and routes have no state
of their own that steps of several actors share. Validation of request bodies is
the guard of the action that begins the request. Read-only routes appear only as
the answers the pages load. The detail dialogs and the creation dialog of invoices
only show or send once. `RevertClose` of the invoice repository has no caller.
Lengths of timeouts and backoffs are left out; what they cause is an action.

Done, in the order of the plan: Estoque (`StockLedger`, `StockTx`), the client
(`Breaker`, `EstoqueClient`), printing (`PrintFlow`), creation and resets
(`InvoiceRegister`, `InvoiceNumbering`, `InvoiceReset`), Control (`Supervisor` with
its restart), the activity log (`ActivityFeed`), the toolbar (`Toolbar`) and the
pages (`PageLoads`, `InvoicesPage`, `ProductDesk`), each with proofs.

What would come next:

1. The bounds that the other fair specifications rest on, as `PrintsAdvance` has
   it for prints: what a transaction of `StockTx` waits for, and that an action of
   `Supervisor` ends.
2. `OpenIffThreshold` inside `PrintFlow`, from `ClientAsDescribed`: it needs the
   assumption on `Threshold` there.
3. A session that expires and is renewed, over both services and the toolbar.
4. The creation dialog on `InvoicesPage`, over `InvoiceNumbering`.
