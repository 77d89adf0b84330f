----------------------------- MODULE Supervisor -----------------------------
(* The control server and one of the services it starts and stops.  Handlers *)
(* of POST .../start and .../stop interleave between the critical sections   *)
(* of the service's mutex; a goroutine per child waits for its exit; the     *)
(* children boot, take the port, drain and exit on their own.  When Control  *)
(* dies its children live on, each in a process group of its own, until      *)
(* run-all.sh ends what listens on the port and starts Control again.        *)
EXTENDS Integers, FiniteSets

CONSTANTS Handlers,     \* goroutines that serve an action
          Children,     \* processes that cmd.Start may create
          NoChild,
          Main,         \* the goroutine of main(), which serves later
          MaxDeaths     \* bound: deaths of Control

ASSUME SupervisorAssumption ==
    NoChild \notin Children /\ Main \in Handlers /\ MaxDeaths \in Nat

VARIABLES control,      \* "down", "freed" (the port), "booting" or "serving"
          deaths,       \* deaths of Control so far
          running, cmd, doneCh,   \* fields of service; doneCh as its child
          child,      \* [Children -> ChildStates]: the processes
          watcher,    \* [Children -> WatcherStates]: the goroutines that Wait
          pc,         \* [Handlers -> Places]
          target,     \* [Handlers -> Children \cup {NoChild}]: whose pid it holds
          awaited,    \* [Handlers -> Children \cup {NoChild}]: whose doneCh it holds
          answer,     \* [Handlers -> {"none", "ok", "error"}]
          overlapped, \* history: has this Control executed two actions at once?
          straggler   \* history: did a process survive the end of its Control?

fields == <<running, cmd, doneCh>>
handler == <<pc, target, awaited, answer, overlapped>>
machine == <<control, deaths, straggler>>
vars == <<machine, fields, child, watcher, handler>>

ChildStates == {"none", "booting", "listening", "draining", "exited"}
WatcherStates == {"none", "waiting", "cleared", "closed", "lost"}
Places == {"idle", "check", "start", "spawn", "register", "waitHealthy", "dial",
           "stop", "signal", "term", "kill", "done"}

Alive(c) == child[c] \in {"booting", "listening", "draining"}
PortOpen == \E c \in Children : child[c] = "listening"
Quiet(h) == pc[h] \in {"idle", "done"}

Init ==
    /\ control = "freed" /\ deaths = 0 /\ straggler = FALSE
    /\ running = FALSE /\ cmd = NoChild /\ doneCh = NoChild
    /\ child = [c \in Children |-> "none"]
    /\ watcher = [c \in Children |-> "none"]
    /\ pc = [h \in Handlers |-> "idle"]
    /\ target = [h \in Handlers |-> NoChild]
    /\ awaited = [h \in Handlers |-> NoChild]
    /\ answer = [h \in Handlers |-> "none"]
    /\ overlapped = FALSE

-----------------------------------------------------------------------------
Goto(h, place) ==
    /\ pc' = [pc EXCEPT ![h] = place]
    /\ UNCHANGED <<target, awaited, answer, overlapped>>

Answer(h, a) ==
    /\ pc' = [pc EXCEPT ![h] = "done"]
    /\ target' = [target EXCEPT ![h] = NoChild]
    /\ awaited' = [awaited EXCEPT ![h] = NoChild]
    /\ answer' = [answer EXCEPT ![h] = a]
    /\ UNCHANGED overlapped

\* One toolbar posts its actions in turn: busy disables its buttons until the
\* answer is there.  A second tab or user may overlap them.
Request(h, place) ==
    /\ control = "serving" /\ Quiet(h)
    /\ overlapped' = (overlapped \/ \E other \in Handlers : ~Quiet(other))
    /\ pc' = [pc EXCEPT ![h] = place]
    /\ answer' = [answer EXCEPT ![h] = "none"]
    /\ UNCHANGED <<machine, fields, child, watcher, target, awaited>>

\* isRunning() of actionHandler; start() checks once more under its own lock.
Check(h) ==
    /\ pc[h] = "check"
    /\ IF running THEN Answer(h, "ok") ELSE Goto(h, "start")
    /\ UNCHANGED <<machine, fields, child, watcher>>

Start(h) ==
    /\ pc[h] = "start"
    /\ IF running THEN Answer(h, "ok") ELSE Goto(h, "spawn")
    /\ UNCHANGED <<machine, fields, child, watcher>>

\* No binary, no log file, or no process.
SpawnFails(h) ==
    /\ pc[h] = "spawn"
    /\ Answer(h, "error")
    /\ UNCHANGED <<machine, fields, child, watcher>>

\* A new process, and not one that has been; which name it gets says nothing.
Spawn(h, c) ==
    /\ pc[h] = "spawn" /\ child[c] = "none"
    /\ c = CHOOSE d \in Children : child[d] = "none"
    /\ child' = [child EXCEPT ![c] = "booting"]
    /\ pc' = [pc EXCEPT ![h] = "register"]
    /\ target' = [target EXCEPT ![h] = c]
    /\ UNCHANGED <<machine, fields, watcher, awaited, answer, overlapped>>

\* Mutant: the flag is left for waitHealthy to set.
RegisterNotRunning(h) ==
    /\ pc[h] = "register"
    /\ cmd' = target[h] /\ doneCh' = target[h] /\ UNCHANGED running
    /\ watcher' = [watcher EXCEPT ![target[h]] = "waiting"]
    /\ Goto(h, "waitHealthy")
    /\ UNCHANGED <<machine, child>>

\* The second critical section of start(), and the goroutine it launches.
Register(h) ==
    /\ pc[h] = "register"
    /\ running' = TRUE /\ cmd' = target[h] /\ doneCh' = target[h]
    /\ watcher' = [watcher EXCEPT ![target[h]] = "waiting"]
    /\ Goto(h, "waitHealthy")
    /\ UNCHANGED <<machine, child>>

\* One turn of the loop of waitHealthy(): isRunning(), then the dial.
WaitHealthy(h) ==
    /\ pc[h] = "waitHealthy"
    /\ IF running THEN Goto(h, "dial") ELSE Answer(h, "error")
    /\ UNCHANGED <<machine, fields, child, watcher>>

Dial(h) ==
    /\ pc[h] = "dial"
    /\ IF PortOpen THEN Answer(h, "ok") ELSE Goto(h, "waitHealthy")
    /\ UNCHANGED <<machine, fields, child, watcher>>

StartTimesOut(h) ==
    /\ pc[h] = "waitHealthy"
    /\ Answer(h, "error")
    /\ UNCHANGED <<machine, fields, child, watcher>>

-----------------------------------------------------------------------------
\* Mutant: stop() without its check.
StopUnchecked(h) ==
    /\ pc[h] = "stop"
    /\ pc' = [pc EXCEPT ![h] = "signal"]
    /\ target' = [target EXCEPT ![h] = cmd]
    /\ awaited' = [awaited EXCEPT ![h] = doneCh]
    /\ UNCHANGED <<answer, overlapped, machine, fields, child, watcher>>

\* stop(): what its critical section reads is used after the unlock.
Stop(h) ==
    /\ pc[h] = "stop"
    /\ IF running /\ cmd # NoChild
       THEN /\ pc' = [pc EXCEPT ![h] = "signal"]
            /\ target' = [target EXCEPT ![h] = cmd]
            /\ awaited' = [awaited EXCEPT ![h] = doneCh]
            /\ UNCHANGED <<answer, overlapped>>
       ELSE Answer(h, "ok")
    /\ UNCHANGED <<machine, fields, child, watcher>>

\* SIGTERM ends a process that has not asked for the signal yet, which it does
\* after it began to listen, and makes the others shut down.
OnSigTerm(c) ==
    CASE child[c] = "booting" -> {"exited"}
      [] child[c] = "listening" -> {"draining", "exited"}
      [] OTHER -> {child[c]}

SigTerm(h) ==
    /\ pc[h] = "signal"
    /\ \E s \in OnSigTerm(target[h]) : child' = [child EXCEPT ![target[h]] = s]
    /\ Goto(h, "term")
    /\ UNCHANGED <<machine, fields, watcher>>

\* Mutant: the second wait is left out.
SigKillAnswering(h) ==
    /\ pc[h] = "term"
    /\ child' = [child EXCEPT ![target[h]] = "exited"]
    /\ Answer(h, "ok")
    /\ UNCHANGED <<machine, fields, watcher>>

\* Mutant: the kill is kept for a process that has not begun to shut down.
SigKillUnlessDraining(h) ==
    /\ pc[h] = "term" /\ child[target[h]] # "draining"
    /\ child' = [child EXCEPT ![target[h]] = "exited"]
    /\ Goto(h, "kill")
    /\ UNCHANGED <<machine, fields, watcher>>

\* stopTimeout passes.
SigKill(h) ==
    /\ pc[h] = "term"
    /\ child' = [child EXCEPT ![target[h]] = "exited"]
    /\ Goto(h, "kill")
    /\ UNCHANGED <<machine, fields, watcher>>

\* <-doneCh, in the first select or in the second.
SeesDone(h) ==
    /\ pc[h] \in {"term", "kill"}
    /\ watcher[awaited[h]] = "closed"
    /\ Answer(h, "ok")
    /\ UNCHANGED <<machine, fields, child, watcher>>

StopTimesOut(h) ==
    /\ pc[h] = "kill"
    /\ Answer(h, "error")
    /\ UNCHANGED <<machine, fields, child, watcher>>

-----------------------------------------------------------------------------
\* Mutant: the channel is closed and the fields stay.
ReapKeepingFields(c) ==
    /\ watcher[c] = "waiting" /\ child[c] = "exited"
    /\ watcher' = [watcher EXCEPT ![c] = "cleared"]
    /\ UNCHANGED <<machine, fields, child, handler>>

\* The goroutine of child c: Wait returns, the fields are cleared, whichever
\* child they tell of by now, and the channel of c is closed.
Reap(c) ==
    /\ watcher[c] = "waiting" /\ child[c] = "exited"
    /\ watcher' = [watcher EXCEPT ![c] = "cleared"]
    /\ running' = FALSE /\ cmd' = NoChild
    /\ UNCHANGED <<machine, doneCh, child, handler>>

CloseDone(c) ==
    /\ watcher[c] = "cleared"
    /\ watcher' = [watcher EXCEPT ![c] = "closed"]
    /\ UNCHANGED <<machine, fields, child, handler>>

\* The service cannot connect to its database, or a migration fails.
BootFails(c) ==
    /\ child[c] = "booting"
    /\ child' = [child EXCEPT ![c] = "exited"]
    /\ UNCHANGED <<machine, fields, watcher, handler>>

\* main() of the service takes the port, or ends where it is taken.
ServiceListens(c) ==
    /\ child[c] = "booting"
    /\ child' = [child EXCEPT ![c] = IF PortOpen THEN "exited" ELSE "listening"]
    /\ UNCHANGED <<machine, fields, watcher, handler>>

\* Its shutdown ends, or it crashes.
ServiceExits(c) ==
    /\ child[c] \in {"listening", "draining"}
    /\ child' = [child EXCEPT ![c] = "exited"]
    /\ UNCHANGED <<machine, fields, watcher, handler>>

-----------------------------------------------------------------------------
\* main(): start() before anything is served, whatever becomes of it.
ControlBoots ==
    /\ control = "freed"
    /\ control' = "booting"
    /\ pc' = [pc EXCEPT ![Main] = "start"]
    /\ UNCHANGED <<deaths, straggler, fields, child, watcher>>
    /\ UNCHANGED <<target, awaited, answer, overlapped>>

ControlServes ==
    /\ control = "booting" /\ Quiet(Main)
    /\ control' = "serving"
    /\ UNCHANGED <<deaths, straggler, fields, child, watcher, handler>>

\* What Control knew is gone, its children are not.
ControlDies ==
    /\ control \in {"booting", "serving"} /\ deaths < MaxDeaths
    /\ control' = "down" /\ deaths' = deaths + 1
    /\ running' = FALSE /\ cmd' = NoChild /\ doneCh' = NoChild
    /\ watcher' = [c \in Children |-> IF child[c] = "none" THEN "none" ELSE "lost"]
    /\ pc' = [h \in Handlers |-> "idle"]
    /\ target' = [h \in Handlers |-> NoChild]
    /\ awaited' = [h \in Handlers |-> NoChild]
    /\ answer' = [h \in Handlers |-> "none"]
    /\ overlapped' = FALSE
    /\ UNCHANGED <<child, straggler>>

\* Mutant: only Control is stopped before it is started again.
FreeNothing ==
    /\ control = "down"
    /\ control' = "freed"
    /\ UNCHANGED <<deaths, straggler, fields, child, watcher, handler>>

\* run-all.sh: fuser -k kills what listens on the port; a process that does not
\* listen yet, or not any more, stays.
FreePort ==
    /\ control = "down"
    /\ control' = "freed"
    /\ child' = [c \in Children |-> IF child[c] = "listening" THEN "exited" ELSE child[c]]
    /\ straggler' = (straggler \/ \E c \in Children : child[c] \in {"booting", "draining"})
    /\ UNCHANGED <<deaths, fields, watcher, handler>>

Restart == ControlBoots \/ ControlServes \/ ControlDies \/ FreePort

-----------------------------------------------------------------------------
Handle(h) ==
    \/ Check(h) \/ Start(h) \/ SpawnFails(h) \/ \E c \in Children : Spawn(h, c)
    \/ Register(h) \/ WaitHealthy(h) \/ Dial(h) \/ StartTimesOut(h)
    \/ Stop(h) \/ SigTerm(h) \/ SigKill(h) \/ SeesDone(h) \/ StopTimesOut(h)

Watch(c) == Reap(c) \/ CloseDone(c)

Next ==
    \/ \E h \in Handlers : (\E place \in {"check", "stop"} : Request(h, place)) \/ Handle(h)
    \/ \E c \in Children : Watch(c) \/ BootFails(c) \/ ServiceListens(c) \/ ServiceExits(c)
    \/ Restart

Spec == Init /\ [][Next]_vars

\* The Go scheduler runs handlers and watchers, and startTimeout passes however
\* often the loop turns; nothing is assumed of the services.
FairSpec ==
    /\ Spec
    /\ \A h \in Handlers : WF_vars(Handle(h)) /\ SF_vars(StartTimesOut(h))
    /\ \A c \in Children : WF_vars(Watch(c))

-----------------------------------------------------------------------------
TypeOK ==
    /\ control \in {"down", "freed", "booting", "serving"}
    /\ deaths \in 0..MaxDeaths /\ straggler \in BOOLEAN
    /\ running \in BOOLEAN
    /\ cmd \in Children \cup {NoChild} /\ doneCh \in Children \cup {NoChild}
    /\ child \in [Children -> ChildStates]
    /\ watcher \in [Children -> WatcherStates]
    /\ pc \in [Handlers -> Places]
    /\ target \in [Handlers -> Children \cup {NoChild}]
    /\ awaited \in [Handlers -> Children \cup {NoChild}]
    /\ answer \in [Handlers -> {"none", "ok", "error"}]
    /\ overlapped \in BOOLEAN
    /\ \A h \in Handlers : pc[h] \in {"register", "signal", "term"} => target[h] # NoChild

\* "o unico dono dos processos": a process that is alive and registered is the
\* one that status, start and stop speak of, so that it can be stopped.  Asked of
\* a Control that no process of an earlier one has outlived.
InControl == control \in {"booting", "serving"} /\ ~straggler
Owned ==
    InControl => \A c \in Children : Alive(c) /\ watcher[c] # "none" => running /\ cmd = c

\* Actions posted in turn keep the supervisor the owner of every live process,
\* however slow or broken the service is, whatever its timeouts answered and
\* however often Control itself died and was started again.
OwnedInTurn == ~overlapped => Owned

\* In the same conditions there are never two processes of the service alive,
\* also when a start was answered with a timeout and asked for again.
OneProcessInTurn ==
    ~overlapped /\ InControl => \A c, d \in Children : Alive(c) /\ Alive(d) => c = d

\* A stop that signalled a process and was answered without error has seen it
\* exit, also while others start and stop it.
StoppedIsGone ==
    [][\A h \in Handlers : answer[h] = "none" /\ answer'[h] = "ok" /\ pc[h] \in {"term", "kill"}
          => child[target[h]] = "exited" /\ watcher[target[h]] = "closed"]_vars

\* A process that has exited is forgotten, so that start works again.
ExitNoticed == \A c \in Children : child[c] = "exited" ~> cmd # c

\* Every action is answered, also when the service hangs in its boot or shutdown,
\* and start() comes back to main().
EveryActionAnswered == \A h \in Handlers : ~Quiet(h) ~> Quiet(h)
=============================================================================
