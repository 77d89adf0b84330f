-------------------------- MODULE SupervisorProofs --------------------------
(* What the supervisor owns, for any number of handlers, processes and       *)
(* deaths of Control.  The invariant says whose doneCh a stop waits for, that *)
(* actions in turn leave at most one goroutine waiting, and that it waits for *)
(* the process the fields tell of.                                           *)
EXTENDS Supervisor, TLAPS

\* The fields cmd and doneCh tell of one process.
OneDoneCh == cmd # NoChild => doneCh = cmd

\* A stop waits for the process that it signals.
StopsOne ==
    \A h \in Handlers : pc[h] \in {"signal", "term", "kill"} =>
        target[h] \in Children /\ awaited[h] = target[h]

\* Only the goroutine of an exited process clears the fields.
ClearedIsExited == \A c \in Children : watcher[c] \in {"cleared", "closed"} => child[c] = "exited"

\* A process without a goroutine is about to be registered.
Unregistered ==
    \A c \in Children : Alive(c) /\ watcher[c] = "none" =>
        \E h \in Handlers : pc[h] = "register" /\ target[h] = c

SpawnedExists ==
    /\ \A c \in Children : child[c] = "none" => watcher[c] = "none"
    /\ \A h \in Handlers : pc[h] = "register" => child[target[h]] # "none"

\* Nobody acts while Control is down, and in turn only one does.
AtMostOneActs ==
    /\ control \in {"down", "freed"} => \A h \in Handlers : Quiet(h)
    /\ ~overlapped => \A h, g \in Handlers : ~Quiet(h) /\ ~Quiet(g) => h = g

\* In turn, a goroutine that waits does so for the process of the fields, and
\* there is none while another process is being created.
WaitsForCmd ==
    ~overlapped =>
        /\ \A c \in Children : watcher[c] = "waiting" => running /\ cmd = c
        /\ \A h \in Handlers : pc[h] \in {"spawn", "register"} => ~running

\* run-all.sh has ended what an earlier Control left, but for the stragglers.
LostIsGone ==
    control # "down" /\ ~straggler => \A c \in Children : watcher[c] = "lost" => ~Alive(c)

StopInv == OneDoneCh /\ StopsOne /\ ClearedIsExited
TurnInv == Unregistered /\ SpawnedExists /\ AtMostOneActs /\ WaitsForCmd /\ LostIsGone
IInv == TypeOK /\ StopInv /\ TurnInv

-----------------------------------------------------------------------------
\* The handler moves on, and nothing else happens.
Move(h) ==
    \/ Check(h) \/ Start(h) \/ SpawnFails(h) \/ WaitHealthy(h) \/ Dial(h)
    \/ StartTimesOut(h) \/ SeesDone(h) \/ StopTimesOut(h)

\* A process changes of itself.
ServiceStep(c) == BootFails(c) \/ ServiceListens(c) \/ ServiceExits(c)

\* Every step keeps the types.
LEMMA TypeStep ==
    ASSUME TypeOK, [Next]_vars
    PROVE  TypeOK'
<1> USE SupervisorAssumption
<1> USE DEF SupervisorAssumption, machine, fields, handler, Goto, Answer, Quiet, Alive, PortOpen
<1>1. ASSUME NEW h \in Handlers, NEW place \in {"check", "stop"}, Request(h, place)
      PROVE  TypeOK'
  BY <1>1 DEF TypeOK, ChildStates, WatcherStates, Places, Request
<1>2. ASSUME NEW h \in Handlers, Move(h)
      PROVE  TypeOK'
  BY <1>2 DEF TypeOK, ChildStates, WatcherStates, Places, Move, Check, Start, SpawnFails, WaitHealthy, Dial, StartTimesOut, SeesDone, StopTimesOut
<1>3. ASSUME NEW h \in Handlers, NEW c \in Children, Spawn(h, c)
      PROVE  TypeOK'
  BY <1>3 DEF TypeOK, ChildStates, WatcherStates, Places, Spawn
<1>4. ASSUME NEW h \in Handlers, Register(h)
      PROVE  TypeOK'
  BY <1>4 DEF TypeOK, ChildStates, WatcherStates, Places, Register
<1>5. ASSUME NEW h \in Handlers, Stop(h)
      PROVE  TypeOK'
  BY <1>5 DEF TypeOK, ChildStates, WatcherStates, Places, Stop
<1>6. ASSUME NEW h \in Handlers, SigTerm(h)
      PROVE  TypeOK'
  BY <1>6 DEF TypeOK, ChildStates, WatcherStates, Places, SigTerm, OnSigTerm
<1>7. ASSUME NEW h \in Handlers, SigKill(h)
      PROVE  TypeOK'
  BY <1>7 DEF TypeOK, ChildStates, WatcherStates, Places, SigKill
<1>8. ASSUME NEW c \in Children, Watch(c)
      PROVE  TypeOK'
  BY <1>8 DEF TypeOK, ChildStates, WatcherStates, Places, Watch, Reap, CloseDone
<1>9. ASSUME NEW c \in Children, ServiceStep(c)
      PROVE  TypeOK'
  BY <1>9 DEF TypeOK, ChildStates, WatcherStates, Places, ServiceStep, BootFails, ServiceListens, ServiceExits
<1>10. ASSUME ControlBoots PROVE TypeOK'
  BY <1>10 DEF TypeOK, ChildStates, WatcherStates, Places, ControlBoots
<1>11. ASSUME ControlServes PROVE TypeOK'
  BY <1>11 DEF TypeOK, ChildStates, WatcherStates, Places, ControlServes
<1>12. ASSUME ControlDies PROVE TypeOK'
  <2>1. deaths' \in 0..MaxDeaths
    BY <1>12 DEF TypeOK, ControlDies
  <2>2. /\ watcher' \in [Children -> WatcherStates]
        /\ pc' \in [Handlers -> Places] /\ \A h \in Handlers : pc'[h] = "idle"
        /\ target' \in [Handlers -> Children \cup {NoChild}]
        /\ awaited' \in [Handlers -> Children \cup {NoChild}]
        /\ answer' \in [Handlers -> {"none", "ok", "error"}]
    BY <1>12 DEF WatcherStates, Places, ControlDies
  <2> QED BY <1>12, <2>1, <2>2 DEF TypeOK, ControlDies
<1>13. ASSUME FreePort PROVE TypeOK'
  BY <1>13 DEF TypeOK, ChildStates, WatcherStates, Places, FreePort
<1>14. ASSUME UNCHANGED vars PROVE TypeOK'
  BY <1>14 DEF TypeOK, ChildStates, WatcherStates, Places, vars
<1> QED BY <1>1, <1>2, <1>3, <1>4, <1>5, <1>6, <1>7, <1>8, <1>9, <1>10, <1>11, <1>12, <1>13, <1>14 DEF Next, Handle, Move, ServiceStep, Restart

\* Every step keeps what a stop relies on.
LEMMA StopStep ==
    ASSUME TypeOK, StopInv, [Next]_vars
    PROVE  StopInv'
<1> USE SupervisorAssumption
<1> USE DEF SupervisorAssumption, machine, fields, handler, Goto, Answer, Quiet, Alive, PortOpen
<1>1. ASSUME NEW h \in Handlers, NEW place \in {"check", "stop"}, Request(h, place)
      PROVE  StopInv'
  <2>1. OneDoneCh'
    BY <1>1 DEF StopInv, OneDoneCh, TypeOK, Request
  <2>2. StopsOne'
    BY <1>1 DEF StopInv, StopsOne, OneDoneCh, TypeOK, Request
  <2>3. ClearedIsExited'
    BY <1>1 DEF StopInv, ClearedIsExited, TypeOK, Request
  <2> QED BY <2>1, <2>2, <2>3 DEF StopInv
<1>2. ASSUME NEW h \in Handlers, Move(h)
      PROVE  StopInv'
  <2>1. OneDoneCh'
    BY <1>2 DEF StopInv, OneDoneCh, TypeOK, Move, Check, Start, SpawnFails, WaitHealthy, Dial, StartTimesOut, SeesDone, StopTimesOut
  <2>2. StopsOne'
    BY <1>2 DEF StopInv, StopsOne, OneDoneCh, TypeOK, Move, Check, Start, SpawnFails, WaitHealthy, Dial, StartTimesOut, SeesDone, StopTimesOut
  <2>3. ClearedIsExited'
    BY <1>2 DEF StopInv, ClearedIsExited, TypeOK, Move, Check, Start, SpawnFails, WaitHealthy, Dial, StartTimesOut, SeesDone, StopTimesOut
  <2> QED BY <2>1, <2>2, <2>3 DEF StopInv
<1>3. ASSUME NEW h \in Handlers, NEW c \in Children, Spawn(h, c)
      PROVE  StopInv'
  <2>1. OneDoneCh'
    BY <1>3 DEF StopInv, OneDoneCh, TypeOK, Spawn
  <2>2. StopsOne'
    BY <1>3 DEF StopInv, StopsOne, OneDoneCh, TypeOK, Spawn
  <2>3. ClearedIsExited'
    BY <1>3 DEF StopInv, ClearedIsExited, TypeOK, Spawn
  <2> QED BY <2>1, <2>2, <2>3 DEF StopInv
<1>4. ASSUME NEW h \in Handlers, Register(h)
      PROVE  StopInv'
  <2>1. OneDoneCh'
    BY <1>4 DEF StopInv, OneDoneCh, TypeOK, Register
  <2>2. StopsOne'
    BY <1>4 DEF StopInv, StopsOne, OneDoneCh, TypeOK, Register
  <2>3. ClearedIsExited'
    BY <1>4 DEF StopInv, ClearedIsExited, TypeOK, Register
  <2> QED BY <2>1, <2>2, <2>3 DEF StopInv
<1>5. ASSUME NEW h \in Handlers, Stop(h)
      PROVE  StopInv'
  <2>1. OneDoneCh'
    BY <1>5 DEF StopInv, OneDoneCh, TypeOK, Stop
  <2>2. StopsOne'
    BY <1>5 DEF StopInv, StopsOne, OneDoneCh, TypeOK, Stop
  <2>3. ClearedIsExited'
    BY <1>5 DEF StopInv, ClearedIsExited, TypeOK, Stop
  <2> QED BY <2>1, <2>2, <2>3 DEF StopInv
<1>6. ASSUME NEW h \in Handlers, SigTerm(h)
      PROVE  StopInv'
  <2>1. OneDoneCh'
    BY <1>6 DEF StopInv, OneDoneCh, TypeOK, SigTerm, OnSigTerm
  <2>2. StopsOne'
    BY <1>6 DEF StopInv, StopsOne, OneDoneCh, TypeOK, SigTerm, OnSigTerm
  <2>3. ClearedIsExited'
    BY <1>6 DEF StopInv, ClearedIsExited, TypeOK, SigTerm, OnSigTerm
  <2> QED BY <2>1, <2>2, <2>3 DEF StopInv
<1>7. ASSUME NEW h \in Handlers, SigKill(h)
      PROVE  StopInv'
  <2>1. OneDoneCh'
    BY <1>7 DEF StopInv, OneDoneCh, TypeOK, SigKill
  <2>2. StopsOne'
    BY <1>7 DEF StopInv, StopsOne, OneDoneCh, TypeOK, SigKill
  <2>3. ClearedIsExited'
    BY <1>7 DEF StopInv, ClearedIsExited, TypeOK, SigKill
  <2> QED BY <2>1, <2>2, <2>3 DEF StopInv
<1>8. ASSUME NEW c \in Children, Watch(c)
      PROVE  StopInv'
  <2>1. OneDoneCh'
    BY <1>8 DEF StopInv, OneDoneCh, TypeOK, Watch, Reap, CloseDone
  <2>2. StopsOne'
    BY <1>8 DEF StopInv, StopsOne, OneDoneCh, TypeOK, Watch, Reap, CloseDone
  <2>3. ClearedIsExited'
    BY <1>8 DEF StopInv, ClearedIsExited, TypeOK, Watch, Reap, CloseDone
  <2> QED BY <2>1, <2>2, <2>3 DEF StopInv
<1>9. ASSUME NEW c \in Children, ServiceStep(c)
      PROVE  StopInv'
  <2>1. OneDoneCh'
    BY <1>9 DEF StopInv, OneDoneCh, TypeOK, ServiceStep, BootFails, ServiceListens, ServiceExits
  <2>2. StopsOne'
    BY <1>9 DEF StopInv, StopsOne, OneDoneCh, TypeOK, ServiceStep, BootFails, ServiceListens, ServiceExits
  <2>3. ClearedIsExited'
    BY <1>9 DEF StopInv, ClearedIsExited, TypeOK, ServiceStep, BootFails, ServiceListens, ServiceExits
  <2> QED BY <2>1, <2>2, <2>3 DEF StopInv
<1>10. ASSUME ControlBoots PROVE StopInv'
  <2>1. OneDoneCh'
    BY <1>10 DEF StopInv, OneDoneCh, TypeOK, ControlBoots
  <2>2. StopsOne'
    BY <1>10 DEF StopInv, StopsOne, OneDoneCh, TypeOK, ControlBoots
  <2>3. ClearedIsExited'
    BY <1>10 DEF StopInv, ClearedIsExited, TypeOK, ControlBoots
  <2> QED BY <2>1, <2>2, <2>3 DEF StopInv
<1>11. ASSUME ControlServes PROVE StopInv'
  <2>1. OneDoneCh'
    BY <1>11 DEF StopInv, OneDoneCh, TypeOK, ControlServes
  <2>2. StopsOne'
    BY <1>11 DEF StopInv, StopsOne, OneDoneCh, TypeOK, ControlServes
  <2>3. ClearedIsExited'
    BY <1>11 DEF StopInv, ClearedIsExited, TypeOK, ControlServes
  <2> QED BY <2>1, <2>2, <2>3 DEF StopInv
<1>12. ASSUME ControlDies PROVE StopInv'
  <2>1. OneDoneCh'
    BY <1>12 DEF StopInv, OneDoneCh, TypeOK, ControlDies
  <2>2. StopsOne'
    BY <1>12 DEF StopInv, StopsOne, OneDoneCh, TypeOK, ControlDies
  <2>3. ClearedIsExited'
    BY <1>12 DEF StopInv, ClearedIsExited, TypeOK, ControlDies
  <2> QED BY <2>1, <2>2, <2>3 DEF StopInv
<1>13. ASSUME FreePort PROVE StopInv'
  <2>1. OneDoneCh'
    BY <1>13 DEF StopInv, OneDoneCh, TypeOK, FreePort
  <2>2. StopsOne'
    BY <1>13 DEF StopInv, StopsOne, OneDoneCh, TypeOK, FreePort
  <2>3. ClearedIsExited'
    BY <1>13 DEF StopInv, ClearedIsExited, TypeOK, FreePort
  <2> QED BY <2>1, <2>2, <2>3 DEF StopInv
<1>14. ASSUME UNCHANGED vars PROVE StopInv'
  <2>1. OneDoneCh'
    BY <1>14 DEF StopInv, OneDoneCh, TypeOK, vars
  <2>2. StopsOne'
    BY <1>14 DEF StopInv, StopsOne, OneDoneCh, TypeOK, vars
  <2>3. ClearedIsExited'
    BY <1>14 DEF StopInv, ClearedIsExited, TypeOK, vars
  <2> QED BY <2>1, <2>2, <2>3 DEF StopInv
<1> QED BY <1>1, <1>2, <1>3, <1>4, <1>5, <1>6, <1>7, <1>8, <1>9, <1>10, <1>11, <1>12, <1>13, <1>14 DEF Next, Handle, Move, ServiceStep, Restart

\* Every step keeps what the ownership relies on.
LEMMA TurnStep ==
    ASSUME TypeOK, StopInv, TurnInv, [Next]_vars
    PROVE  TurnInv'
<1> USE SupervisorAssumption
<1> USE DEF SupervisorAssumption, machine, fields, handler, Goto, Answer, Quiet, Alive, PortOpen
<1>1. ASSUME NEW h \in Handlers, NEW place \in {"check", "stop"}, Request(h, place)
      PROVE  TurnInv'
  <2>1. Unregistered'
    BY <1>1 DEF TurnInv, Unregistered, AtMostOneActs, TypeOK, Request
  <2>2. SpawnedExists'
    BY <1>1 DEF TurnInv, SpawnedExists, TypeOK, Request
  <2>3. AtMostOneActs'
    BY <1>1 DEF TurnInv, AtMostOneActs, TypeOK, Request
  <2>4. WaitsForCmd'
    BY <1>1 DEF TurnInv, WaitsForCmd, AtMostOneActs, TypeOK, Request
  <2>5. LostIsGone'
    BY <1>1 DEF TurnInv, LostIsGone, SpawnedExists, TypeOK, Request
  <2> QED BY <2>1, <2>2, <2>3, <2>4, <2>5 DEF TurnInv
<1>2. ASSUME NEW h \in Handlers, Move(h)
      PROVE  TurnInv'
  <2>1. Unregistered'
    BY <1>2 DEF TurnInv, Unregistered, AtMostOneActs, TypeOK, Move, Check, Start, SpawnFails, WaitHealthy, Dial, StartTimesOut, SeesDone, StopTimesOut
  <2>2. SpawnedExists'
    BY <1>2 DEF TurnInv, SpawnedExists, TypeOK, Move, Check, Start, SpawnFails, WaitHealthy, Dial, StartTimesOut, SeesDone, StopTimesOut
  <2>3. AtMostOneActs'
    BY <1>2 DEF TurnInv, AtMostOneActs, TypeOK, Move, Check, Start, SpawnFails, WaitHealthy, Dial, StartTimesOut, SeesDone, StopTimesOut
  <2>4. WaitsForCmd'
    BY <1>2 DEF TurnInv, WaitsForCmd, AtMostOneActs, TypeOK, Move, Check, Start, SpawnFails, WaitHealthy, Dial, StartTimesOut, SeesDone, StopTimesOut
  <2>5. LostIsGone'
    BY <1>2 DEF TurnInv, LostIsGone, SpawnedExists, TypeOK, Move, Check, Start, SpawnFails, WaitHealthy, Dial, StartTimesOut, SeesDone, StopTimesOut
  <2> QED BY <2>1, <2>2, <2>3, <2>4, <2>5 DEF TurnInv
<1>3. ASSUME NEW h \in Handlers, NEW c \in Children, Spawn(h, c)
      PROVE  TurnInv'
  <2>1. Unregistered'
    BY <1>3 DEF TurnInv, Unregistered, AtMostOneActs, TypeOK, Spawn
  <2>2. SpawnedExists'
    BY <1>3 DEF TurnInv, SpawnedExists, TypeOK, Spawn
  <2>3. AtMostOneActs'
    BY <1>3 DEF TurnInv, AtMostOneActs, TypeOK, Spawn
  <2>4. WaitsForCmd'
    BY <1>3 DEF TurnInv, WaitsForCmd, AtMostOneActs, TypeOK, Spawn
  <2>5. LostIsGone'
    BY <1>3 DEF TurnInv, LostIsGone, SpawnedExists, TypeOK, Spawn
  <2> QED BY <2>1, <2>2, <2>3, <2>4, <2>5 DEF TurnInv
<1>4. ASSUME NEW h \in Handlers, Register(h)
      PROVE  TurnInv'
  <2>1. Unregistered'
    BY <1>4 DEF TurnInv, Unregistered, AtMostOneActs, TypeOK, Register
  <2>2. SpawnedExists'
    BY <1>4 DEF TurnInv, SpawnedExists, TypeOK, Register
  <2>3. AtMostOneActs'
    BY <1>4 DEF TurnInv, AtMostOneActs, TypeOK, Register
  <2>4. WaitsForCmd'
    BY <1>4 DEF TurnInv, WaitsForCmd, AtMostOneActs, TypeOK, Register
  <2>5. LostIsGone'
    BY <1>4 DEF TurnInv, LostIsGone, SpawnedExists, TypeOK, Register
  <2> QED BY <2>1, <2>2, <2>3, <2>4, <2>5 DEF TurnInv
<1>5. ASSUME NEW h \in Handlers, Stop(h)
      PROVE  TurnInv'
  <2>1. Unregistered'
    BY <1>5 DEF TurnInv, Unregistered, AtMostOneActs, TypeOK, Stop
  <2>2. SpawnedExists'
    BY <1>5 DEF TurnInv, SpawnedExists, TypeOK, Stop
  <2>3. AtMostOneActs'
    BY <1>5 DEF TurnInv, AtMostOneActs, TypeOK, Stop
  <2>4. WaitsForCmd'
    BY <1>5 DEF TurnInv, WaitsForCmd, AtMostOneActs, TypeOK, Stop
  <2>5. LostIsGone'
    BY <1>5 DEF TurnInv, LostIsGone, SpawnedExists, TypeOK, Stop
  <2> QED BY <2>1, <2>2, <2>3, <2>4, <2>5 DEF TurnInv
<1>6. ASSUME NEW h \in Handlers, SigTerm(h)
      PROVE  TurnInv'
  <2>1. Unregistered'
    BY <1>6 DEF TurnInv, Unregistered, AtMostOneActs, TypeOK, SigTerm, OnSigTerm
  <2>2. SpawnedExists'
    BY <1>6 DEF TurnInv, SpawnedExists, TypeOK, SigTerm, OnSigTerm
  <2>3. AtMostOneActs'
    BY <1>6 DEF TurnInv, AtMostOneActs, TypeOK, SigTerm, OnSigTerm
  <2>4. WaitsForCmd'
    BY <1>6 DEF TurnInv, WaitsForCmd, AtMostOneActs, TypeOK, SigTerm, OnSigTerm
  <2>5. LostIsGone'
    BY <1>6 DEF TurnInv, LostIsGone, SpawnedExists, TypeOK, SigTerm, OnSigTerm
  <2> QED BY <2>1, <2>2, <2>3, <2>4, <2>5 DEF TurnInv
<1>7. ASSUME NEW h \in Handlers, SigKill(h)
      PROVE  TurnInv'
  <2>1. Unregistered'
    BY <1>7 DEF TurnInv, Unregistered, AtMostOneActs, TypeOK, SigKill
  <2>2. SpawnedExists'
    BY <1>7 DEF TurnInv, SpawnedExists, TypeOK, SigKill
  <2>3. AtMostOneActs'
    BY <1>7 DEF TurnInv, AtMostOneActs, TypeOK, SigKill
  <2>4. WaitsForCmd'
    BY <1>7 DEF TurnInv, WaitsForCmd, AtMostOneActs, TypeOK, SigKill
  <2>5. LostIsGone'
    BY <1>7 DEF TurnInv, LostIsGone, SpawnedExists, TypeOK, SigKill
  <2> QED BY <2>1, <2>2, <2>3, <2>4, <2>5 DEF TurnInv
<1>8. ASSUME NEW c \in Children, Watch(c)
      PROVE  TurnInv'
  <2>1. Unregistered'
    BY <1>8 DEF TurnInv, Unregistered, AtMostOneActs, TypeOK, Watch, Reap, CloseDone
  <2>2. SpawnedExists'
    BY <1>8 DEF TurnInv, SpawnedExists, TypeOK, Watch, Reap, CloseDone
  <2>3. AtMostOneActs'
    BY <1>8 DEF TurnInv, AtMostOneActs, TypeOK, Watch, Reap, CloseDone
  <2>4. WaitsForCmd'
    BY <1>8 DEF TurnInv, WaitsForCmd, AtMostOneActs, TypeOK, Watch, Reap, CloseDone
  <2>5. LostIsGone'
    BY <1>8 DEF TurnInv, LostIsGone, SpawnedExists, TypeOK, Watch, Reap, CloseDone
  <2> QED BY <2>1, <2>2, <2>3, <2>4, <2>5 DEF TurnInv
<1>9. ASSUME NEW c \in Children, ServiceStep(c)
      PROVE  TurnInv'
  <2>1. Unregistered'
    BY <1>9 DEF TurnInv, Unregistered, AtMostOneActs, TypeOK, ServiceStep, BootFails, ServiceListens, ServiceExits
  <2>2. SpawnedExists'
    BY <1>9 DEF TurnInv, SpawnedExists, TypeOK, ServiceStep, BootFails, ServiceListens, ServiceExits
  <2>3. AtMostOneActs'
    BY <1>9 DEF TurnInv, AtMostOneActs, TypeOK, ServiceStep, BootFails, ServiceListens, ServiceExits
  <2>4. WaitsForCmd'
    BY <1>9 DEF TurnInv, WaitsForCmd, AtMostOneActs, TypeOK, ServiceStep, BootFails, ServiceListens, ServiceExits
  <2>5. LostIsGone'
    BY <1>9 DEF TurnInv, LostIsGone, SpawnedExists, TypeOK, ServiceStep, BootFails, ServiceListens, ServiceExits
  <2> QED BY <2>1, <2>2, <2>3, <2>4, <2>5 DEF TurnInv
<1>10. ASSUME ControlBoots PROVE TurnInv'
  <2>1. Unregistered'
    BY <1>10 DEF TurnInv, Unregistered, AtMostOneActs, TypeOK, ControlBoots
  <2>2. SpawnedExists'
    BY <1>10 DEF TurnInv, SpawnedExists, TypeOK, ControlBoots
  <2>3. AtMostOneActs'
    BY <1>10 DEF TurnInv, AtMostOneActs, TypeOK, ControlBoots
  <2>4. WaitsForCmd'
    BY <1>10 DEF TurnInv, WaitsForCmd, AtMostOneActs, TypeOK, ControlBoots
  <2>5. LostIsGone'
    BY <1>10 DEF TurnInv, LostIsGone, SpawnedExists, TypeOK, ControlBoots
  <2> QED BY <2>1, <2>2, <2>3, <2>4, <2>5 DEF TurnInv
<1>11. ASSUME ControlServes PROVE TurnInv'
  <2>1. Unregistered'
    BY <1>11 DEF TurnInv, Unregistered, AtMostOneActs, TypeOK, ControlServes
  <2>2. SpawnedExists'
    BY <1>11 DEF TurnInv, SpawnedExists, TypeOK, ControlServes
  <2>3. AtMostOneActs'
    BY <1>11 DEF TurnInv, AtMostOneActs, TypeOK, ControlServes
  <2>4. WaitsForCmd'
    BY <1>11 DEF TurnInv, WaitsForCmd, AtMostOneActs, TypeOK, ControlServes
  <2>5. LostIsGone'
    BY <1>11 DEF TurnInv, LostIsGone, SpawnedExists, TypeOK, ControlServes
  <2> QED BY <2>1, <2>2, <2>3, <2>4, <2>5 DEF TurnInv
<1>12. ASSUME ControlDies PROVE TurnInv'
  <2>1. Unregistered'
    BY <1>12 DEF TurnInv, Unregistered, AtMostOneActs, TypeOK, ControlDies
  <2>2. SpawnedExists'
    BY <1>12 DEF TurnInv, SpawnedExists, TypeOK, ControlDies
  <2>3. AtMostOneActs'
    BY <1>12 DEF TurnInv, AtMostOneActs, TypeOK, ControlDies
  <2>4. WaitsForCmd'
    BY <1>12 DEF TurnInv, WaitsForCmd, AtMostOneActs, TypeOK, ControlDies
  <2>5. LostIsGone'
    BY <1>12 DEF TurnInv, LostIsGone, SpawnedExists, TypeOK, ControlDies
  <2> QED BY <2>1, <2>2, <2>3, <2>4, <2>5 DEF TurnInv
<1>13. ASSUME FreePort PROVE TurnInv'
  <2>1. Unregistered'
    BY <1>13 DEF TurnInv, Unregistered, AtMostOneActs, TypeOK, FreePort
  <2>2. SpawnedExists'
    BY <1>13 DEF TurnInv, SpawnedExists, TypeOK, FreePort
  <2>3. AtMostOneActs'
    BY <1>13 DEF TurnInv, AtMostOneActs, TypeOK, FreePort
  <2>4. WaitsForCmd'
    BY <1>13 DEF TurnInv, WaitsForCmd, AtMostOneActs, TypeOK, FreePort
  <2>5. LostIsGone'
    BY <1>13 DEF TurnInv, LostIsGone, SpawnedExists, TypeOK, FreePort
  <2> QED BY <2>1, <2>2, <2>3, <2>4, <2>5 DEF TurnInv
<1>14. ASSUME UNCHANGED vars PROVE TurnInv'
  <2>1. Unregistered'
    BY <1>14 DEF TurnInv, Unregistered, AtMostOneActs, TypeOK, vars
  <2>2. SpawnedExists'
    BY <1>14 DEF TurnInv, SpawnedExists, TypeOK, vars
  <2>3. AtMostOneActs'
    BY <1>14 DEF TurnInv, AtMostOneActs, TypeOK, vars
  <2>4. WaitsForCmd'
    BY <1>14 DEF TurnInv, WaitsForCmd, AtMostOneActs, TypeOK, vars
  <2>5. LostIsGone'
    BY <1>14 DEF TurnInv, LostIsGone, SpawnedExists, TypeOK, vars
  <2> QED BY <2>1, <2>2, <2>3, <2>4, <2>5 DEF TurnInv
<1> QED BY <1>1, <1>2, <1>3, <1>4, <1>5, <1>6, <1>7, <1>8, <1>9, <1>10, <1>11, <1>12, <1>13, <1>14 DEF Next, Handle, Move, ServiceStep, Restart

-----------------------------------------------------------------------------
\* Nothing runs yet.
LEMMA InitInv == Init => IInv
<1> SUFFICES ASSUME Init PROVE IInv
  OBVIOUS
<1> USE SupervisorAssumption DEF SupervisorAssumption, Init, Quiet, Alive
<1>1. TypeOK
  <2>1. deaths \in 0..MaxDeaths
    OBVIOUS
  <2>2. /\ child \in [Children -> ChildStates] /\ watcher \in [Children -> WatcherStates]
        /\ pc \in [Handlers -> Places] /\ \A h \in Handlers : pc[h] = "idle"
        /\ target \in [Handlers -> Children \cup {NoChild}]
        /\ awaited \in [Handlers -> Children \cup {NoChild}]
        /\ answer \in [Handlers -> {"none", "ok", "error"}]
    BY DEF ChildStates, WatcherStates, Places
  <2> QED BY <2>1, <2>2 DEF TypeOK
<1>2. StopInv
  BY DEF StopInv, OneDoneCh, StopsOne, ClearedIsExited
<1>3. TurnInv
  BY DEF TurnInv, Unregistered, SpawnedExists, AtMostOneActs, WaitsForCmd, LostIsGone
<1> QED BY <1>1, <1>2, <1>3 DEF IInv

\* The fields of a service, its processes and its goroutines keep their types.
THEOREM TypeCorrect == Spec => []TypeOK
<1>1. Init => TypeOK
  BY InitInv DEF IInv
<1>2. TypeOK /\ [Next]_vars => TypeOK'
  BY TypeStep
<1> QED BY <1>1, <1>2, PTL DEF Spec

\* The inductive invariant holds of every reachable state.
THEOREM Invariance == Spec => []IInv
<1>1. IInv /\ [Next]_vars => IInv'
  BY TypeStep, StopStep, TurnStep DEF IInv
<1> QED BY <1>1, InitInv, PTL DEF Spec

\* In turn, a live process that has been registered is the one of the fields:
\* its goroutine waits, for it has not exited and no earlier Control began it.
LEMMA OwnedFromInv == IInv => OwnedInTurn
<1> SUFFICES ASSUME IInv, ~overlapped, InControl,
                    NEW c \in Children, Alive(c), watcher[c] # "none"
             PROVE  running /\ cmd = c
  BY DEF OwnedInTurn, Owned
<1>1. watcher[c] \notin {"cleared", "closed"}
  BY DEF IInv, StopInv, ClearedIsExited, Alive
<1>2. watcher[c] # "lost"
  BY DEF IInv, TurnInv, LostIsGone, InControl
<1>3. watcher[c] = "waiting"
  BY <1>1, <1>2 DEF IInv, TypeOK, WatcherStates
<1> QED BY <1>3 DEF IInv, TurnInv, WaitsForCmd

\* Actions in turn keep the supervisor the owner of every live process, through
\* timeouts and restarts of Control, for any number of processes and handlers.
THEOREM Ownership == Spec => []OwnedInTurn
<1> QED BY Invariance, OwnedFromInv, PTL

\* In turn, two live processes are the same: either is the one of the fields,
\* or the one that the only acting handler is about to register.
LEMMA OneFromInv == IInv => OneProcessInTurn
<1> SUFFICES ASSUME IInv, ~overlapped, InControl,
                    NEW c \in Children, NEW d \in Children, Alive(c), Alive(d)
             PROVE  c = d
  BY DEF OneProcessInTurn
<1>1. ASSUME NEW b \in Children, Alive(b), watcher[b] # "none"
      PROVE  running /\ cmd = b
  BY <1>1, OwnedFromInv DEF OwnedInTurn, Owned
<1>2. ASSUME NEW b \in Children, Alive(b), watcher[b] = "none"
      PROVE  \E h \in Handlers : pc[h] = "register" /\ target[h] = b /\ ~running
  BY <1>2 DEF IInv, TurnInv, Unregistered, WaitsForCmd
<1>3. CASE running
  BY <1>1, <1>2, <1>3
<1>4. CASE ~running
  <2>1. PICK h \in Handlers : pc[h] = "register" /\ target[h] = c
    BY <1>1, <1>2, <1>4
  <2>2. PICK g \in Handlers : pc[g] = "register" /\ target[g] = d
    BY <1>1, <1>2, <1>4
  <2>3. h = g
    BY <2>1, <2>2 DEF IInv, TurnInv, AtMostOneActs, Quiet
  <2> QED BY <2>1, <2>2, <2>3
<1> QED BY <1>3, <1>4

\* Actions in turn never have two processes of the service alive.
THEOREM OneProcess == Spec => []OneProcessInTurn
<1> QED BY Invariance, OneFromInv, PTL

\* Only the closed channel of the process that was signalled makes a stop answer
\* "ok", and only its exit closes the channel; this needs no turns.
THEOREM StopSeesExit == Spec => StoppedIsGone
<1> DEFINE Told(h) == answer[h] = "none" /\ answer'[h] = "ok" /\ pc[h] \in {"term", "kill"}
           Gone(h) == child[target[h]] = "exited" /\ watcher[target[h]] = "closed"
<1>1. ASSUME IInv, Next, NEW h \in Handlers, Told(h)
      PROVE  Gone(h)
  <2>1. SeesDone(h)
    <3> USE <1>1 DEF IInv, TypeOK, Goto, Answer, Quiet, handler
    <3>1. ASSUME NEW g \in Handlers, NEW place \in {"check", "stop"} PROVE ~Request(g, place)
      BY DEF Request
    <3>2. ASSUME NEW g \in Handlers, Handle(g) PROVE SeesDone(h)
      BY <3>2 DEF Handle, Check, Start, SpawnFails, Spawn, Register, WaitHealthy, Dial,
                  StartTimesOut, Stop, SigTerm, SigKill, SeesDone, StopTimesOut
    <3>3. ASSUME NEW c \in Children PROVE ~Watch(c) /\ ~ServiceStep(c)
      BY DEF Watch, Reap, CloseDone, ServiceStep, BootFails, ServiceListens, ServiceExits
    <3>4. ~Restart
      BY DEF Restart, ControlBoots, ControlServes, ControlDies, FreePort
    <3> QED BY <3>1, <3>2, <3>3, <3>4 DEF Next, ServiceStep
  <2>2. target[h] \in Children /\ awaited[h] = target[h]
    BY <1>1 DEF IInv, StopInv, StopsOne
  <2> QED BY <1>1, <2>1, <2>2 DEF SeesDone, IInv, StopInv, ClearedIsExited
<1>2. IInv /\ [Next]_vars => [\A h \in Handlers : Told(h) => Gone(h)]_vars
  BY <1>1
<1> QED BY <1>2, Invariance, PTL DEF Spec, StoppedIsGone
=============================================================================
