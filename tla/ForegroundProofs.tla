-------------------------- MODULE ForegroundProofs --------------------------
(***************************************************************************)
(* Proofs about Foreground, for every number of pids, queue capacity,      *)
(* configuration and choice of what happens.                               *)
(***************************************************************************)
EXTENDS Foreground, EventLoopProofs

-----------------------------------------------------------------------------
(* Every step is a step of the event loop. *)

LEMMA SystemIsPid == System \in Pid /\ Pid \subseteq Nat
  BY PidMaxAssumption DEF System

LEMMA FgStepIsStep == FgTypeOK /\ [FgNext]_fgVars => [Next]_vars
  <1> SUFFICES ASSUME FgTypeOK, [FgNext]_fgVars PROVE [Next]_vars
    OBVIOUS
  <1>1. CASE UNCHANGED fgVars
    BY <1>1 DEF fgVars
  <1>2. ASSUME NEW c \in Pid, NEW p \in Pid, ThreadCreate(c, p) \/ ProcessFork(c, p)
        PROVE  Kernel
    <2>1. parent[group[p]] \in Pid
      BY DEF FgTypeOK
    <2>2. \E x \in Pid : ForkEvent(c, x)
      BY <1>2, <2>1 DEF ThreadCreate, ProcessFork
    <2>q. QED
      BY <2>2 DEF Kernel
  <1>3. ASSUME NEW p \in Pid, TaskExit(p)
        PROVE  Kernel
    BY <1>3 DEF TaskExit, Kernel
  <1>4. CASE ScreenSwitch
    <2>1. \E on \in {0, 1} : ScreenEvent(on)
      BY <1>4 DEF ScreenSwitch
    <2>q. QED
      BY <2>1 DEF Kernel, Next
  <1>5. CASE PanelTouch \/ OtherKernel
    <2>1. UserTouch \/ Timer0Fire \/ Timer1Fire \/ IgnoredEvent \/ Sigint \/ RecvShutdown
      BY <1>5 DEF PanelTouch, OtherKernel
    <2>q. QED
      BY <2>1 DEF Kernel, Next
  <1>6. CASE FgDaemon
    <2>1. CASE ProduceFork \/ ProduceExit \/ ProduceTick0 \/ ProduceScreenOff \/ ProduceMid
      <3>1. ProduceProc \/ ProduceSample \/ ProduceBackToMid
        BY <2>1 DEF ProduceFork, ProduceExit, ProduceTick0, ProduceScreenOff, ProduceMid
      <3>q. QED
        BY <3>1 DEF Daemon, Next
    <2>2. CASE ProduceBoost \/ ActPrioritize \/ ActExit \/ ActTick0 \/ GiveUp
      <3>1. ProduceTouch \/ ActOther \/ ActSample \/ HandlerExit
        BY <2>2 DEF ProduceBoost, ActPrioritize, ActExit, ActTick0, GiveUp
      <3>q. QED
        BY <3>1 DEF Daemon, Next
    <2>3. CASE OtherDaemon
      BY <2>3 DEF OtherDaemon, Daemon, Next
    <2>q. QED
      BY <1>6, <2>1, <2>2, <2>3 DEF FgDaemon
  <1>7. CASE FgTerminated
    BY <1>7 DEF FgTerminated, Terminated, fgVars
  <1>q. QED
    BY <1>1, <1>2, <1>3, <1>4, <1>5, <1>6, <1>7 DEF FgNext, FgKernel, Next

-----------------------------------------------------------------------------
(* Type correctness. *)

Importances == [Pid -> UNKNOWN..HIGH]

LEMMA AssignTypes ==
  ASSUME NEW imp \in Importances, NEW S, NEW v \in UNKNOWN..HIGH
  PROVE  Assign(imp, S, v) \in Importances
  BY DEF Importances, Assign

LEMMA NiceOfTypes == \A v \in LOW..HIGH : NiceOf(v) \in Nice
  BY DEF NiceOf, Nice, LOW, MID, HIGH

LEMMA PrioritizeTypes ==
  ASSUME NEW nc \in [Pid -> Nice], NEW imp, NEW S, \A p \in S \cap Pid : imp[p] \in LOW..HIGH
  PROVE  Prioritize(nc, imp, S) \in [Pid -> Nice]
  BY NiceOfTypes DEF Prioritize

LEMMA AgeTypes ==
  ASSUME NEW imp \in Importances
  PROVE  Age(imp) \in Importances
  BY AssignTypes DEF Age, UNKNOWN, LOW, MID, HIGH

Final(imp, top, ages) == IF ages THEN Age(Polled(imp, top)) ELSE Polled(imp, top)

\* The sampling part of produce_importance, for the answer top of dumpsys.
SampledWith(top, imp, changed, ages) ==
  /\ check_activity_counter' = IF check_activity_counter + 1 >= CheckActivityTime
                               THEN 0 ELSE check_activity_counter + 1
  /\ curActivityPid' = IF ActivityChanges(top) THEN top ELSE curActivityPid
  /\ nice' = IF Moved(top) = {} THEN nice
             ELSE Prioritize(nice, Polled(imp, top), changed \cup Moved(top))
  /\ importance' = Final(imp, top, ages)
  /\ lastAgingPid' = IF ages THEN 1 ELSE lastAgingPid
  /\ importanceChangeThrVec' = changed \cup Moved(top)
                               \cup {p \in Pid : Final(imp, top, ages)[p] # Polled(imp, top)[p]}

LEMMA SamplePartEffect ==
  ASSUME NEW imp, NEW changed, NEW ages, SamplePart(imp, changed, ages)
  PROVE  \E top \in TopActivity \cup {-1} : SampledWith(top, imp, changed, ages)
  BY DEF SampledWith, SamplePart, Final, AgingCursor, TopActivity

LEMMA SamplePartTypes ==
  ASSUME FgTypeOK, NEW imp \in Importances, NEW changed \in SUBSET Pid, NEW ages \in BOOLEAN,
         \A p \in changed : imp[p] \in LOW..HIGH,
         SamplePart(imp, changed, ages)
  PROVE  /\ check_activity_counter' \in 0..CheckActivityTime
         /\ curActivityPid' \in Pid \cup {-1} /\ lastAgingPid' \in Pid
         /\ nice' \in [Pid -> Nice] /\ importance' \in Importances
         /\ importanceChangeThrVec' \subseteq Pid
  <1>1. PICK top \in TopActivity \cup {-1} : SampledWith(top, imp, changed, ages)
    BY SamplePartEffect
  <1>2. becomeBGThrVec(top) \subseteq Pid /\ becomeFGThrVec(top) \subseteq Pid
    BY DEF becomeBGThrVec, becomeFGThrVec, CurActivityThrs, ThreadGroup, FgTypeOK
  <1>3. Polled(imp, top) \in Importances /\ Final(imp, top, ages) \in Importances
    BY AssignTypes, AgeTypes DEF Polled, Final, UNKNOWN, LOW, MID, HIGH
  <1>4. \A p \in changed \cup Moved(top) : Polled(imp, top)[p] \in LOW..HIGH
    BY <1>2 DEF Polled, Assign, UNKNOWN, LOW, MID, HIGH, Moved
  <1>5. nice' \in [Pid -> Nice]
    BY <1>1, <1>4, PrioritizeTypes DEF FgTypeOK, SampledWith
  <1>6. check_activity_counter' \in 0..CheckActivityTime
    BY <1>1, ConfigAssumption DEF FgTypeOK, SampledWith
  <1>7. curActivityPid' \in Pid \cup {-1} /\ lastAgingPid' \in Pid
    BY <1>1, SystemIsPid DEF FgTypeOK, TopActivity, System, SampledWith
  <1>q. QED
    BY <1>1, <1>2, <1>3, <1>5, <1>6, <1>7 DEF SampledWith, Moved

LEMMA ForkPids ==
  /\ \A e \in Event : e.what = "fork" => e.pid \in Pid /\ e.arg \in Pid
  /\ \A e \in Event : e.what = "exit" => e.pid \in Pid
  BY DEF Event, Ignored, Touch, Screen, Tick, Fork, Exit

\* The parents when p is gone and r adopted its children.
Adopted(p, r) == [q \in Pid |-> IF q = p THEN System ELSE IF parent[q] = p THEN r ELSE parent[q]]

LEMMA FgTypeStep == FgTypeOK /\ [FgNext]_fgVars => FgTypeOK'
  <1> SUFFICES ASSUME FgTypeOK, [FgNext]_fgVars PROVE FgTypeOK'
    OBVIOUS
  <1>0. TypeOK /\ TypeOK'
    BY FgStepIsStep, TypeStep DEF FgTypeOK
  <1>1. CASE UNCHANGED fgVars
    BY <1>0, <1>1 DEF fgVars, tasks, daemon, table, polling, aging, FgTypeOK
  <1>2. ASSUME NEW c \in Pid, NEW p \in Pid, ThreadCreate(c, p) \/ ProcessFork(c, p)
        PROVE  FgTypeOK'
    <2>1. PICK leader \in Pid : StartTask(c, p, leader)
      BY <1>2 DEF ThreadCreate, ProcessFork, FgTypeOK
    <2>2. alive' = alive \cup {c} /\ group' = [group EXCEPT ![c] = leader]
          /\ nice' = [nice EXCEPT ![c] = nice[p]] /\ UNCHANGED <<screenOn, daemon>>
      BY <2>1 DEF StartTask
    <2>3. parent' \in [Pid -> Pid]
      BY <1>2 DEF ThreadCreate, ProcessFork, FgTypeOK
    <2>q. QED
      BY <1>0, <2>2, <2>3 DEF FgTypeOK, daemon, table, polling, aging
  <1>3. ASSUME NEW p \in Pid, TaskExit(p)
        PROVE  FgTypeOK'
    <2>1. PICK r \in Adopters(p) : parent' = Adopted(p, r)
      BY <1>3 DEF TaskExit, Adopted
    <2>2. Adopters(p) \subseteq Pid
      BY SystemIsPid DEF Adopters, ThreadGroup, FgTypeOK
    <2>3. parent' \in [Pid -> Pid]
      BY <2>1, <2>2, SystemIsPid DEF Adopted, FgTypeOK
    <2>q. QED
      BY <1>0, <1>3, <2>3 DEF TaskExit, FgTypeOK, Nice, daemon, table, polling, aging
  <1>4. CASE ScreenSwitch
    BY <1>0, <1>4 DEF ScreenSwitch, FgTypeOK, tasks, daemon, table, polling, aging
  <1>5. CASE UNCHANGED <<tasks, nice, screenOn, daemon>>
    BY <1>0, <1>5 DEF FgTypeOK, tasks, daemon, table, polling, aging
  <1>6. CASE ProduceFork
    <2>1. ev.pid \in Pid /\ ev.arg \in Pid
      BY <1>0, <1>6, ForkPids DEF TypeOK, ProduceFork
    <2>q. QED
      BY <1>0, <1>6, <2>1 DEF ProduceFork, initialize_thread, FgTypeOK, tasks, polling, aging
  <1>7. CASE ProduceExit
    BY <1>0, <1>7 DEF ProduceExit, destroy_thread, FgTypeOK, tasks, polling, aging
  <1>8. CASE ProduceTick0
    <2>1. SamplePart(importance, {}, agingIsOn) /\ UNCHANGED <<tasks, screenOn, isUsed, missed, ran, agingIsOn>>
      BY <1>8 DEF ProduceTick0
    <2>2. importance \in Importances /\ agingIsOn \in BOOLEAN
      BY DEF FgTypeOK, Importances
    <2>3. /\ check_activity_counter' \in 0..CheckActivityTime
          /\ curActivityPid' \in Pid \cup {-1} /\ lastAgingPid' \in Pid
          /\ nice' \in [Pid -> Nice] /\ importance' \in Importances
          /\ importanceChangeThrVec' \in SUBSET Pid
      BY <2>1, <2>2, SamplePartTypes
    <2>q. QED
      BY <1>0, <2>1, <2>2, <2>3 DEF FgTypeOK, tasks, Importances
  <1>9. CASE ProduceScreenOff
    <2>1. SamplePart(Assign(importance, CurActivityThrs, LOW), CurActivityThrs, FALSE)
          /\ agingIsOn' = FALSE /\ UNCHANGED <<tasks, screenOn, isUsed, missed, ran>>
      BY <1>9 DEF ProduceScreenOff
    <2>2. CurActivityThrs \in SUBSET Pid /\ importance \in Importances
      BY DEF CurActivityThrs, ThreadGroup, FgTypeOK, Importances
    <2>3. LOW \in UNKNOWN..HIGH
      BY DEF UNKNOWN, LOW, HIGH
    <2>4. Assign(importance, CurActivityThrs, LOW) \in Importances
      BY <2>2, <2>3, AssignTypes
    <2>5. \A p \in CurActivityThrs : Assign(importance, CurActivityThrs, LOW)[p] \in LOW..HIGH
      BY <2>2 DEF Assign, LOW, HIGH
    <2>q. QED
      BY <1>0, <2>1, <2>2, <2>4, <2>5, SamplePartTypes DEF FgTypeOK, tasks, Importances
  <1>10. CASE ProduceMid \/ ProduceBoost
    <2>1. CurActivityThrs \in SUBSET Pid /\ importance \in Importances
      BY DEF CurActivityThrs, ThreadGroup, FgTypeOK, Importances
    <2>2. importance' \in Importances /\ importanceChangeThrVec' \subseteq Pid
      BY <1>10, <2>1, AssignTypes DEF ProduceMid, ProduceBoost, UNKNOWN, LOW, MID, HIGH
    <2>3. agingIsOn' \in BOOLEAN
          /\ UNCHANGED <<tasks, nice, screenOn, isUsed, missed, ran, polling, lastAgingPid>>
      BY <1>10, ConfigAssumption DEF ProduceMid, ProduceBoost, FgTypeOK, aging
    <2>q. QED
      BY <1>0, <2>2, <2>3 DEF FgTypeOK, tasks, polling, Importances
  <1>11. CASE ActPrioritize
    <2>1. \A p \in importanceChangeThrVec \cap Pid : importance[p] \in LOW..HIGH
      BY <1>11 DEF ActPrioritize, Known, FgTypeOK, UNKNOWN, LOW, MID, HIGH
    <2>2. nice' \in [Pid -> Nice]
      BY <1>11, <2>1, PrioritizeTypes DEF ActPrioritize, FgTypeOK
    <2>q. QED
      BY <1>0, <1>11, <2>2 DEF ActPrioritize, FgTypeOK, tasks, table, polling, aging
  <1>12. CASE ActTick0
    BY <1>0, <1>12 DEF ActTick0, FgTypeOK, tasks, polling, aging
  <1>13. CASE PanelTouch \/ OtherKernel \/ ActExit \/ GiveUp \/ OtherDaemon
    BY <1>5, <1>13 DEF PanelTouch, OtherKernel, ActExit, GiveUp, OtherDaemon
  <1>q. QED
    BY <1>1, <1>2, <1>3, <1>4, <1>6, <1>7, <1>8, <1>9, <1>10, <1>11, <1>12, <1>13
       DEF FgNext, FgKernel, FgDaemon, FgTerminated

LEMMA FgTypeInit == FgInit => FgTypeOK
  <1> SUFFICES ASSUME FgInit PROVE FgTypeOK
    OBVIOUS
  <1>1. TypeOK
    BY TypeInit DEF FgInit
  <1>2. /\ alive \subseteq Pid /\ missed \subseteq Pid
        /\ group \in [Pid -> Pid] /\ parent \in [Pid -> Pid]
    <2>1. RunningTasks
      BY DEF FgInit
    <2>2. alive \subseteq Pid /\ missed \subseteq Pid
      BY <2>1, SystemIsPid, AppAssumption DEF RunningTasks
    <2>3. group \in [Pid -> Pid] /\ parent \in [Pid -> alive]
      BY <2>1 DEF RunningTasks
    <2>q. QED
      BY <2>2, <2>3
  <1>3. /\ importance \in [Pid -> UNKNOWN..HIGH]
        /\ curActivityPid \in Pid \cup {-1}
    <2>1. PICK raised : importance = [p \in Pid |-> IF p = System \/ p \in raised THEN MID
                                                    ELSE IF p \in App THEN LOW ELSE UNKNOWN]
      BY DEF FgInit, initialize_activity
    <2>2. curActivityPid \in Leaders \cup {-1}
      BY DEF FgInit, initialize_activity
    <2>q. QED
      BY <2>1, <2>2 DEF Leaders, UNKNOWN, LOW, MID, HIGH
  <1>4. isUsed \in [Pid -> BOOLEAN] /\ nice \in [Pid -> Nice]
    BY DEF FgInit, initialize_threads, Nice
  <1>q. QED
    BY <1>1, <1>2, <1>3, <1>4, SystemIsPid, ConfigAssumption DEF FgInit, FgTypeOK, System

\* Every variable of Foreground keeps its type: threadSet is indexed by pids only,
\* and no thread is prioritized with an importance it cannot have (thread.c:285-319).
THEOREM FgTypeCorrect == FgSpec => []FgTypeOK
  BY FgTypeInit, FgTypeStep, PTL DEF FgSpec

\* The fork event of a new task names the parent of its process, or for a process
\* the thread that forked.
LEMMA StartEvent ==
  ASSUME FgTypeOK, NEW c \in Pid, NEW p \in Pid, ThreadCreate(c, p) \/ ProcessFork(c, p)
  PROVE  \E x \in Pid : /\ ForkEvent(c, x)
                        /\ \/ x = parent[group[p]]
                           \/ x = p /\ p \in alive /\ (p # System => "appfork" \in Happens)
  <1>1. CASE ThreadCreate(c, p)
    <2>1. parent[group[p]] \in Pid
      BY DEF FgTypeOK
    <2>q. QED
      BY <1>1, <2>1 DEF ThreadCreate
  <1>2. CASE ProcessFork(c, p)
    BY <1>2 DEF ProcessFork
  <1>q. QED
    BY <1>1, <1>2

\* Every parent is alive, and is the system unless app threads fork.
ParentsInv ==
  /\ System \in alive
  /\ \A q \in Pid : parent[q] \in alive /\ (parent[q] # System => "appfork" \in Happens)

LEMMA ParentsStep == FgTypeOK /\ ParentsInv /\ [FgNext]_fgVars => ParentsInv'
  <1> SUFFICES ASSUME FgTypeOK, ParentsInv, [FgNext]_fgVars PROVE ParentsInv'
    OBVIOUS
  <1>1. CASE UNCHANGED tasks
    BY <1>1 DEF ParentsInv, tasks
  <1>2. ASSUME NEW c \in Pid, NEW p \in Pid, ThreadCreate(c, p)
        PROVE  ParentsInv'
    BY <1>2 DEF ThreadCreate, StartTask, ParentsInv
  <1>3. ASSUME NEW c \in Pid, NEW p \in Pid, ProcessFork(c, p)
        PROVE  ParentsInv'
    <2>1. alive' = alive \cup {c} /\ p \in alive /\ (p # System => "appfork" \in Happens)
      BY <1>3 DEF ProcessFork, StartTask
    <2>2. \A q \in Pid : parent'[q] = p \/ parent'[q] = parent[q]
      BY <1>3 DEF ProcessFork, FgTypeOK
    <2>q. QED
      BY <2>1, <2>2 DEF ParentsInv
  <1>4. ASSUME NEW p \in Pid, TaskExit(p)
        PROVE  ParentsInv'
    <2>1. PICK r \in Adopters(p) : parent' = Adopted(p, r)
      BY <1>4 DEF TaskExit, Adopted
    <2>2. alive' = alive \ {p} /\ p # System
      BY <1>4 DEF TaskExit
    <2>3. System \in alive' /\ r \in alive'
      BY <2>1, <2>2 DEF ParentsInv, Adopters, ThreadGroup
    <2>4. ASSUME NEW q \in Pid
          PROVE  parent'[q] \in alive' /\ (parent'[q] # System => "appfork" \in Happens)
      <3>1. parent'[q] = IF q = p THEN System ELSE IF parent[q] = p THEN r ELSE parent[q]
        BY <2>1 DEF Adopted
      <3>q. QED
        BY <2>2, <2>3, <3>1 DEF ParentsInv
    <2>q. QED
      BY <2>3, <2>4 DEF ParentsInv
  <1>q. QED
    BY <1>1, <1>2, <1>3, <1>4
       DEF FgNext, FgKernel, FgDaemon, FgTerminated, fgVars, ScreenSwitch, PanelTouch, OtherKernel,
           ProduceFork, ProduceExit, ProduceTick0, ProduceScreenOff, ProduceMid, ProduceBoost,
           ActPrioritize, ActExit, ActTick0, GiveUp, OtherDaemon

LEMMA ParentsInit == FgInit => ParentsInv
  <1> SUFFICES ASSUME FgInit PROVE ParentsInv
    OBVIOUS
  <1>1. RunningTasks
    BY DEF FgInit
  <1>2. System \in alive
    BY <1>1, AppAssumption DEF RunningTasks, System
  <1>3. \A q \in Pid : parent[q] \in alive /\ (parent[q] # System => "appfork" \in Happens)
    BY <1>1 DEF RunningTasks
  <1>q. QED
    BY <1>2, <1>3 DEF ParentsInv

-----------------------------------------------------------------------------
(* What is pending about a pid. *)

Concerns(e, p) == e.what \in {"fork", "exit"} /\ e.pid = p
InProduce(p)   == pc = "produce" /\ Concerns(ev, p)
Pending(p)     == About(p) \/ InProduce(p)

LEMMA AboutIsQueued ==
  ASSUME TypeOK
  PROVE  \A p : About(p) <=> \E e \in Event : Queued(e) /\ Concerns(e, p)
  <1>1. queue \in Seq(Event)
    BY DEF TypeOK
  <1>2. \A i \in 1..Len(queue) : queue[i] \in Event
    BY <1>1
  <1>q. QED
    BY <1>2 DEF About, Queued, Concerns

LEMMA AboutIsQueuedNext ==
  ASSUME TypeOK'
  PROVE  \A p : About(p)' <=> \E e \in Event : Queued(e)' /\ Concerns(e, p)
  <1>1. queue' \in Seq(Event)
    BY DEF TypeOK
  <1>2. \A i \in 1..Len(queue') : queue'[i] \in Event
    BY <1>1
  <1>q. QED
    BY <1>2 DEF About, Queued, Concerns

LEMMA DeliverAbout ==
  ASSUME TypeOK, TypeOK', NEW e \in Event, Deliver(e)
  PROVE  /\ \A p : About(p) => About(p)'
         /\ \A p : About(p)' => About(p) \/ Concerns(e, p)
         /\ \A p : Concerns(e, p) /\ ~overrun' => About(p)'
  <1>1. \A p : About(p) <=> \E f \in Event : Queued(f) /\ Concerns(f, p)
    BY AboutIsQueued
  <1>2. \A p : About(p)' <=> \E f \in Event : Queued(f)' /\ Concerns(f, p)
    BY AboutIsQueuedNext
  <1>q. QED
    BY <1>1, <1>2, DeliverEffect

LEMMA RecvPending ==
  ASSUME TypeOK, TypeOK', Recv
  PROVE  /\ \A p : Pending(p)' <=> Pending(p)
         /\ ev' \in Event /\ Queued(ev')
         /\ \A f : Queued(f)' => Queued(f)
         /\ Running /\ ~overrun
  <1>1. /\ ev' \in Event /\ Queued(ev')
        /\ \A f : Queued(f)' => Queued(f)
        /\ \A f : Queued(f) => Queued(f)' \/ ev' = f
    <2>1. queue \in Seq(Event) /\ queue # <<>> /\ ev' = Head(queue)
      BY DEF TypeOK, Recv
    <2>q. QED
      BY <2>1, TailElements, RecvEffect DEF Queued
  <1>2. \A p : About(p) <=> \E f \in Event : Queued(f) /\ Concerns(f, p)
    BY AboutIsQueued
  <1>3. \A p : About(p)' <=> \E f \in Event : Queued(f)' /\ Concerns(f, p)
    BY AboutIsQueuedNext
  <1>4. pc = "recv" /\ (ev'.what # "ignored" => pc' = "produce") /\ ~overrun
    BY RecvEffect DEF Recv
  <1>5. \A p : Pending(p) <=> About(p)
    BY <1>4 DEF Pending, InProduce
  <1>6. \A p : InProduce(p)' <=> Concerns(ev', p)
    BY <1>4 DEF InProduce, Concerns, Recv
  <1>q. QED
    BY <1>1, <1>2, <1>3, <1>4, <1>5, <1>6 DEF Pending, Running, Ended

LEMMA KernelPending ==
  ASSUME TypeOK, TypeOK', NEW e \in Event, KernelStep, Deliver(e)
  PROVE  /\ \A p : Pending(p) => Pending(p)'
         /\ \A p : Pending(p)' => Pending(p) \/ Concerns(e, p)
         /\ \A p : Concerns(e, p) /\ ~overrun' => Pending(p)'
         /\ \A f : Queued(f)' => Queued(f) \/ f = e
         /\ \A f : Queued(f) => Queued(f)'
         /\ overrun => overrun'
         /\ Running /\ Running' /\ UNCHANGED <<InHand, pc, ev>>
  BY DeliverAbout, DeliverEffect DEF KernelStep, Pending, InProduce, Running, Ended, InHand

\* What is queued or in hand about the end of a thread is true of it.
ExitsAreDead ==
  \A e \in Event : e.what = "exit" /\ (Queued(e) \/ (InHand /\ ev = e)) => e.pid \notin alive

-----------------------------------------------------------------------------
(* threadSet follows the tasks. *)

TracksAlive == \A p \in Pid \ missed : ~Pending(p) => (isUsed[p] <=> p \in alive)

\* A fork and an exit of the same pid may both be pending, so the invariant speaks
\* only of pids with nothing pending; that the last exit was of a dead task is
\* what makes it inductive.
TrackedInv == FgTypeOK /\ ExitsAreDead /\ (Running /\ ~overrun => TracksAlive)

LEMMA QuietTracked ==
  ASSUME TrackedInv, FgTypeOK',
         UNCHANGED <<queue, overrun, alive, isUsed, missed>>,
         Running' => Running /\ \A p : InProduce(p)' <=> InProduce(p),
         InHand' => InHand /\ ev' = ev
  PROVE  TrackedInv'
  <1>1. \A p : About(p)' <=> About(p)
    BY DEF About
  <1>2. \A e : Queued(e)' <=> Queued(e)
    BY DEF Queued
  <1>3. ExitsAreDead'
    BY <1>2 DEF TrackedInv, ExitsAreDead
  <1>4. Running' /\ ~overrun' => TracksAlive'
    BY <1>1 DEF TrackedInv, TracksAlive, Pending
  <1>q. QED
    BY <1>3, <1>4 DEF TrackedInv

\* A delivery that is about no task.
LEMMA DeliverTracked ==
  ASSUME TrackedInv, FgTypeOK', NEW e \in Event, KernelStep, Deliver(e),
         e.what \notin {"fork", "exit"}, UNCHANGED <<alive, isUsed, missed>>
  PROVE  TrackedInv'
  <1>1. TypeOK /\ TypeOK'
    BY DEF TrackedInv, FgTypeOK
  <1>2. /\ \A p : Pending(p) <=> Pending(p)'
        /\ \A f : Queued(f)' => Queued(f) \/ f = e
        /\ overrun => overrun'
        /\ Running /\ Running' /\ UNCHANGED <<InHand, pc, ev>>
    BY <1>1, KernelPending DEF Concerns
  <1>3. ExitsAreDead'
    BY <1>2 DEF TrackedInv, ExitsAreDead
  <1>4. ~overrun' => TracksAlive'
    BY <1>2 DEF TrackedInv, TracksAlive
  <1>q. QED
    BY <1>3, <1>4 DEF TrackedInv

LEMMA StartTracked ==
  ASSUME TrackedInv, FgTypeOK', NEW c \in Pid, NEW p \in Pid,
         ThreadCreate(c, p) \/ ProcessFork(c, p)
  PROVE  TrackedInv'
  <1>1. PICK e \in Event : e.what = "fork" /\ e.pid = c /\ ProcEvent(e)
    <2>1. PICK x \in Pid : ForkEvent(c, x)
      BY StartEvent DEF TrackedInv
    <2>2. ProcEvent(Fork(c, x)) /\ Fork(c, x) \in Event
      BY <2>1, EventTypes DEF ForkEvent
    <2>q. QED
      BY <2>2 DEF Fork
  <1>2. PidFree(c) /\ alive' = alive \cup {c} /\ UNCHANGED <<isUsed, missed>>
    BY DEF ThreadCreate, ProcessFork, StartTask, daemon, table
  <1>3. TypeOK /\ TypeOK' /\ KernelStep /\ Deliver(e)
    BY <1>1 DEF TrackedInv, FgTypeOK, ProcEvent
  <1>4. /\ \A q : Pending(q) => Pending(q)'
        /\ \A q : Concerns(e, q) /\ ~overrun' => Pending(q)'
        /\ \A f : Queued(f)' => Queued(f) \/ f = e
        /\ overrun => overrun'
        /\ Running /\ Running' /\ UNCHANGED <<InHand, pc, ev>>
    BY <1>3, KernelPending
  <1>5. \A f \in Event : f.what = "exit" /\ (Queued(f) \/ (InHand /\ ev = f)) => f.pid # c
    BY <1>2, <1>3, AboutIsQueued DEF PidFree, InHandOf, Concerns
  <1>6. ExitsAreDead'
    BY <1>1, <1>2, <1>4, <1>5 DEF TrackedInv, ExitsAreDead
  <1>7. ~overrun' => TracksAlive'
    <2>1. ~overrun' => Pending(c)'
      BY <1>1, <1>4 DEF Concerns
    <2>q. QED
      BY <1>2, <1>4, <2>1 DEF TrackedInv, TracksAlive
  <1>q. QED
    BY <1>6, <1>7 DEF TrackedInv

LEMMA ExitTracked ==
  ASSUME TrackedInv, FgTypeOK', NEW p \in Pid, TaskExit(p)
  PROVE  TrackedInv'
  <1>1. PICK e \in Event : e.what = "exit" /\ e.pid = p /\ ProcEvent(e)
    <2>1. ProcEvent(Exit(p)) /\ Exit(p) \in Event
      BY EventTypes DEF TaskExit, ExitEvent
    <2>q. QED
      BY <2>1 DEF Exit
  <1>2. alive' = alive \ {p} /\ UNCHANGED <<isUsed, missed>>
    BY DEF TaskExit, daemon, table
  <1>3. TypeOK /\ TypeOK' /\ KernelStep /\ Deliver(e)
    BY <1>1 DEF TrackedInv, FgTypeOK, ProcEvent
  <1>4. /\ \A q : Pending(q) => Pending(q)'
        /\ \A q : Concerns(e, q) /\ ~overrun' => Pending(q)'
        /\ \A f : Queued(f)' => Queued(f) \/ f = e
        /\ overrun => overrun'
        /\ Running /\ Running' /\ UNCHANGED <<InHand, pc, ev>>
    BY <1>3, KernelPending
  <1>5. ExitsAreDead'
    BY <1>1, <1>2, <1>4 DEF TrackedInv, ExitsAreDead
  <1>6. ~overrun' => TracksAlive'
    <2>1. ~overrun' => Pending(p)'
      BY <1>1, <1>4 DEF Concerns
    <2>q. QED
      BY <1>2, <1>4, <2>1 DEF TrackedInv, TracksAlive
  <1>q. QED
    BY <1>5, <1>6 DEF TrackedInv

LEMMA RecvTracked ==
  ASSUME TrackedInv, FgTypeOK', Recv, UNCHANGED <<alive, isUsed, missed>>
  PROVE  TrackedInv'
  <1>1. TypeOK /\ TypeOK'
    BY DEF TrackedInv, FgTypeOK
  <1>2. /\ \A p : Pending(p)' <=> Pending(p)
        /\ ev' \in Event /\ Queued(ev')
        /\ \A f : Queued(f)' => Queued(f)
        /\ Running /\ ~overrun
    BY <1>1, RecvPending
  <1>3. ExitsAreDead'
    BY <1>2 DEF TrackedInv, ExitsAreDead
  <1>4. TracksAlive'
    BY <1>2 DEF TrackedInv, TracksAlive
  <1>q. QED
    BY <1>3, <1>4 DEF TrackedInv

\* The handlers of fork and exit events.
LEMMA ProduceTracked ==
  ASSUME TrackedInv, FgTypeOK', ProduceFork \/ ProduceExit
  PROVE  TrackedInv'
  <1>1. /\ pc = "produce" /\ pc' = "act" /\ ev' = ev /\ queue' = queue /\ overrun' = overrun
        /\ ev.what \in {"fork", "exit"} /\ alive' = alive
        /\ isUsed' = [isUsed EXCEPT ![ev.pid] = isUsed'[ev.pid]] /\ missed' = missed \ {ev.pid}
        /\ ev \in Event /\ ev.pid \in Pid /\ isUsed \in [Pid -> BOOLEAN]
    <2>1. ev \in Event /\ isUsed \in [Pid -> BOOLEAN]
      BY DEF TrackedInv, FgTypeOK, TypeOK
    <2>2. pc = "produce" /\ pc' = "act" /\ ev' = ev /\ queue' = queue /\ overrun' = overrun
          /\ ev.what \in {"fork", "exit"} /\ alive' = alive
      BY DEF ProduceFork, ProduceExit, ProduceProc, tasks
    <2>3. isUsed' = [isUsed EXCEPT ![ev.pid] = isUsed'[ev.pid]] /\ missed' = missed \ {ev.pid}
      BY <2>1, <2>2, ForkPids DEF ProduceFork, ProduceExit, initialize_thread, destroy_thread
    <2>q. QED
      BY <2>1, <2>2, <2>3, ForkPids
  <1>2. \A f : Queued(f)' <=> Queued(f)
    BY <1>1 DEF Queued
  <1>3. \A p : About(p)' <=> About(p)
    BY <1>1 DEF About
  <1>4. ExitsAreDead'
    BY <1>1, <1>2 DEF TrackedInv, ExitsAreDead, InHand
  <1>5. isUsed'[ev.pid] <=> ev.pid \in alive
    <2>1. CASE ProduceFork
      BY <1>1, <2>1 DEF ProduceFork, initialize_thread
    <2>2. CASE ProduceExit
      <3>1. ev.what = "exit" /\ InHand
        BY <1>1, <2>2 DEF ProduceExit, InHand
      <3>2. ev.pid \notin alive
        BY <1>1, <3>1 DEF TrackedInv, ExitsAreDead
      <3>q. QED
        BY <1>1, <2>2, <3>2 DEF ProduceExit, destroy_thread
    <2>q. QED
      BY <2>1, <2>2
  <1>6. ASSUME ~overrun', NEW p \in Pid \ missed', ~Pending(p)'
        PROVE  isUsed'[p] <=> p \in alive'
    <2>1. CASE p = ev.pid
      BY <1>1, <1>5, <2>1
    <2>2. CASE p # ev.pid
      <3>1. ~Pending(p) /\ Running /\ p \in Pid \ missed
        BY <1>1, <1>3, <1>6, <2>2 DEF Pending, InProduce, Concerns, Running, Ended
      <3>q. QED
        BY <1>1, <1>6, <2>2, <3>1 DEF TrackedInv, TracksAlive
    <2>q. QED
      BY <2>1, <2>2
  <1>q. QED
    BY <1>4, <1>6 DEF TrackedInv, TracksAlive

\* The kernel's steps but for forks and exits: a delivery that is about no task,
\* a signal, or the end of the daemon.
LEMMA OtherKernelStep ==
  ASSUME ScreenSwitch \/ PanelTouch \/ OtherKernel
  PROVE  \/ \E e \in Event : e.what \notin {"fork", "exit"} /\ KernelStep /\ Deliver(e)
         \/ Sigint
         \/ UNCHANGED queue /\ ~Running'
  <1>1. \A on \in {0, 1} : Screen(on).what = "screen" /\ Tick(on).what = "tick"
    BY DEF Screen, Tick
  <1>2. Ignored.what = "ignored" /\ Touch.what = "touch"
    BY DEF Ignored, Touch
  <1>3. CASE ScreenSwitch
    <2>1. PICK on \in {0, 1} : ScreenEvent(on)
      BY <1>3 DEF ScreenSwitch
    <2>q. QED
      BY <2>1, <1>1, EventTypes DEF ScreenEvent, ProcEvent
  <1>4. CASE PanelTouch
    BY <1>4, <1>2, EventTypes DEF PanelTouch, UserTouch
  <1>5. CASE OtherKernel
    <2>1. CASE Timer0Fire \/ Timer1Fire
      BY <2>1, <1>1, EventTypes DEF Timer0Fire, Timer1Fire
    <2>2. CASE IgnoredEvent
      BY <2>2, <1>2, EventTypes DEF IgnoredEvent, ProcEvent
    <2>3. CASE RecvShutdown
      BY <2>3, StopEnds DEF RecvShutdown, Stop, Running
    <2>q. QED
      BY <1>5, <2>1, <2>2, <2>3 DEF OtherKernel
  <1>q. QED
    BY <1>3, <1>4, <1>5

LEMMA TrackedStep == TrackedInv /\ [FgNext]_fgVars => TrackedInv'
  <1> SUFFICES ASSUME TrackedInv, [FgNext]_fgVars PROVE TrackedInv'
    OBVIOUS
  <1>0. FgTypeOK'
    BY FgTypeStep DEF TrackedInv
  <1>1. CASE UNCHANGED fgVars
    BY <1>0, <1>1, QuietTracked DEF fgVars, vars, tasks, daemon, table, Running, Ended, InHand, InProduce
  <1>2. ASSUME NEW c \in Pid, NEW p \in Pid, ThreadCreate(c, p) \/ ProcessFork(c, p)
        PROVE  TrackedInv'
    BY <1>0, <1>2, StartTracked
  <1>3. ASSUME NEW p \in Pid, TaskExit(p)
        PROVE  TrackedInv'
    BY <1>0, <1>3, ExitTracked
  <1>4. CASE ScreenSwitch \/ PanelTouch \/ OtherKernel
    <2>1. UNCHANGED <<alive, isUsed, missed>>
      BY <1>4 DEF ScreenSwitch, PanelTouch, OtherKernel, tasks, daemon, table
    <2>2. CASE Sigint
      BY <1>0, <2>1, <2>2, QuietTracked DEF Sigint, Running, Ended, InHand, InProduce
    <2>3. CASE UNCHANGED queue /\ ~Running'
      <3>1. ~InHand'
        BY <2>3 DEF Running, Ended, InHand
      <3>2. \A e : Queued(e)' <=> Queued(e)
        BY <2>3 DEF Queued
      <3>q. QED
        BY <1>0, <2>1, <2>3, <3>1, <3>2 DEF TrackedInv, ExitsAreDead
    <2>q. QED
      BY <1>0, <1>4, <2>1, <2>2, <2>3, OtherKernelStep, DeliverTracked
  <1>5. CASE ProduceFork \/ ProduceExit
    BY <1>0, <1>5, ProduceTracked
  <1>6. CASE ProduceTick0 \/ ProduceScreenOff \/ ProduceMid \/ ProduceBoost
    <2>1. UNCHANGED <<alive, isUsed, missed>>
      BY <1>6 DEF ProduceTick0, ProduceScreenOff, ProduceMid, ProduceBoost, tasks
    <2>2. ProduceSample \/ ProduceBackToMid \/ ProduceTouch
      BY <1>6 DEF ProduceTick0, ProduceScreenOff, ProduceMid, ProduceBoost
    <2>3. UNCHANGED <<queue, overrun, ev>> /\ pc = "produce" /\ pc' = "act"
          /\ ev.what \notin {"fork", "exit"}
      BY <2>2 DEF ProduceSample, ProduceBackToMid, ProduceTouch
    <2>q. QED
      BY <1>0, <2>1, <2>3, QuietTracked DEF Running, Ended, InHand, InProduce, Concerns
  <1>7. CASE ActPrioritize \/ ActExit \/ ActTick0
    <2>1. UNCHANGED <<alive, isUsed, missed>>
      BY <1>7 DEF ActPrioritize, ActExit, ActTick0, tasks, table, daemon
    <2>2. ActOther \/ ActSample
      BY <1>7 DEF ActPrioritize, ActExit, ActTick0
    <2>3. UNCHANGED <<queue, overrun>> /\ pc = "act" /\ pc' = "test"
      BY <2>2 DEF ActOther, ActSample
    <2>q. QED
      BY <1>0, <2>1, <2>3, QuietTracked DEF Running, Ended, InHand, InProduce
  <1>8. CASE GiveUp \/ OtherDaemon
    <2>1. UNCHANGED <<alive, isUsed, missed>>
      BY <1>8 DEF GiveUp, OtherDaemon, tasks, daemon, table
    <2>2. CASE Recv
      BY <1>0, <2>1, <2>2, RecvTracked
    <2>3. CASE LoopTest
      BY <1>0, <2>1, <2>3, QuietTracked DEF LoopTest, Running, Ended, InHand, InProduce
    <2>4. CASE LoopExit \/ RecvError \/ HandlerExit
      <3>1. UNCHANGED <<queue, overrun, ev>> /\ ~Running' /\ ~InHand'
        BY <2>4 DEF LoopExit, RecvError, HandlerExit, Stop, Running, Ended, InHand
      <3>q. QED
        BY <1>0, <2>1, <3>1, QuietTracked
    <2>q. QED
      BY <1>8, <2>2, <2>3, <2>4 DEF GiveUp, OtherDaemon
  <1>9. CASE FgTerminated
    BY <1>1, <1>9 DEF FgTerminated
  <1>q. QED
    BY <1>1, <1>2, <1>3, <1>4, <1>5, <1>6, <1>7, <1>8, <1>9 DEF FgNext, FgKernel, FgDaemon

LEMMA TrackedInit == FgInit => TrackedInv
  <1> SUFFICES ASSUME FgInit PROVE ExitsAreDead /\ TracksAlive
    BY FgTypeInit DEF TrackedInv
  <1>1. queue = <<>> /\ pc = "test"
    BY DEF FgInit, Init
  <1>2. ExitsAreDead
    BY <1>1 DEF ExitsAreDead, Queued, InHand
  <1>3. TracksAlive
    <2>1. isUsed = [p \in Pid |-> p \in {System} \cup App]
      BY DEF FgInit, initialize_threads
    <2>2. PICK gone, late : alive = {System} \cup (App \ gone) \cup late /\ missed = gone \cup late
      BY DEF FgInit, RunningTasks
    <2>3. System \notin App
      BY AppAssumption DEF System
    <2>4. \A p \in Pid \ missed : p \in alive <=> p \in {System} \cup App
      BY <2>2
    <2>q. QED
      BY <2>1, <2>4 DEF TracksAlive
  <1>q. QED
    BY <1>2, <1>3

\* Whatever forks and exits while its events are queued, threadSet knows exactly the
\* live threads once the events about a pid are handled (thread.c:113-140, 147-158), but for
\* what came or went unreported before the subscription, until the first event about it:
\* reading /proc/pid/stat at the fork event makes up for a child that is gone.
THEOREM TrackedMatchesAliveAlways == FgSpec => []TrackedMatchesAlive
  <1>1. FgInit => TrackedInv
    BY TrackedInit
  <1>2. TrackedInv => TrackedMatchesAlive
    BY DEF TrackedInv, TrackedMatchesAlive, TracksAlive, Settled, Pending, InProduce, Running, Ended
  <1>q. QED
    BY <1>1, <1>2, TrackedStep, PTL DEF FgSpec

-----------------------------------------------------------------------------
(* No thread stays high. *)

\* The system is never foreground and never ages, and without app threads that fork
\* it is the parent every fork event names: children start at mid.
SystemInv ==
  /\ System \in alive /\ group[System] = System /\ importance[System] = MID
  /\ curActivityPid # System /\ lastAgingPid = System
  /\ \A q \in Pid : parent[q] = System
  /\ \A e \in Event : e.what = "fork" /\ (Queued(e) \/ (InHand /\ ev = e)) => e.arg = System

\* A sampling part makes no thread high, and takes the importance of the threads of
\* the foreground process when it takes the process itself.
LEMMA SamplePartHigh ==
  ASSUME FgTypeOK, SystemInv, NEW imp \in Importances, NEW changed, NEW ages,
         imp[System] = MID, SamplePart(imp, changed, ages)
  PROVE  /\ importance'[System] = MID /\ curActivityPid' # System /\ lastAgingPid' = System
         /\ \A p \in alive : importance'[p] = HIGH
               => imp[p] = HIGH /\ (group[p] = curActivityPid => curActivityPid' = curActivityPid)
  <1>1. PICK top \in TopActivity \cup {-1} : SampledWith(top, imp, changed, ages)
    BY SamplePartEffect
  <1>2. curActivityPid' # System /\ lastAgingPid' = System
    BY <1>1 DEF SampledWith, SystemInv, System, TopActivity, Leaders
  <1>3. Polled(imp, top) \in Importances
    BY AssignTypes DEF Polled, UNKNOWN, LOW, MID, HIGH
  <1>4. System \notin Moved(top)
    BY DEF SystemInv, Moved, becomeBGThrVec, becomeFGThrVec, ActivityChanges, CurActivityThrs, ThreadGroup,
           TopActivity, Leaders, System
  <1>5. Polled(imp, top)[System] = MID
    BY <1>4, SystemIsPid DEF Polled, Assign, Moved
  <1>6. \A p \in Pid : Polled(imp, top)[p] = HIGH => imp[p] = HIGH /\ p \notin becomeBGThrVec(top)
    BY DEF Polled, Assign, LOW, MID, HIGH
  <1>7. /\ Age(Polled(imp, top))[System] = MID
        /\ \A p \in Pid : Age(Polled(imp, top))[p] = HIGH => Polled(imp, top)[p] = HIGH
    <2>1. System \notin AgingTurn(Polled(imp, top))
      BY <1>5 DEF AgingTurn, AgingCandidate, LOW, MID
    <2>2. Age(Polled(imp, top)) = Assign(Assign(Polled(imp, top), {}, LOW), AgingTurn(Polled(imp, top)), MID)
      BY DEF Age, SystemInv
    <2>q. QED
      BY <2>1, <2>2, <1>5, SystemIsPid DEF Assign, LOW, MID, HIGH
  <1>8. importance'[System] = MID /\ \A p \in Pid : importance'[p] = HIGH => Polled(imp, top)[p] = HIGH
    BY <1>1, <1>5, <1>7 DEF Final, SampledWith
  <1>9. ASSUME NEW p \in alive, importance'[p] = HIGH
        PROVE  imp[p] = HIGH /\ (group[p] = curActivityPid => curActivityPid' = curActivityPid)
    <2>1. p \in Pid /\ imp[p] = HIGH /\ p \notin becomeBGThrVec(top)
      BY <1>6, <1>8, <1>9 DEF FgTypeOK
    <2>q. QED
      BY <1>1, <2>1 DEF SampledWith, becomeBGThrVec, CurActivityThrs, ThreadGroup
  <1>q. QED
    BY <1>2, <1>8, <1>9

\* The sampling part of a screen-off event starts from a foreground made low.
LEMMA LowFromHigh ==
  ASSUME FgTypeOK, SystemInv
  PROVE  /\ Assign(importance, CurActivityThrs, LOW) \in Importances
         /\ Assign(importance, CurActivityThrs, LOW)[System] = MID
         /\ \A p \in Pid : Assign(importance, CurActivityThrs, LOW)[p] = HIGH => importance[p] = HIGH
  <1>1. System \notin CurActivityThrs /\ importance \in Importances /\ LOW \in UNKNOWN..HIGH
    BY DEF SystemInv, CurActivityThrs, ThreadGroup, FgTypeOK, Importances, UNKNOWN, LOW, HIGH
  <1>2. Assign(importance, CurActivityThrs, LOW) \in Importances
    BY <1>1, AssignTypes
  <1>q. QED
    BY <1>1, <1>2, SystemIsPid DEF Assign, SystemInv, LOW, HIGH

\* A step that puts no fork event in the queue or in hand.
LEMMA NoNewFork ==
  ASSUME SystemInv, \A e \in Event : e.what = "fork" /\ Queued(e)' => Queued(e),
         InHand' => ev' = ev /\ InHand
  PROVE  \A e \in Event : e.what = "fork" /\ (Queued(e)' \/ (InHand' /\ ev' = e)) => e.arg = System
  BY DEF SystemInv

LEMMA SystemStep ==
  ASSUME "appfork" \notin Happens
  PROVE  FgTypeOK /\ SystemInv /\ [FgNext]_fgVars => SystemInv'
  <1> SUFFICES ASSUME FgTypeOK, SystemInv, [FgNext]_fgVars PROVE SystemInv'
    OBVIOUS
  <1>0. TypeOK /\ TypeOK' /\ FgTypeOK'
    BY FgTypeStep DEF FgTypeOK
  <1> DEFINE Same == UNCHANGED <<alive, group, parent, importance, curActivityPid, lastAgingPid>>
             Forks == \A e \in Event :
                        e.what = "fork" /\ (Queued(e)' \/ (InHand' /\ ev' = e)) => e.arg = System
  <1>q0. ASSUME UNCHANGED queue, InHand' => ev' = ev /\ InHand
         PROVE  Forks
    BY <1>q0, NoNewFork DEF Queued
  <1>1. CASE UNCHANGED fgVars
    BY <1>1, <1>q0 DEF fgVars, vars, tasks, daemon, table, polling, aging, SystemInv, InHand
  <1>2. ASSUME NEW c \in Pid, NEW p \in Pid, ThreadCreate(c, p) \/ ProcessFork(c, p)
        PROVE  SystemInv'
    <2>1. ProcEvent(Fork(c, System)) /\ Fork(c, System).arg = System
      <3>1. PICK x \in Pid : ForkEvent(c, x) /\ (x = parent[group[p]] \/ x = System)
        BY <1>2, StartEvent
      <3>2. x = System
        BY <3>1 DEF SystemInv, FgTypeOK
      <3>q. QED
        BY <3>1, <3>2 DEF ForkEvent, Fork
    <2>2. /\ alive' = alive \cup {c} /\ c \notin alive /\ UNCHANGED daemon
          /\ \A q \in Pid \ {c} : group'[q] = group[q]
      BY <1>2 DEF ThreadCreate, ProcessFork, StartTask, PidFree, FgTypeOK
    <2>3. Fork(c, System) \in Event
      BY EventTypes, SystemIsPid
    <2>4. /\ \A f : Queued(f)' => Queued(f) \/ f = Fork(c, System)
          /\ UNCHANGED <<InHand, ev>>
      BY <1>0, <2>1, <2>3, KernelPending DEF ProcEvent
    <2>5. Forks
      BY <2>1, <2>4 DEF SystemInv
    <2>6. \A q \in Pid : parent'[q] = System
      <3>1. CASE ThreadCreate(c, p)
        BY <3>1 DEF ThreadCreate, SystemInv
      <3>2. CASE ProcessFork(c, p)
        <4>1. p = System /\ parent' = [parent EXCEPT ![c] = p]
          BY <3>2 DEF ProcessFork
        <4>q. QED
          BY <4>1 DEF SystemInv, FgTypeOK
      <3>q. QED
        BY <1>2, <3>1, <3>2
    <2>q. QED
      BY <2>2, <2>5, <2>6, SystemIsPid DEF SystemInv, daemon, table, polling, aging
  <1>3. ASSUME NEW p \in Pid, TaskExit(p)
        PROVE  SystemInv'
    <2>1. ProcEvent(Exit(p)) /\ Exit(p) \in Event /\ Exit(p).what = "exit"
      BY <1>3, EventTypes DEF TaskExit, ExitEvent, Exit
    <2>2. p # System /\ alive' = alive \ {p} /\ group' = [group EXCEPT ![p] = p] /\ UNCHANGED daemon
      BY <1>3 DEF TaskExit
    <2>3. /\ \A f : Queued(f)' => Queued(f) \/ f = Exit(p)
          /\ UNCHANGED <<InHand, ev>>
      BY <1>0, <2>1, KernelPending DEF ProcEvent
    <2>4. Forks
      BY <2>1, <2>3, NoNewFork
    <2>5. \A q \in Pid : parent'[q] = System
      <3>1. PICK r \in Adopters(p) : parent' = Adopted(p, r)
        BY <1>3 DEF TaskExit, Adopted
      <3>q. QED
        BY <2>2, <3>1 DEF Adopted, SystemInv
    <2>q. QED
      BY <2>2, <2>4, <2>5, SystemIsPid DEF SystemInv, FgTypeOK, daemon, table, polling, aging
  <1>4. CASE ScreenSwitch \/ PanelTouch \/ OtherKernel
    <2>1. Same
      BY <1>4 DEF ScreenSwitch, PanelTouch, OtherKernel, tasks, daemon, table, polling, aging
    <2>2. Forks
      <3>1. ASSUME NEW e \in Event, e.what \notin {"fork", "exit"}, KernelStep, Deliver(e)
            PROVE  Forks
        <4>1. (\A f : Queued(f)' => Queued(f) \/ f = e) /\ UNCHANGED <<InHand, ev>>
          BY <1>0, <3>1, KernelPending
        <4>q. QED
          BY <3>1, <4>1, NoNewFork
      <3>2. CASE Sigint
        BY <3>2, <1>q0 DEF Sigint, InHand
      <3>3. CASE UNCHANGED queue /\ ~Running'
        BY <3>3, <1>q0 DEF Running, Ended, InHand
      <3>q. QED
        BY <1>4, <3>1, <3>2, <3>3, OtherKernelStep
    <2>q. QED
      BY <2>1, <2>2 DEF SystemInv
  <1>5. CASE ProduceFork
    <2>1. ev \in Event /\ ev.what = "fork" /\ InHand /\ UNCHANGED <<queue, ev>>
      BY <1>0, <1>5 DEF ProduceFork, ProduceProc, TypeOK, InHand
    <2>2. ev.arg = System
      BY <2>1 DEF SystemInv
    <2>3. importance' = [importance EXCEPT ![ev.pid] = MID]
      BY <1>5, <2>2 DEF ProduceFork, SystemInv
    <2>4. importance'[System] = MID
      BY <2>3, SystemIsPid DEF SystemInv, FgTypeOK
    <2>5. Forks
      BY <2>1, <1>q0
    <2>6. UNCHANGED <<alive, group, parent, curActivityPid, lastAgingPid>>
      BY <1>5 DEF ProduceFork, tasks, polling, aging
    <2>q. QED
      BY <2>4, <2>5, <2>6 DEF SystemInv
  <1>6. CASE ProduceExit \/ ActPrioritize \/ ActExit \/ ActTick0 \/ GiveUp
    <2>1. Same
      BY <1>6 DEF ProduceExit, ActPrioritize, ActExit, ActTick0, GiveUp, tasks, daemon, table, polling, aging
    <2>2. UNCHANGED queue /\ (InHand' => ev' = ev /\ InHand)
      <3>1. ProduceProc \/ ActOther \/ ActSample \/ HandlerExit
        BY <1>6 DEF ProduceExit, ActPrioritize, ActExit, ActTick0, GiveUp
      <3>q. QED
        BY <3>1 DEF ProduceProc, ActOther, ActSample, HandlerExit, Stop, InHand
    <2>q. QED
      BY <2>1, <2>2, <1>q0 DEF SystemInv
  <1>7. CASE ProduceTick0 \/ ProduceScreenOff \/ ProduceMid \/ ProduceBoost
    <2>1. UNCHANGED queue /\ (InHand' => ev' = ev /\ InHand)
      <3>1. ProduceSample \/ ProduceBackToMid \/ ProduceTouch
        BY <1>7 DEF ProduceTick0, ProduceScreenOff, ProduceMid, ProduceBoost
      <3>q. QED
        BY <3>1 DEF ProduceSample, ProduceBackToMid, ProduceTouch, InHand
    <2>2. UNCHANGED <<alive, group, parent>>
      BY <1>7 DEF ProduceTick0, ProduceScreenOff, ProduceMid, ProduceBoost, tasks
    <2>3. importance'[System] = MID /\ curActivityPid' # System /\ lastAgingPid' = System
      <3>1. CASE ProduceTick0
        <4>1. importance \in Importances /\ importance[System] = MID
          BY DEF FgTypeOK, Importances, SystemInv
        <4>q. QED
          BY <3>1, <4>1, SamplePartHigh DEF ProduceTick0
      <3>2. CASE ProduceScreenOff
        BY <3>2, LowFromHigh, SamplePartHigh DEF ProduceScreenOff
      <3>3. CASE ProduceMid \/ ProduceBoost
        <4>1. System \notin CurActivityThrs
          BY DEF SystemInv, CurActivityThrs, ThreadGroup
        <4>2. UNCHANGED <<polling, lastAgingPid>>
          BY <3>3 DEF ProduceMid, ProduceBoost, aging
        <4>q. QED
          BY <3>3, <4>1, <4>2, SystemIsPid DEF ProduceMid, ProduceBoost, Assign, SystemInv, polling
      <3>q. QED
        BY <1>7, <3>1, <3>2, <3>3
    <2>q. QED
      BY <2>1, <2>2, <2>3, <1>q0 DEF SystemInv
  <1>8. CASE OtherDaemon
    <2>1. Same
      BY <1>8 DEF OtherDaemon, tasks, daemon, table, polling, aging
    <2>2. CASE Recv
      <3>1. (\A f : Queued(f)' => Queued(f)) /\ Queued(ev')
        BY <1>0, <2>2, RecvPending
      <3>2. Forks
        BY <3>1 DEF SystemInv
      <3>q. QED
        BY <2>1, <3>2 DEF SystemInv
    <2>3. CASE LoopTest \/ LoopExit \/ RecvError
      <3>1. UNCHANGED queue /\ ~InHand'
        BY <2>3 DEF LoopTest, LoopExit, RecvError, Stop, InHand
      <3>q. QED
        BY <2>1, <3>1, <1>q0 DEF SystemInv
    <2>q. QED
      BY <1>8, <2>2, <2>3 DEF OtherDaemon
  <1>9. CASE FgTerminated
    BY <1>1, <1>9 DEF FgTerminated
  <1>q. QED
    BY <1>1, <1>2, <1>3, <1>4, <1>5, <1>6, <1>7, <1>8, <1>9 DEF FgNext, FgKernel, FgDaemon

\* What the start says of the importance data.
LEMMA FgInitImportance ==
  ASSUME FgInit
  PROVE  /\ importance[System] = MID /\ \A p \in App : importance[p] \in {LOW, MID}
         /\ \A p \in Pid : importance[p] \in {UNKNOWN, LOW, MID}
         /\ \A p \in CurActivityThrs : importance[p] # LOW
         /\ curActivityPid # System
  <1>1. PICK raised \in SUBSET {p \in Pid : curActivityPid # -1 /\ group[p] = curActivityPid} :
          /\ curActivityPid \in alive => curActivityPid \in raised
          /\ importance = [p \in Pid |-> IF p = System \/ p \in raised THEN MID
                                         ELSE IF p \in App THEN LOW ELSE UNKNOWN]
    BY DEF FgInit, initialize_activity
  <1>2. curActivityPid \in Leaders \cup {-1} /\ RunningTasks
    BY DEF FgInit, initialize_activity
  <1>3. \A p \in App \cap alive : group[p] = p
    <2>1. PICK late \in SUBSET Untracked : \A p \in Pid \ late : group[p] = p
      BY <1>2 DEF RunningTasks
    <2>q. QED
      BY <2>1, AppAssumption
  <1>4. ASSUME NEW p \in CurActivityThrs
        PROVE  importance[p] # LOW
    <2>1. p \in alive /\ p \in Pid /\ group[p] = curActivityPid
      BY FgTypeInit DEF CurActivityThrs, ThreadGroup, FgTypeOK
    <2>2. p \in App => p \in raised
      BY <1>1, <1>3, <2>1
    <2>q. QED
      BY <1>1, <2>1, <2>2 DEF UNKNOWN, LOW, MID
  <1>5. importance[System] = MID /\ \A p \in App : importance[p] \in {LOW, MID}
    BY <1>1, SystemIsPid, AppAssumption
  <1>6. \A p \in Pid : importance[p] \in {UNKNOWN, LOW, MID}
    BY <1>1
  <1>q. QED
    BY <1>2, <1>4, <1>5, <1>6 DEF Leaders, System

LEMMA SystemInit ==
  ASSUME "appfork" \notin Happens
  PROVE  FgInit => SystemInv
  <1> SUFFICES ASSUME FgInit PROVE SystemInv
    OBVIOUS
  <1>1. queue = <<>> /\ pc = "test"
    BY DEF FgInit, Init
  <1>2. \A e : ~Queued(e) /\ ~InHand
    BY <1>1 DEF Queued, InHand
  <1>3. System \in alive /\ group[System] = System
    <2>1. PICK late \in SUBSET Untracked : \A p \in Pid \ late : group[p] = p
      BY DEF FgInit, RunningTasks
    <2>q. QED
      BY <2>1, SystemIsPid, AppAssumption, ParentsInit DEF ParentsInv, System
  <1>4. \A q \in Pid : parent[q] = System
    BY ParentsInit DEF ParentsInv
  <1>5. lastAgingPid = System
    BY DEF FgInit, System
  <1>q. QED
    BY <1>2, <1>3, <1>4, <1>5, FgInitImportance DEF SystemInv

HighsAreBoosted ==
  \A p \in alive : importance[p] = HIGH /\ ~Pending(p) => group[p] = curActivityPid /\ BoostEndPending

HighInv == TrackedInv /\ SystemInv /\ (Running /\ ~overrun => HighsAreBoosted)

\* Only the handling of the tick, or of a screen-on event, uses up the end of a boost.
LEMMA BoostEndKept ==
  ASSUME TypeOK, [Next]_vars, Running', ~overrun', ~ProduceBackToMid
  PROVE  Running /\ ~overrun /\ (BoostEndPending => BoostEndPending')
  <1>1. ASSUME NEW e \in Event, ProcEvent(e)
        PROVE  Running /\ ~overrun /\ (BoostEndPending => BoostEndPending')
    BY <1>1, DeliverKeepsTokens DEF ProcEvent, KernelStep, kernelVars
  <1>2. CASE UserTouch \/ Timer0Fire
    BY <1>2, EventTypes, DeliverKeepsTokens DEF UserTouch, Timer0Fire, KernelStep
  <1>3. CASE Timer1Fire
    BY <1>3, Timer1FireKeepsTokens
  <1>4. CASE Recv
    BY <1>4, RecvKeepsTokens
  <1>5. CASE QuietStep
    BY <1>5, QuietStepKeepsTokens
  <1>6. CASE ProduceTouch
    BY <1>6 DEF ProduceTouch, turn_on_temp_high_timer, BoostEndPending, Running, Ended
  <1>7. CASE LoopExit \/ RecvError \/ RecvShutdown \/ HandlerExit
    BY <1>7, StopEnds DEF LoopExit, RecvError, RecvShutdown, HandlerExit, Running
  <1>q. QED
    BY <1>1, <1>2, <1>3, <1>4, <1>5, <1>6, <1>7, EventTypes
       DEF Next, Kernel, Daemon, QuietStep, IgnoredEvent, ForkEvent, ExitEvent, ScreenEvent

\* A step that makes no thread high, takes none out of the foreground process and
\* handles nothing that was pending.
LEMMA QuietHigh ==
  ASSUME HighInv, [FgNext]_fgVars, ~ProduceBackToMid,
         TrackedInv', SystemInv',
         ASSUME NEW p \in alive', importance'[p] = HIGH, ~Pending(p)', Running', ~overrun'
         PROVE  /\ p \in alive /\ importance[p] = HIGH /\ ~Pending(p)
                /\ group[p] = curActivityPid => group'[p] = curActivityPid'
  PROVE  HighInv'
  <1>1. SUFFICES ASSUME Running', ~overrun' PROVE HighsAreBoosted'
    BY DEF HighInv
  <1>2. Running /\ ~overrun /\ (BoostEndPending => BoostEndPending')
    BY <1>1, FgStepIsStep, BoostEndKept DEF HighInv, TrackedInv, FgTypeOK
  <1>q. QED
    BY <1>1, <1>2 DEF HighInv, HighsAreBoosted

\* What keeps events pending: all but the handlers of forks and exits.
LEMMA PendingKept ==
  ASSUME FgTypeOK, FgTypeOK', [FgNext]_fgVars, ~ProduceFork, ~ProduceExit, Running'
  PROVE  \A p : Pending(p) => Pending(p)'
  <1>0. TypeOK /\ TypeOK' /\ [Next]_vars
    BY FgStepIsStep DEF FgTypeOK
  <1>1. ASSUME NEW e \in Event, KernelStep, Deliver(e)
        PROVE  \A p : Pending(p) => Pending(p)'
    BY <1>0, <1>1, KernelPending
  <1>2. CASE Kernel
    <2>1. CASE Sigint
      BY <2>1 DEF Sigint, Pending, About, InProduce
    <2>2. CASE RecvShutdown
      BY <2>2, StopEnds DEF RecvShutdown, Running
    <2>q. QED
      BY <1>1, <1>2, <2>1, <2>2, EventTypes
         DEF Kernel, IgnoredEvent, ForkEvent, ExitEvent, ScreenEvent, ProcEvent,
             UserTouch, Timer0Fire, Timer1Fire
  <1>3. CASE Recv
    BY <1>0, <1>3, RecvPending
  <1>4. CASE ProduceSample \/ ProduceBackToMid \/ ProduceTouch
    BY <1>4 DEF ProduceSample, ProduceBackToMid, ProduceTouch, Pending, About, InProduce, Concerns
  <1>5. CASE LoopTest \/ ActSample \/ ActOther
    BY <1>5 DEF LoopTest, ActSample, ActOther, Pending, About, InProduce
  <1>6. CASE LoopExit \/ RecvError \/ HandlerExit
    BY <1>6, StopEnds DEF LoopExit, RecvError, HandlerExit, Running
  <1>7. CASE UNCHANGED vars
    BY <1>7 DEF vars, Pending, About, InProduce
  <1>8. CASE ProduceProc
    <2>1. pc = "produce" /\ pc' = "act"
      BY <1>8 DEF ProduceProc
    <2>2. ~(ProduceTick0 \/ ProduceScreenOff \/ ProduceMid \/ ProduceBoost)
      BY <1>8 DEF ProduceProc, ProduceTick0, ProduceScreenOff, ProduceMid, ProduceBoost,
                  ProduceSample, ProduceBackToMid, ProduceTouch
    <2>3. ~(ActPrioritize \/ ActExit \/ ActTick0 \/ GiveUp \/ OtherDaemon \/ FgTerminated)
      BY <2>1 DEF ActPrioritize, ActExit, ActTick0, GiveUp, OtherDaemon, FgTerminated, ActOther, ActSample,
                  HandlerExit, Stop, LoopTest, LoopExit, Recv, RecvError, Ended
    <2>4. ~(ScreenSwitch \/ PanelTouch \/ OtherKernel)
      BY <2>1 DEF ScreenSwitch, PanelTouch, OtherKernel, ScreenEvent, ProcEvent, KernelStep, UserTouch,
                  Timer0Fire, Timer1Fire, IgnoredEvent, Sigint, RecvShutdown
    <2>5. \A c, p \in Pid : ~(ThreadCreate(c, p) \/ ProcessFork(c, p) \/ TaskExit(p))
      BY <2>1 DEF ThreadCreate, ProcessFork, TaskExit, ForkEvent, ExitEvent, ProcEvent, KernelStep
    <2>6. ~UNCHANGED fgVars
      BY <2>1 DEF fgVars, vars
    <2>q. QED
      BY <2>2, <2>3, <2>4, <2>5, <2>6 DEF FgNext, FgKernel, FgDaemon
  <1>q. QED
    BY <1>0, <1>2, <1>3, <1>4, <1>5, <1>6, <1>7, <1>8 DEF Next, Daemon, Terminated

LEMMA HighStep ==
  ASSUME "appfork" \notin Happens
  PROVE  HighInv /\ [FgNext]_fgVars => HighInv'
  <1> SUFFICES ASSUME HighInv, [FgNext]_fgVars PROVE HighInv'
    OBVIOUS
  <1>0. TrackedInv /\ FgTypeOK /\ SystemInv /\ TrackedInv' /\ FgTypeOK' /\ SystemInv'
    BY TrackedStep, SystemStep DEF HighInv, TrackedInv
  <1>p. ~ProduceFork /\ ~ProduceExit /\ Running' => \A p : Pending(p) => Pending(p)'
    BY <1>0, PendingKept
  <1> DEFINE Kept == alive' \subseteq alive /\ UNCHANGED <<importance, curActivityPid>>
                     /\ \A p \in alive' : group'[p] = group[p]
  <1>k. ASSUME Kept, ~ProduceBackToMid, ~ProduceFork, ~ProduceExit
        PROVE  HighInv'
    BY <1>0, <1>k, <1>p, QuietHigh
  <1>1. CASE UNCHANGED fgVars
    <2>1. Kept /\ UNCHANGED pc
      BY <1>1 DEF fgVars, vars, tasks, daemon, table, polling
    <2>q. QED
      BY <2>1, <1>k DEF ProduceBackToMid, ProduceFork, ProduceExit, ProduceProc
  <1>2. ASSUME NEW c \in Pid, NEW m \in Pid, ThreadCreate(c, m) \/ ProcessFork(c, m)
        PROVE  HighInv'
    <2>1. PICK e \in Event : Concerns(e, c) /\ ProcEvent(e)
      <3>1. PICK x \in Pid : ForkEvent(c, x)
        BY <1>0, <1>2, StartEvent
      <3>2. Fork(c, x) \in Event /\ Concerns(Fork(c, x), c)
        BY EventTypes DEF Fork, Concerns
      <3>q. QED
        BY <3>1, <3>2 DEF ForkEvent
    <2>2. KernelStep /\ Deliver(e) /\ UNCHANGED pc
      BY <2>1 DEF ProcEvent, KernelStep
    <2>3. ~overrun' => Pending(c)'
      BY <1>0, <2>1, <2>2, KernelPending DEF FgTypeOK
    <2>4. ~ProduceBackToMid /\ ~ProduceFork /\ ~ProduceExit
      BY <2>2 DEF ProduceBackToMid, ProduceFork, ProduceExit, ProduceProc
    <2>5. /\ alive' = alive \cup {c} /\ UNCHANGED <<importance, curActivityPid>>
          /\ \A q \in Pid \ {c} : group'[q] = group[q]
      BY <1>0, <1>2 DEF ThreadCreate, ProcessFork, StartTask, FgTypeOK, daemon, table, polling
    <2>6. ASSUME NEW p \in alive', importance'[p] = HIGH, ~Pending(p)', Running', ~overrun'
          PROVE  /\ p \in alive /\ importance[p] = HIGH /\ ~Pending(p)
                 /\ group[p] = curActivityPid => group'[p] = curActivityPid'
      BY <1>0, <1>p, <2>3, <2>4, <2>5, <2>6 DEF FgTypeOK
    <2>q. QED
      BY <1>0, <2>4, <2>6, QuietHigh
  <1>3. ASSUME NEW q \in Pid, TaskExit(q)
        PROVE  HighInv'
    <2>1. Kept
      BY <1>0, <1>3 DEF TaskExit, FgTypeOK, daemon, table, polling
    <2>2. UNCHANGED pc
      BY <1>3 DEF TaskExit, ExitEvent, ProcEvent, KernelStep
    <2>q. QED
      BY <2>1, <2>2, <1>k DEF ProduceBackToMid, ProduceFork, ProduceExit, ProduceProc
  <1>4. CASE ScreenSwitch \/ PanelTouch \/ OtherKernel
    <2>1. Kept
      BY <1>4 DEF ScreenSwitch, PanelTouch, OtherKernel, tasks, daemon, table, polling
    <2>2. pc' # "act" \/ UNCHANGED pc
      BY <1>4 DEF ScreenSwitch, PanelTouch, OtherKernel, ScreenEvent, ProcEvent, KernelStep, UserTouch,
                  Timer0Fire, Timer1Fire, IgnoredEvent, Sigint, RecvShutdown, Stop
    <2>q. QED
      BY <2>1, <2>2, <1>k DEF ProduceBackToMid, ProduceFork, ProduceExit, ProduceProc
  <1>5. CASE ActPrioritize \/ ActExit \/ ActTick0 \/ GiveUp \/ OtherDaemon
    <2>1. Kept
      BY <1>5 DEF ActPrioritize, ActExit, ActTick0, GiveUp, OtherDaemon, tasks, daemon, table, polling
    <2>2. pc' # "act"
      BY <1>5 DEF ActPrioritize, ActExit, ActTick0, GiveUp, OtherDaemon, ActOther, ActSample,
                  HandlerExit, Stop, LoopTest, LoopExit, Recv, RecvError
    <2>q. QED
      BY <2>1, <2>2, <1>k DEF ProduceBackToMid, ProduceFork, ProduceExit, ProduceProc
  <1>6. CASE ProduceFork \/ ProduceExit
    <2>1. /\ pc = "produce" /\ ev \in Event /\ ev.what \in {"fork", "exit"} /\ ev.pid \in Pid
          /\ UNCHANGED <<queue, alive, group, curActivityPid>>
      BY <1>0, <1>6, ForkPids DEF ProduceFork, ProduceExit, ProduceProc, tasks, polling, FgTypeOK, TypeOK
    <2>2. ASSUME NEW p \in alive', importance'[p] = HIGH, ~Pending(p)'
          PROVE  /\ p \in alive /\ importance[p] = HIGH /\ ~Pending(p)
                 /\ group[p] = curActivityPid => group'[p] = curActivityPid'
      <3>1. p \in Pid /\ p \in alive /\ group'[p] = group[p] /\ ~About(p)
        BY <1>0, <2>1, <2>2 DEF FgTypeOK, Pending, About
      <3>2. p # ev.pid
        <4>1. CASE ProduceFork
          <5>1. ev.arg = System
            BY <1>0, <2>1, <4>1 DEF SystemInv, ProduceFork, InHand
          <5>2. importance'[ev.pid] = MID
            BY <1>0, <2>1, <4>1, <5>1 DEF ProduceFork, SystemInv, FgTypeOK
          <5>q. QED
            BY <2>2, <5>2 DEF MID, HIGH
        <4>2. CASE ProduceExit
          BY <1>0, <2>1, <3>1, <4>2 DEF TrackedInv, ExitsAreDead, ProduceExit, InHand
        <4>q. QED
          BY <1>6, <4>1, <4>2
      <3>3. importance'[p] = importance[p]
        BY <1>0, <1>6, <3>1, <3>2 DEF ProduceFork, initialize_thread, destroy_thread, ProduceExit, FgTypeOK
      <3>q. QED
        BY <2>1, <2>2, <3>1, <3>2, <3>3 DEF Pending, InProduce, Concerns
    <2>3. ~ProduceBackToMid
      BY <2>1 DEF ProduceBackToMid
    <2>q. QED
      BY <1>0, <2>2, <2>3, QuietHigh
  <1>7. CASE ProduceTick0 \/ ProduceScreenOff
    <2>1. ProduceSample /\ UNCHANGED <<alive, group>>
      BY <1>7 DEF ProduceTick0, ProduceScreenOff, tasks
    <2>2. ~ProduceBackToMid /\ ~ProduceFork /\ ~ProduceExit
      BY <2>1 DEF ProduceSample, ProduceBackToMid, ProduceFork, ProduceExit
    <2>3. \A p \in alive : importance'[p] = HIGH
            => importance[p] = HIGH /\ (group[p] = curActivityPid => curActivityPid' = curActivityPid)
      <3>1. CASE ProduceTick0
        <4>1. importance \in Importances /\ importance[System] = MID
          BY <1>0 DEF FgTypeOK, Importances, SystemInv
        <4>q. QED
          BY <1>0, <3>1, <4>1, SamplePartHigh DEF ProduceTick0
      <3>2. CASE ProduceScreenOff
        <4>1. \A p \in alive : importance'[p] = HIGH
                => /\ Assign(importance, CurActivityThrs, LOW)[p] = HIGH
                   /\ group[p] = curActivityPid => curActivityPid' = curActivityPid
          BY <1>0, <3>2, LowFromHigh, SamplePartHigh DEF ProduceScreenOff
        <4>q. QED
          BY <1>0, <4>1, LowFromHigh DEF FgTypeOK
      <3>q. QED
        BY <1>7, <3>1, <3>2
    <2>4. ASSUME NEW p \in alive', importance'[p] = HIGH, ~Pending(p)', Running', ~overrun'
          PROVE  /\ p \in alive /\ importance[p] = HIGH /\ ~Pending(p)
                 /\ group[p] = curActivityPid => group'[p] = curActivityPid'
      BY <1>p, <2>1, <2>2, <2>3, <2>4
    <2>q. QED
      BY <1>0, <2>2, <2>4, QuietHigh
  <1>8. CASE ProduceMid \/ ProduceBoost
    <2>1. /\ ProduceBackToMid \/ ProduceTouch
          /\ UNCHANGED <<alive, group, curActivityPid>>
      BY <1>8 DEF ProduceMid, ProduceBoost, tasks, polling
    <2>2. /\ pc = "produce" /\ ev.what \notin {"fork", "exit"} /\ UNCHANGED <<overrun, ev>>
      BY <2>1 DEF ProduceBackToMid, ProduceTouch
    <2>3. \A p : Pending(p) => Pending(p)'
      <3>1. Running' /\ ~ProduceFork /\ ~ProduceExit
        BY <2>1, <2>2 DEF ProduceBackToMid, ProduceTouch, ProduceFork, ProduceExit, Running, Ended
      <3>q. QED
        BY <3>1, <1>p
    <2>4. Running
      BY <2>2 DEF Running, Ended
    <2>5. ASSUME ~overrun', NEW p \in alive', importance'[p] = HIGH, ~Pending(p)'
          PROVE  group'[p] = curActivityPid' /\ BoostEndPending'
      <3>1. p \in alive /\ p \in Pid /\ ~Pending(p) /\ HighsAreBoosted
        BY <1>0, <2>1, <2>2, <2>3, <2>4, <2>5 DEF HighInv, FgTypeOK
      <3>2. CASE ProduceMid
        BY <2>5, <3>1, <3>2
           DEF ProduceMid, Assign, HighsAreBoosted, CurActivityThrs, ThreadGroup, MID, HIGH
      <3>3. CASE ProduceBoost
        <4>1. timer1'
          BY <3>3 DEF ProduceBoost, ProduceTouch, turn_on_temp_high_timer
        <4>2. group[p] = curActivityPid
          BY <2>5, <3>1, <3>3
             DEF ProduceBoost, Assign, HighsAreBoosted, CurActivityThrs, ThreadGroup
        <4>q. QED
          BY <2>1, <4>1, <4>2 DEF BoostEndPending
      <3>q. QED
        BY <1>8, <3>2, <3>3
    <2>q. QED
      BY <1>0, <2>5 DEF HighInv, HighsAreBoosted
  <1>9. CASE FgTerminated
    BY <1>1, <1>9 DEF FgTerminated
  <1>q. QED
    BY <1>1, <1>2, <1>3, <1>4, <1>5, <1>6, <1>7, <1>8, <1>9 DEF FgNext, FgKernel, FgDaemon

\* "foreground threads that temporarily become high" (timer.c:139): as long as apps
\* fork no processes of their own, whatever the order of touches, screen events,
\* polls, forks and exits, a live thread is high only as a thread of the foreground
\* process and with the tick that takes it back on the way.
THEOREM HighIsTemporaryAlways ==
  ASSUME "appfork" \notin Happens
  PROVE  FgSpec => []HighIsTemporary
  <1>1. FgInit => HighInv
    <2>1. SUFFICES ASSUME FgInit PROVE HighsAreBoosted
      BY TrackedInit, SystemInit DEF HighInv
    <2>2. \A p \in alive : importance[p] # HIGH
      BY <2>1, FgInitImportance, FgTypeInit DEF FgTypeOK, UNKNOWN, LOW, MID, HIGH
    <2>q. QED
      BY <2>2 DEF HighsAreBoosted
  <1>2. HighInv => HighIsTemporary
    BY DEF HighInv, HighIsTemporary, HighsAreBoosted, Settled, UpToDate, Pending, InProduce, Running, Ended
  <1>q. QED
    BY <1>1, <1>2, HighStep, PTL DEF FgSpec

-----------------------------------------------------------------------------
(* The foreground is not starved, and nice values follow the importance. *)

\* What the two properties say of a thread with nothing pending, at every point of
\* the loop: after produce_importance a thread may still wait in the vector.
NotStarved(p)     == agingIsOn /\ p \in CurActivityThrs => importance[p] # LOW
AwaitsPriority(p) == /\ pc = "act" /\ ev # Tick(0) /\ ev.what # "exit"
                     /\ p \in importanceChangeThrVec
NiceFollows(p)    == nice[p] # "default"
                       => nice[p] = NiceOf(importance[p]) \/ AgedOnly(p) \/ AwaitsPriority(p)

\* The two go together: aging raises low threads without prioritizing them, which
\* is excused in the background only, so it matters that the foreground is not low.
NiceInv ==
  /\ TrackedInv /\ SystemInv
  /\ agingIsOn => TurnOnAging
  /\ Running /\ ~overrun => \A p \in alive : ~Pending(p) => NotStarved(p) /\ NiceFollows(p)

\* A daemon that runs with nothing dropped did so before.
LEMMA RunningBefore ==
  ASSUME TypeOK, [Next]_vars, Running', ~overrun'
  PROVE  Running /\ ~overrun
  <1>1. ASSUME NEW e \in Event, Deliver(e), KernelStep
        PROVE  Running /\ ~overrun
    BY <1>1, DeliverEffect DEF KernelStep
  <1>2. CASE Kernel
    <2>1. CASE Sigint
      BY <2>1 DEF Sigint
    <2>2. CASE RecvShutdown
      BY <2>2, StopEnds DEF RecvShutdown, Running
    <2>q. QED
      BY <1>1, <1>2, <2>1, <2>2, EventTypes
         DEF Kernel, IgnoredEvent, ForkEvent, ExitEvent, ScreenEvent, ProcEvent,
             UserTouch, Timer0Fire, Timer1Fire
  <1>3. CASE Daemon
    <2>1. overrun' = overrun /\ Running
      BY <1>3 DEF Daemon, LoopTest, LoopExit, Recv, RecvError, ProduceProc, ProduceSample, ProduceBackToMid,
                  ProduceTouch, ActSample, ActOther, HandlerExit, Stop, Running, Ended
    <2>q. QED
      BY <2>1
  <1>4. CASE UNCHANGED vars
    BY <1>4 DEF vars, Running, Ended
  <1>q. QED
    BY <1>2, <1>3, <1>4 DEF Next, Terminated

LEMMA NiceOfLow == NiceOf(LOW) = "low"
  BY DEF NiceOf, LOW, MID, HIGH

\* A step that changes nothing about the thread p.
LEMMA SameNice ==
  ASSUME NEW p \in alive, p \in alive', NotStarved(p), NiceFollows(p),
         group'[p] = group[p], nice'[p] = nice[p], importance'[p] = importance[p],
         UNCHANGED <<curActivityPid, agingIsOn>>,
         AwaitsPriority(p) => AwaitsPriority(p)'
  PROVE  NotStarved(p)' /\ NiceFollows(p)'
  BY DEF NotStarved, NiceFollows, AgedOnly, CurActivityThrs, ThreadGroup

\* What remains to be shown of a step.
LEMMA NiceFromThreads ==
  ASSUME NiceInv, [FgNext]_fgVars, "appfork" \notin Happens, agingIsOn' => TurnOnAging,
         ASSUME Running, ~overrun, Running', ~overrun',
                \A p \in alive : ~Pending(p) => NotStarved(p) /\ NiceFollows(p),
                NEW p \in alive', p \in Pid, ~Pending(p)'
         PROVE  NotStarved(p)' /\ NiceFollows(p)'
  PROVE  NiceInv'
  <1>1. TrackedInv' /\ SystemInv' /\ FgTypeOK' /\ TypeOK /\ [Next]_vars
    BY TrackedStep, SystemStep, FgStepIsStep DEF NiceInv, TrackedInv, FgTypeOK
  <1>2. Running' /\ ~overrun' => Running /\ ~overrun
    BY <1>1, RunningBefore
  <1>q. QED
    BY <1>1, <1>2 DEF NiceInv, FgTypeOK

\* The sampling part: what it does to the thread p.
LEMMA SamplePartNice ==
  ASSUME FgTypeOK, SystemInv, NEW imp \in Importances, NEW changed \in SUBSET Pid, NEW ages \in BOOLEAN,
         SamplePart(imp, changed, ages), UNCHANGED <<alive, group>>,
         ages => TurnOnAging,
         NEW p \in alive, ages /\ p \in CurActivityThrs => imp[p] # LOW
  PROVE  /\ ages /\ p \in CurActivityThrs' => importance'[p] # LOW
         /\ p \in changed => p \in importanceChangeThrVec'
         /\ \/ nice'[p] = NiceOf(importance'[p]) \/ AgedOnly(p)'
            \/ /\ nice'[p] = nice[p]
               /\ p \in CurActivityThrs' <=> p \in CurActivityThrs
               /\ \/ importance'[p] = imp[p]
                  \/ ages /\ imp[p] = LOW /\ importance'[p] = MID /\ p \notin CurActivityThrs
  <1>1. PICK top \in TopActivity \cup {-1} : SampledWith(top, imp, changed, ages)
    BY SamplePartEffect
  <1> DEFINE polled == Polled(imp, top)
  <1>2. p \in Pid /\ polled \in Importances
    BY AssignTypes DEF FgTypeOK, Polled, UNKNOWN, LOW, MID, HIGH
  <1>3. /\ importance'[p] = polled[p] \/ (ages /\ polled[p] = LOW /\ importance'[p] = MID)
    <2>1. CASE ages
      <3>1. Age(polled) = Assign(Assign(polled, {}, LOW), AgingTurn(polled), MID)
        BY DEF Age, SystemInv
      <3>2. p \in AgingTurn(polled) => polled[p] = LOW
        BY DEF AgingTurn, AgingCandidate
      <3>3. importance' = Age(polled)
        BY <1>1, <2>1 DEF SampledWith, Final
      <3>q. QED
        BY <1>2, <2>1, <3>1, <3>2, <3>3 DEF Assign
    <2>2. CASE ~ages
      BY <1>1, <2>2 DEF SampledWith, Final
    <2>q. QED
      BY <2>1, <2>2
  <1>4. p \in changed => p \in importanceChangeThrVec'
    BY <1>1 DEF SampledWith
  <1>5. CASE p \in becomeFGThrVec(top)
    <2>1. polled[p] = MID /\ p \in Moved(top)
      BY <1>2, <1>5 DEF Polled, Assign, Moved
    <2>2. importance'[p] = MID
      BY <1>3, <2>1 DEF LOW, MID
    <2>3. nice'[p] = NiceOf(polled[p])
      BY <1>1, <1>2, <2>1 DEF SampledWith, Prioritize
    <2>q. QED
      BY <1>4, <2>1, <2>2, <2>3 DEF LOW, MID
  <1>6. CASE p \in becomeBGThrVec(top) /\ p \notin becomeFGThrVec(top)
    <2>1. polled[p] = LOW /\ p \in Moved(top)
      BY <1>2, <1>6 DEF Polled, Assign, Moved
    <2>2. nice'[p] = "low"
      <3>1. nice'[p] = NiceOf(polled[p])
        BY <1>1, <1>2, <2>1 DEF SampledWith, Prioritize
      <3>q. QED
        BY <2>1, <3>1, NiceOfLow
    <2>3. p \notin CurActivityThrs'
      BY <1>1, <1>6 DEF SampledWith, becomeBGThrVec, becomeFGThrVec, CurActivityThrs, ThreadGroup
    <2>4. nice'[p] = NiceOf(importance'[p]) \/ AgedOnly(p)'
      BY <1>3, <2>1, <2>2, <2>3, NiceOfLow DEF AgedOnly
    <2>q. QED
      BY <1>4, <2>3, <2>4
  <1>7. CASE p \notin Moved(top)
    <2>1. polled[p] = imp[p]
      BY <1>2, <1>7 DEF Polled, Assign, Moved
    <2>2. p \in CurActivityThrs' <=> p \in CurActivityThrs
      BY <1>1, <1>7 DEF SampledWith, Moved, becomeBGThrVec, becomeFGThrVec, CurActivityThrs, ThreadGroup
    <2>3. ages /\ p \in CurActivityThrs => imp[p] # LOW
      OBVIOUS
    <2>4. ages /\ p \in CurActivityThrs' => importance'[p] # LOW
      BY <1>3, <2>1, <2>2, <2>3
    <2>5. CASE nice'[p] = nice[p]
      BY <1>3, <1>4, <2>1, <2>2, <2>3, <2>4, <2>5
    <2>6. CASE nice'[p] # nice[p]
      <3>1. Moved(top) # {} /\ nice'[p] = NiceOf(polled[p]) /\ p \in changed
        BY <1>1, <1>2, <1>7, <2>6 DEF SampledWith, Prioritize
      <3>2. CASE importance'[p] = polled[p]
        BY <1>4, <2>4, <3>1, <3>2
      <3>3. CASE ages /\ polled[p] = LOW /\ importance'[p] = MID
        <4>1. nice'[p] = "low" /\ p \notin CurActivityThrs'
          BY <2>1, <2>2, <2>3, <3>1, <3>3, NiceOfLow
        <4>q. QED
          BY <1>4, <2>4, <3>3, <4>1 DEF AgedOnly
      <3>q. QED
        BY <1>3, <3>2, <3>3
    <2>q. QED
      BY <2>5, <2>6
  <1>q. QED
    BY <1>5, <1>6, <1>7 DEF Moved

LEMMA NiceStep ==
  ASSUME "appfork" \notin Happens
  PROVE  NiceInv /\ [FgNext]_fgVars => NiceInv'
  <1> SUFFICES ASSUME NiceInv, [FgNext]_fgVars PROVE NiceInv'
    OBVIOUS
  <1>0. TrackedInv /\ FgTypeOK /\ TypeOK /\ SystemInv /\ FgTypeOK' /\ TypeOK'
    BY FgTypeStep DEF NiceInv, TrackedInv, FgTypeOK
  <1> DEFINE Before == /\ Running /\ ~overrun /\ Running' /\ ~overrun'
                       /\ \A p \in alive : ~Pending(p) => NotStarved(p) /\ NiceFollows(p)
             After(p) == NotStarved(p)' /\ NiceFollows(p)'
             Quiet == UNCHANGED <<importance, curActivityPid, agingIsOn>>
  <1>p. ~ProduceFork /\ ~ProduceExit /\ Running' => \A p : Pending(p) => Pending(p)'
    BY <1>0, PendingKept
  \* A step that changes no importance and no nice value, and prioritizes nobody.
  <1>k. ASSUME Quiet, alive' \subseteq alive, ~ProduceFork, ~ProduceExit,
               \A p \in alive' : group'[p] = group[p] /\ nice'[p] = nice[p],
               ASSUME Running', NEW p \in Pid, AwaitsPriority(p) PROVE AwaitsPriority(p)'
        PROVE  NiceInv'
    <2>1. ASSUME Before, NEW p \in alive', p \in Pid, ~Pending(p)'
          PROVE  After(p)
      <3>1. p \in alive /\ NotStarved(p) /\ NiceFollows(p)
        BY <1>k, <1>p, <2>1
      <3>q. QED
        BY <1>k, <2>1, <3>1, SameNice
    <2>2. agingIsOn' => TurnOnAging
      BY <1>k DEF NiceInv
    <2>q. QED
      BY <2>1, <2>2, NiceFromThreads
  <1>1. CASE UNCHANGED fgVars
    <2>1. Quiet /\ UNCHANGED <<alive, group, nice, importanceChangeThrVec, pc, ev>>
      BY <1>1 DEF fgVars, vars, tasks, daemon, table, polling, aging
    <2>2. ~ProduceFork /\ ~ProduceExit
      BY <2>1 DEF ProduceFork, ProduceExit, ProduceProc
    <2>q. QED
      BY <1>k, <2>1, <2>2 DEF AwaitsPriority
  <1>2. ASSUME NEW c \in Pid, NEW m \in Pid, ThreadCreate(c, m) \/ ProcessFork(c, m)
        PROVE  NiceInv'
    <2>1. PICK e \in Event : Concerns(e, c) /\ ProcEvent(e)
      <3>1. PICK x \in Pid : ForkEvent(c, x)
        BY <1>0, <1>2, StartEvent
      <3>2. Fork(c, x) \in Event /\ Concerns(Fork(c, x), c)
        BY EventTypes DEF Fork, Concerns
      <3>q. QED
        BY <3>1, <3>2 DEF ForkEvent
    <2>2. KernelStep /\ Deliver(e) /\ UNCHANGED <<pc, ev>>
      BY <2>1 DEF ProcEvent, KernelStep
    <2>3. ~overrun' => Pending(c)'
      BY <1>0, <2>1, <2>2, KernelPending
    <2>4. ~ProduceFork /\ ~ProduceExit
      BY <2>2 DEF ProduceFork, ProduceExit, ProduceProc
    <2>5. /\ alive' = alive \cup {c} /\ Quiet /\ UNCHANGED importanceChangeThrVec
          /\ \A q \in Pid \ {c} : group'[q] = group[q] /\ nice'[q] = nice[q]
      BY <1>0, <1>2 DEF ThreadCreate, ProcessFork, StartTask, FgTypeOK, daemon, table, polling, aging
    <2>6. ASSUME Before, NEW p \in alive', p \in Pid, ~Pending(p)'
          PROVE  After(p)
      <3>1. p # c /\ p \in alive /\ NotStarved(p) /\ NiceFollows(p)
        BY <1>p, <2>3, <2>4, <2>5, <2>6
      <3>2. AwaitsPriority(p) => AwaitsPriority(p)'
        BY <2>2, <2>5 DEF AwaitsPriority
      <3>q. QED
        BY <2>5, <2>6, <3>1, <3>2, SameNice
    <2>7. agingIsOn' => TurnOnAging
      BY <2>5 DEF NiceInv
    <2>q. QED
      BY <2>6, <2>7, NiceFromThreads
  <1>3. ASSUME NEW q \in Pid, TaskExit(q)
        PROVE  NiceInv'
    <2>1. /\ alive' \subseteq alive /\ Quiet /\ UNCHANGED <<importanceChangeThrVec, pc, ev>>
          /\ \A p \in alive' : group'[p] = group[p] /\ nice'[p] = nice[p]
      BY <1>0, <1>3 DEF TaskExit, FgTypeOK, ExitEvent, ProcEvent, KernelStep, daemon, table, polling, aging
    <2>2. ~ProduceFork /\ ~ProduceExit
      BY <2>1 DEF ProduceFork, ProduceExit, ProduceProc
    <2>q. QED
      BY <1>k, <2>1, <2>2 DEF AwaitsPriority
  <1>4. CASE ScreenSwitch \/ PanelTouch \/ OtherKernel
    <2>1. Quiet /\ UNCHANGED <<alive, group, nice, importanceChangeThrVec>>
      BY <1>4 DEF ScreenSwitch, PanelTouch, OtherKernel, tasks, daemon, table, polling, aging
    <2>2. /\ pc' # "act" \/ UNCHANGED pc
          /\ pc = "act" /\ Running' => pc' = "act" /\ ev' = ev
      BY <1>4 DEF ScreenSwitch, PanelTouch, OtherKernel, ScreenEvent, ProcEvent, KernelStep, UserTouch,
                  Timer0Fire, Timer1Fire, IgnoredEvent, Sigint, RecvShutdown, Stop
    <2>3. ~ProduceFork /\ ~ProduceExit
      BY <2>2 DEF ProduceFork, ProduceExit, ProduceProc
    <2>q. QED
      BY <1>k, <2>1, <2>2, <2>3 DEF AwaitsPriority
  <1>5. CASE ActExit \/ ActTick0 \/ GiveUp \/ OtherDaemon
    <2>1. Quiet /\ UNCHANGED <<alive, group, nice>>
      BY <1>5 DEF ActExit, ActTick0, GiveUp, OtherDaemon, tasks, daemon, table, polling, aging
    <2>2. pc' # "act"
      BY <1>5 DEF ActExit, ActTick0, GiveUp, OtherDaemon, ActOther, ActSample,
                  HandlerExit, Stop, LoopTest, LoopExit, Recv, RecvError
    <2>3. ASSUME Running', NEW p \in Pid PROVE ~AwaitsPriority(p)
      <3>1. CASE ActExit \/ ActTick0
        BY <3>1 DEF ActExit, ActTick0, ActSample, AwaitsPriority
      <3>2. CASE GiveUp \/ LoopExit \/ RecvError
        BY <2>3, <3>2, StopEnds DEF GiveUp, HandlerExit, LoopExit, RecvError, Running
      <3>3. CASE LoopTest \/ Recv
        BY <3>3 DEF LoopTest, Recv, AwaitsPriority
      <3>q. QED
        BY <1>5, <3>1, <3>2, <3>3 DEF OtherDaemon
    <2>4. ~ProduceFork /\ ~ProduceExit
      BY <2>2 DEF ProduceFork, ProduceExit, ProduceProc
    <2>q. QED
      BY <1>k, <2>1, <2>3, <2>4
  <1>6. CASE ActPrioritize
    <2>1. Quiet /\ UNCHANGED <<alive, group>> /\ pc' = "test"
          /\ nice' = Prioritize(nice, importance, importanceChangeThrVec)
      BY <1>6 DEF ActPrioritize, ActOther, tasks, table, polling, aging
    <2>2. ~ProduceFork /\ ~ProduceExit
      BY <2>1 DEF ProduceFork, ProduceExit, ProduceProc
    <2>3. ASSUME Before, NEW p \in alive', p \in Pid, ~Pending(p)'
          PROVE  After(p)
      <3>1. p \in alive /\ NotStarved(p) /\ NiceFollows(p)
        BY <1>p, <2>1, <2>2, <2>3
      <3>2. CASE p \in importanceChangeThrVec
        <4>1. nice'[p] = NiceOf(importance'[p])
          BY <2>1, <2>3, <3>1, <3>2 DEF Prioritize
        <4>q. QED
          BY <2>1, <3>1, <4>1 DEF NotStarved, NiceFollows, CurActivityThrs, ThreadGroup
      <3>3. CASE p \notin importanceChangeThrVec
        <4>1. nice'[p] = nice[p] /\ ~AwaitsPriority(p)
          BY <2>1, <2>3, <3>3 DEF Prioritize, AwaitsPriority
        <4>q. QED
          BY <2>1, <2>3, <3>1, <4>1, SameNice
      <3>q. QED
        BY <3>2, <3>3
    <2>4. agingIsOn' => TurnOnAging
      BY <2>1 DEF NiceInv
    <2>q. QED
      BY <2>3, <2>4, NiceFromThreads
  <1>7. CASE ProduceFork \/ ProduceExit
    <2>1. /\ pc = "produce" /\ pc' = "act" /\ ev \in Event /\ ev.what \in {"fork", "exit"} /\ ev.pid \in Pid
          /\ UNCHANGED <<queue, ev, alive, group, nice, curActivityPid, agingIsOn>>
      BY <1>0, <1>7, ForkPids DEF ProduceFork, ProduceExit, ProduceProc, tasks, polling, aging, FgTypeOK, TypeOK
    <2>2. ASSUME Before, NEW p \in alive', p \in Pid, ~Pending(p)'
          PROVE  After(p)
      <3>1. p \in alive /\ ~About(p)
        BY <2>1, <2>2 DEF Pending, About
      <3>2. CASE p # ev.pid
        <4>1. ~Pending(p) /\ ~AwaitsPriority(p)
          BY <2>1, <3>1, <3>2 DEF Pending, InProduce, Concerns, AwaitsPriority
        <4>2. importance'[p] = importance[p]
          BY <1>0, <1>7, <2>2, <3>2 DEF ProduceFork, ProduceExit, initialize_thread, destroy_thread, FgTypeOK
        <4>q. QED
          BY <2>1, <2>2, <3>1, <4>1, <4>2, SameNice
      <3>3. CASE p = ev.pid
        <4>1. ProduceFork
          BY <1>0, <1>7, <2>1, <3>1, <3>3 DEF TrackedInv, ExitsAreDead, ProduceExit, InHand
        <4>2. ev.arg = System /\ ev.what = "fork"
          BY <1>0, <2>1, <4>1 DEF SystemInv, ProduceFork, InHand
        <4>3. importance'[p] = MID
          BY <1>0, <2>1, <3>3, <4>1, <4>2 DEF ProduceFork, SystemInv, FgTypeOK
        <4>4. AwaitsPriority(p)'
          BY <2>1, <3>3, <4>1, <4>2 DEF ProduceFork, AwaitsPriority, Tick
        <4>q. QED
          BY <4>3, <4>4 DEF NotStarved, NiceFollows, LOW, MID
      <3>q. QED
        BY <3>2, <3>3
    <2>3. agingIsOn' => TurnOnAging
      BY <2>1 DEF NiceInv
    <2>q. QED
      BY <2>2, <2>3, NiceFromThreads
  <1>8. CASE ProduceMid \/ ProduceBoost
    <2>1. /\ pc = "produce" /\ pc' = "act" /\ UNCHANGED <<ev, alive, group, nice, curActivityPid>>
          /\ ev.what # "exit" /\ ev.what # "fork" /\ ev # Tick(0)
          /\ importanceChangeThrVec' = CurActivityThrs
      BY <1>8 DEF ProduceMid, ProduceBoost, ProduceBackToMid, ProduceTouch, tasks, polling, Tick
    <2>2. ~ProduceFork /\ ~ProduceExit
      BY <2>1 DEF ProduceFork, ProduceExit
    <2>3. ASSUME Before, NEW p \in alive', p \in Pid, ~Pending(p)'
          PROVE  After(p)
      <3>1. p \in alive /\ NotStarved(p) /\ NiceFollows(p) /\ ~AwaitsPriority(p)
        BY <1>p, <2>1, <2>2, <2>3 DEF AwaitsPriority
      <3>2. CurActivityThrs' = CurActivityThrs
        BY <2>1 DEF CurActivityThrs, ThreadGroup
      <3>3. CASE p \in CurActivityThrs
        <4>1. importance'[p] \in {MID, HIGH}
          BY <1>8, <2>3, <3>3 DEF ProduceMid, ProduceBoost, Assign
        <4>2. AwaitsPriority(p)'
          BY <2>1, <3>3 DEF AwaitsPriority
        <4>q. QED
          BY <4>1, <4>2 DEF NotStarved, NiceFollows, LOW, MID, HIGH
      <3>4. CASE p \notin CurActivityThrs
        <4>1. importance'[p] = importance[p]
          BY <1>8, <2>3, <3>4 DEF ProduceMid, ProduceBoost, Assign
        <4>q. QED
          BY <2>1, <3>1, <3>2, <3>4, <4>1 DEF NotStarved, NiceFollows, AgedOnly
      <3>q. QED
        BY <3>3, <3>4
    <2>4. agingIsOn' => TurnOnAging
      BY <1>8 DEF ProduceMid, ProduceBoost, NiceInv, aging
    <2>q. QED
      BY <2>3, <2>4, NiceFromThreads
  <1>9. CASE ProduceTick0
    <2>1. /\ SamplePart(importance, {}, agingIsOn) /\ pc = "produce"
          /\ UNCHANGED <<alive, group, agingIsOn>>
      BY <1>9 DEF ProduceTick0, ProduceSample, tasks
    <2>2. ~ProduceFork /\ ~ProduceExit
      BY <1>9 DEF ProduceTick0, ProduceSample, ProduceFork, ProduceExit
    <2>3. ASSUME Before, NEW p \in alive', p \in Pid, ~Pending(p)'
          PROVE  After(p)
      <3>1. p \in alive /\ NotStarved(p) /\ NiceFollows(p) /\ ~AwaitsPriority(p)
        BY <1>p, <2>1, <2>2, <2>3 DEF AwaitsPriority
      <3>2. importance \in Importances /\ agingIsOn \in BOOLEAN /\ (agingIsOn => TurnOnAging)
        BY <1>0 DEF FgTypeOK, Importances, NiceInv
      <3>3. /\ agingIsOn /\ p \in CurActivityThrs' => importance'[p] # LOW
            /\ \/ nice'[p] = NiceOf(importance'[p]) \/ AgedOnly(p)'
               \/ /\ nice'[p] = nice[p]
                  /\ p \in CurActivityThrs' <=> p \in CurActivityThrs
                  /\ \/ importance'[p] = importance[p]
                     \/ agingIsOn /\ importance[p] = LOW /\ importance'[p] = MID /\ p \notin CurActivityThrs
        <4>1. agingIsOn /\ p \in CurActivityThrs => importance[p] # LOW
          BY <3>1 DEF NotStarved
        <4>2. {} \in SUBSET Pid
          OBVIOUS
        <4>3. UNCHANGED <<alive, group>> /\ SamplePart(importance, {}, agingIsOn)
          BY <2>1
        <4>q. QED
          BY <1>0, <3>1, <3>2, <4>1, <4>2, <4>3, SamplePartNice
      <3>4. NotStarved(p)'
        BY <2>1, <3>3 DEF NotStarved
      <3>5. NiceFollows(p)'
        <4>1. CASE nice'[p] = NiceOf(importance'[p]) \/ AgedOnly(p)'
          BY <4>1 DEF NiceFollows
        <4>2. CASE /\ nice'[p] = nice[p] /\ importance'[p] = importance[p]
                   /\ p \in CurActivityThrs' <=> p \in CurActivityThrs
          BY <3>1, <4>2 DEF NiceFollows, AgedOnly
        <4>3. CASE /\ nice'[p] = nice[p] /\ p \notin CurActivityThrs'
                   /\ agingIsOn /\ importance[p] = LOW /\ importance'[p] = MID
          <5>1. nice[p] = "default" \/ nice[p] = "low"
            BY <3>1, <4>3, NiceOfLow DEF NiceFollows, AgedOnly, LOW, MID
          <5>q. QED
            BY <3>2, <4>3, <5>1 DEF NiceFollows, AgedOnly
        <4>q. QED
          BY <3>3, <4>1, <4>2, <4>3
      <3>q. QED
        BY <3>4, <3>5
    <2>4. agingIsOn' => TurnOnAging
      BY <2>1 DEF NiceInv
    <2>q. QED
      BY <2>3, <2>4, NiceFromThreads
  <1>10. CASE ProduceScreenOff
    <2>1. /\ SamplePart(Assign(importance, CurActivityThrs, LOW), CurActivityThrs, FALSE)
          /\ pc = "produce" /\ pc' = "act" /\ ev' = ev /\ ev.what = "screen"
          /\ UNCHANGED <<alive, group>> /\ agingIsOn' = FALSE
      BY <1>10 DEF ProduceScreenOff, ProduceSample, tasks
    <2>2. ~ProduceFork /\ ~ProduceExit
      BY <2>1 DEF ProduceFork, ProduceExit
    <2>3. ASSUME Before, NEW p \in alive', p \in Pid, ~Pending(p)'
          PROVE  After(p)
      <3>1. p \in alive /\ NotStarved(p) /\ NiceFollows(p) /\ ~AwaitsPriority(p)
        BY <1>p, <2>1, <2>2, <2>3 DEF AwaitsPriority
      <3>2. Assign(importance, CurActivityThrs, LOW) \in Importances /\ CurActivityThrs \in SUBSET Pid
        BY <1>0, LowFromHigh DEF CurActivityThrs, ThreadGroup, FgTypeOK
      <3>3. /\ p \in CurActivityThrs => p \in importanceChangeThrVec'
            /\ \/ nice'[p] = NiceOf(importance'[p]) \/ AgedOnly(p)'
               \/ /\ nice'[p] = nice[p]
                  /\ p \in CurActivityThrs' <=> p \in CurActivityThrs
                  /\ importance'[p] = Assign(importance, CurActivityThrs, LOW)[p]
        BY <1>0, <2>1, <3>1, <3>2, SamplePartNice
      <3>4. NotStarved(p)'
        BY <2>1 DEF NotStarved
      <3>5. CASE p \in CurActivityThrs
        <4>1. AwaitsPriority(p)'
          BY <2>1, <3>3, <3>5 DEF AwaitsPriority, Tick
        <4>q. QED
          BY <3>4, <4>1 DEF NiceFollows
      <3>6. CASE p \notin CurActivityThrs
        <4>1. Assign(importance, CurActivityThrs, LOW)[p] = importance[p]
          BY <2>3, <3>6 DEF Assign
        <4>q. QED
          BY <3>1, <3>3, <3>4, <3>6, <4>1 DEF NiceFollows, AgedOnly
      <3>q. QED
        BY <3>5, <3>6
    <2>q. QED
      BY <2>1, <2>3, NiceFromThreads
  <1>11. CASE FgTerminated
    BY <1>1, <1>11 DEF FgTerminated
  <1>q. QED
    BY <1>1, <1>2, <1>3, <1>4, <1>5, <1>6, <1>7, <1>8, <1>9, <1>10, <1>11 DEF FgNext, FgKernel, FgDaemon

LEMMA NiceInit ==
  ASSUME "appfork" \notin Happens
  PROVE  FgInit => NiceInv
  <1> SUFFICES ASSUME FgInit PROVE NiceInv
    OBVIOUS
  <1>1. \A p \in alive : NotStarved(p) /\ NiceFollows(p)
    <2>1. \A p \in alive : nice[p] = "default"
      BY FgTypeInit DEF FgInit, FgTypeOK
    <2>q. QED
      BY <2>1, FgInitImportance DEF NotStarved, NiceFollows
  <1>2. agingIsOn => TurnOnAging
    BY DEF FgInit
  <1>q. QED
    BY <1>1, <1>2, TrackedInit, SystemInit DEF NiceInv

\* Between two events the nice value of an up-to-date live thread is that of its
\* importance, was never set, or is low for a thread of the background that aging
\* raised: no order of touches, screen events, polls, forks and exits leaves a
\* thread with the priority of an importance it no longer has (thread.c:285-319).
THEOREM NiceFollowsImportanceAlways ==
  ASSUME "appfork" \notin Happens
  PROVE  FgSpec => []NiceFollowsImportance
  <1>1. NiceInv => NiceFollowsImportance
    BY DEF NiceInv, NiceFollowsImportance, NiceFollows, AwaitsPriority, Settled, UpToDate,
           Pending, InProduce, Running, Ended
  <1>q. QED
    BY <1>1, NiceInit, NiceStep, PTL DEF FgSpec

-----------------------------------------------------------------------------
(* No handler meets an unknown importance. *)

\* The importance of p is known by the time the first n queued events are handled:
\* it is now, or a fork event of p is in hand or among them.
ForkOf(e, p)      == e.what = "fork" /\ e.pid = p
ForkBy(e, p)      == e.what = "fork" /\ e.arg = p
KnownBefore(n, p) == \/ importance[p] # UNKNOWN
                     \/ pc = "produce" /\ ForkOf(ev, p)
                     \/ \E j \in 1..n : ForkOf(queue[j], p)

\* A fork event never comes ahead of the fork event of the parent it names, and
\* every live thread that may fork is known once the whole queue is handled.
ParentsComeFirst == \A i \in 1..Len(queue), p \in Pid :
                      ForkBy(queue[i], p) => KnownBefore(i - 1, p)
ForkersAreKnown  == "appfork" \in Happens
                      => \A p \in alive : \E n \in 0..Len(queue) : KnownBefore(n, p)

KnownInv ==
  /\ FgTypeOK /\ ParentsInv
  /\ importance[System] # UNKNOWN
  /\ \A p \in Pid : isUsed[p] => importance[p] # UNKNOWN
  /\ pc = "produce" => \A p \in Pid : ForkBy(ev, p) => importance[p] # UNKNOWN
  /\ ImportanceKnown
  /\ Running /\ ~overrun => ParentsComeFirst /\ ForkersAreKnown

\* A delivery that is not dropped goes to the end of the queue.
LEMMA DeliverAppends ==
  ASSUME TypeOK, NEW e \in Event, Deliver(e), ~overrun'
  PROVE  /\ ~overrun /\ Len(queue) \in Nat /\ Len(queue') = Len(queue) + 1
         /\ \A i \in 1..Len(queue) : queue'[i] = queue[i]
         /\ queue'[Len(queue) + 1] = e
  <1>1. queue' = Append(queue, e) /\ ~overrun /\ queue \in Seq(Event)
    BY DEF Deliver, TypeOK
  <1>q. QED
    BY <1>1, AppendElements

\* recv takes the first event, and the others move up.
LEMMA RecvShifts ==
  ASSUME TypeOK, Recv
  PROVE  /\ Len(queue) \in Nat /\ Len(queue) >= 1 /\ Len(queue') = Len(queue) - 1
         /\ ev' = queue[1]
         /\ \A i \in 1..Len(queue) - 1 : queue'[i] = queue[i + 1]
  <1>1. queue \in Seq(Event) /\ queue # <<>> /\ ev' = Head(queue) /\ queue' = Tail(queue)
    BY DEF TypeOK, Recv
  <1>q. QED
    BY <1>1, TailElements

KnownStays == \A p \in Pid : importance[p] # UNKNOWN => importance'[p] # UNKNOWN

\* A step of the daemon that takes no event, or of the kernel that brings none.
LEMMA QuietKnown ==
  ASSUME TypeOK, alive \subseteq Pid, queue' = queue, KnownStays, alive' \subseteq alive,
         ASSUME NEW p \in Pid, pc = "produce", ForkOf(ev, p)
         PROVE  importance'[p] # UNKNOWN \/ (pc' = "produce" /\ ev' = ev),
         ParentsComeFirst, ForkersAreKnown
  PROVE  ParentsComeFirst' /\ ForkersAreKnown'
  <1>1. ASSUME NEW n \in Int, NEW p \in Pid, KnownBefore(n, p)
        PROVE  KnownBefore(n, p)'
    BY <1>1 DEF KnownBefore, KnownStays, ForkOf
  <1>2. Len(queue) \in Nat
    BY DEF TypeOK
  <1>3. ParentsComeFirst'
    BY <1>1, <1>2 DEF ParentsComeFirst
  <1>4. ForkersAreKnown'
    BY <1>1, <1>2 DEF ForkersAreKnown
  <1>q. QED
    BY <1>3, <1>4

\* A delivery: of an event that is no fork, or of a fork whose parent is known by then.
LEMMA DeliverKnown ==
  ASSUME TypeOK, alive \subseteq Pid, NEW e \in Event, Deliver(e), ~overrun',
         UNCHANGED <<importance, pc, ev>>,
         \A p \in alive' : p \in alive \/ ForkOf(e, p),
         \A p \in Pid : ForkBy(e, p) => \E n \in 0..Len(queue) : KnownBefore(n, p),
         ParentsComeFirst, ForkersAreKnown
  PROVE  ParentsComeFirst' /\ ForkersAreKnown'
  <1>1. /\ Len(queue) \in Nat /\ Len(queue') = Len(queue) + 1
        /\ \A i \in 1..Len(queue) : queue'[i] = queue[i]
        /\ queue'[Len(queue) + 1] = e
    BY DeliverAppends
  <1>2. ASSUME NEW n \in Int, NEW m \in Int, n <= m, n <= Len(queue), NEW p, KnownBefore(n, p)
        PROVE  KnownBefore(m, p)'
    BY <1>1, <1>2 DEF KnownBefore, ForkOf
  <1>3. ParentsComeFirst'
    <2>1. SUFFICES ASSUME NEW i \in 1..Len(queue) + 1, NEW p \in Pid, ForkBy(queue'[i], p)
                   PROVE  KnownBefore(i - 1, p)'
      BY <1>1 DEF ParentsComeFirst
    <2>2. CASE i = Len(queue) + 1
      <3>1. PICK n \in 0..Len(queue) : KnownBefore(n, p)
        BY <1>1, <2>1, <2>2
      <3>q. QED
        BY <1>1, <1>2, <2>2, <3>1
    <2>3. CASE i \in 1..Len(queue)
      <3>1. KnownBefore(i - 1, p)
        BY <1>1, <2>1, <2>3 DEF ParentsComeFirst
      <3>q. QED
        BY <1>1, <1>2, <2>3, <3>1
    <2>q. QED
      BY <1>1, <2>2, <2>3
  <1>4. ForkersAreKnown'
    <2>1. SUFFICES ASSUME "appfork" \in Happens, NEW p \in alive'
                   PROVE  \E n \in 0..Len(queue) + 1 : KnownBefore(n, p)'
      BY <1>1 DEF ForkersAreKnown
    <2>2. CASE p \in alive
      <3>1. PICK n \in 0..Len(queue) : KnownBefore(n, p)
        BY <2>1, <2>2 DEF ForkersAreKnown
      <3>2. KnownBefore(n, p)'
        BY <1>1, <3>1 DEF KnownBefore, ForkOf
      <3>q. QED
        BY <1>1, <3>1, <3>2
    <2>3. CASE ForkOf(e, p)
      <3>1. PICK n \in 0..Len(queue) + 1 : n = Len(queue) + 1
        BY <1>1
      <3>2. KnownBefore(n, p)'
        BY <1>1, <2>3, <3>1 DEF KnownBefore
      <3>q. QED
        BY <3>2
    <2>q. QED
      BY <2>1, <2>2, <2>3
  <1>q. QED
    BY <1>3, <1>4

\* recv: what was known before the n-th event is known before it still.
LEMMA RecvKnown ==
  ASSUME TypeOK, Recv, UNCHANGED <<importance, alive>>, ParentsComeFirst, ForkersAreKnown
  PROVE  /\ ParentsComeFirst' /\ ForkersAreKnown'
         /\ \A p \in Pid : ForkBy(ev', p) => importance'[p] # UNKNOWN
  <1>1. /\ Len(queue) \in Nat /\ Len(queue) >= 1 /\ Len(queue') = Len(queue) - 1
        /\ ev' = queue[1]
        /\ \A i \in 1..Len(queue) - 1 : queue'[i] = queue[i + 1]
    BY RecvShifts
  <1>2. pc = "recv" /\ (ev'.what # "ignored" => pc' = "produce")
    BY RecvEffect DEF Recv
  <1>3. ASSUME NEW n \in 1..Len(queue), NEW p, KnownBefore(n, p)
        PROVE  KnownBefore(n - 1, p)'
    <2>1. CASE importance[p] # UNKNOWN
      BY <2>1 DEF KnownBefore
    <2>2. ASSUME NEW j \in 1..n, ForkOf(queue[j], p)
          PROVE  KnownBefore(n - 1, p)'
      <3>1. CASE j = 1
        BY <1>1, <1>2, <2>2, <3>1 DEF KnownBefore, ForkOf
      <3>2. CASE j # 1
        <4>1. j - 1 \in 1..n - 1 /\ queue'[j - 1] = queue[j]
          BY <1>1, <2>2, <3>2
        <4>q. QED
          BY <2>2, <4>1 DEF KnownBefore, ForkOf
      <3>q. QED
        BY <3>1, <3>2
    <2>q. QED
      BY <1>2, <1>3, <2>1, <2>2 DEF KnownBefore
  <1>4. ASSUME NEW p, KnownBefore(0, p)
        PROVE  importance[p] # UNKNOWN
    BY <1>2, <1>4 DEF KnownBefore
  <1>5. ParentsComeFirst'
    <2>1. SUFFICES ASSUME NEW i \in 1..Len(queue) - 1, NEW p \in Pid, ForkBy(queue'[i], p)
                   PROVE  KnownBefore(i - 1, p)'
      BY <1>1 DEF ParentsComeFirst
    <2>2. i + 1 \in 1..Len(queue) /\ ForkBy(queue[i + 1], p) /\ (i + 1) - 1 = i
      BY <1>1, <2>1
    <2>3. KnownBefore(i, p)
      BY <2>2 DEF ParentsComeFirst
    <2>q. QED
      BY <1>1, <1>3, <2>3
  <1>6. ForkersAreKnown'
    <2>1. SUFFICES ASSUME "appfork" \in Happens, NEW p \in alive
                   PROVE  \E n \in 0..Len(queue) - 1 : KnownBefore(n, p)'
      BY <1>1 DEF ForkersAreKnown
    <2>2. PICK n \in 0..Len(queue) : KnownBefore(n, p)
      BY <2>1 DEF ForkersAreKnown
    <2>3. CASE n = 0
      <3>1. KnownBefore(0, p)'
        BY <1>4, <2>2, <2>3 DEF KnownBefore
      <3>q. QED
        BY <1>1, <3>1
    <2>4. CASE n # 0
      <3>1. n - 1 \in 0..Len(queue) - 1 /\ KnownBefore(n - 1, p)'
        BY <1>1, <1>3, <2>2, <2>4
      <3>q. QED
        BY <3>1
    <2>q. QED
      BY <2>3, <2>4
  <1>7. \A p \in Pid : ForkBy(ev', p) => importance'[p] # UNKNOWN
    <2>1. SUFFICES ASSUME NEW p \in Pid, ForkBy(queue[1], p) PROVE importance[p] # UNKNOWN
      BY <1>1
    <2>2. KnownBefore(0, p)
      <3>1. 1 \in 1..Len(queue) /\ 1 - 1 = 0
        BY <1>1
      <3>q. QED
        BY <2>1, <3>1 DEF ParentsComeFirst
    <2>q. QED
      BY <1>4, <2>2
  <1>q. QED
    BY <1>5, <1>6, <1>7

\* The sampling part assigns importances, and forgets none.
LEMMA SamplePartKnown ==
  ASSUME FgTypeOK, NEW imp \in Importances, NEW changed \in SUBSET Pid, NEW ages,
         \A p \in changed : imp[p] # UNKNOWN,
         SamplePart(imp, changed, ages)
  PROVE  /\ \A p \in Pid : imp[p] # UNKNOWN => importance'[p] # UNKNOWN
         /\ \A p \in importanceChangeThrVec' : importance'[p] # UNKNOWN
  <1>1. PICK top \in TopActivity \cup {-1} : SampledWith(top, imp, changed, ages)
    BY SamplePartEffect
  <1> DEFINE polled == Polled(imp, top)
             final  == Final(imp, top, ages)
  <1>2. \A p \in Pid : polled[p] = imp[p] \/ polled[p] \in {LOW, MID}
    BY DEF Polled, Assign
  <1>3. \A p \in Moved(top) \cap Pid : polled[p] \in {LOW, MID}
    BY DEF Polled, Assign, Moved
  <1>4. Moved(top) \subseteq Pid
    BY DEF Moved, becomeBGThrVec, becomeFGThrVec, CurActivityThrs, ThreadGroup, FgTypeOK
  <1>5. \A p \in Pid : final[p] = polled[p] \/ final[p] \in {LOW, MID}
    BY DEF Final, Age, Assign
  <1>6. importance' = final
        /\ importanceChangeThrVec' = changed \cup Moved(top) \cup {p \in Pid : final[p] # polled[p]}
    BY <1>1 DEF SampledWith
  <1>q. QED
    BY <1>2, <1>3, <1>4, <1>5, <1>6 DEF UNKNOWN, LOW, MID

LEMMA KnownStep == KnownInv /\ [FgNext]_fgVars => KnownInv'
  <1> SUFFICES ASSUME KnownInv, [FgNext]_fgVars PROVE KnownInv'
    OBVIOUS
  <1>0. /\ FgTypeOK /\ TypeOK /\ FgTypeOK' /\ TypeOK' /\ [Next]_vars /\ System \in Pid
        /\ ParentsInv /\ ParentsInv'
    BY FgTypeStep, FgStepIsStep, ParentsStep, SystemIsPid DEF KnownInv, FgTypeOK
  <1>r. Running' /\ ~overrun' => Running /\ ~overrun
    BY <1>0, RunningBefore
  <1>a. alive \subseteq Pid
    BY <1>0 DEF FgTypeOK
  <1> DEFINE Data == UNCHANGED <<isUsed, importance, importanceChangeThrVec>>
             UsedKnown == \A p \in Pid : isUsed[p] => importance[p] # UNKNOWN
  \* What remains to be shown of a step that takes nothing from the queue.
  <1>k. ASSUME KnownStays, alive' \subseteq alive, Running' /\ ~overrun' => queue' = queue,
               pc' = "produce" => pc = "produce" /\ ev' = ev,
               ASSUME NEW p \in Pid, pc = "produce", ForkOf(ev, p), Running'
               PROVE  importance'[p] # UNKNOWN \/ (pc' = "produce" /\ ev' = ev),
               ImportanceKnown', \A p \in Pid : isUsed'[p] => isUsed[p] \/ importance'[p] # UNKNOWN
        PROVE  KnownInv'
    <2>1. Running' /\ ~overrun' => ParentsComeFirst' /\ ForkersAreKnown'
      BY <1>0, <1>r, <1>a, <1>k, QuietKnown DEF KnownInv
    <2>2. importance'[System] # UNKNOWN
      BY <1>0, <1>k DEF KnownInv, KnownStays
    <2>3. pc' = "produce" => \A p \in Pid : ForkBy(ev', p) => importance'[p] # UNKNOWN
      BY <1>k DEF KnownInv, KnownStays
    <2>4. UsedKnown'
      BY <1>k DEF KnownInv, KnownStays
    <2>q. QED
      BY <1>0, <1>k, <2>1, <2>2, <2>3, <2>4 DEF KnownInv
  <1>d. ASSUME NEW e \in Event, Deliver(e), UNCHANGED <<pc, ev>>, Data,
               \A p \in alive' : p \in alive \/ ForkOf(e, p),
               ~overrun' => \A p \in Pid : ForkBy(e, p) => \E n \in 0..Len(queue) : KnownBefore(n, p)
        PROVE  KnownInv'
    <2>1. Running' /\ ~overrun' => ParentsComeFirst' /\ ForkersAreKnown'
      BY <1>0, <1>r, <1>a, <1>d, DeliverKnown DEF KnownInv
    <2>q. QED
      BY <1>0, <1>d, <2>1 DEF KnownInv, ImportanceKnown, Known
  <1>1. CASE UNCHANGED fgVars
    <2>1. UNCHANGED <<queue, pc, ev, isUsed, importance, importanceChangeThrVec, alive>>
      BY <1>1 DEF fgVars, vars, tasks, daemon, table
    <2>q. QED
      BY <1>k, <2>1 DEF KnownStays, KnownInv, ImportanceKnown, Known
  <1>2. ASSUME NEW c \in Pid, NEW m \in Pid, ThreadCreate(c, m) \/ ProcessFork(c, m)
        PROVE  KnownInv'
    <2>1. PICK x \in Pid : ForkEvent(c, x) /\ (x = System \/ ("appfork" \in Happens /\ x \in alive))
      <3>1. PICK x \in Pid : /\ ForkEvent(c, x)
                             /\ \/ x = parent[group[m]]
                                \/ x = m /\ m \in alive /\ (m # System => "appfork" \in Happens)
        BY <1>0, <1>2, StartEvent
      <3>2. group[m] \in Pid /\ ParentsInv
        BY <1>0 DEF FgTypeOK
      <3>q. QED
        BY <3>1, <3>2 DEF ParentsInv
    <2>2. Fork(c, x) \in Event /\ ForkOf(Fork(c, x), c) /\ \A p : ForkBy(Fork(c, x), p) <=> p = x
      BY EventTypes DEF Fork, ForkOf, ForkBy
    <2>3. Deliver(Fork(c, x)) /\ UNCHANGED <<pc, ev>> /\ Running
      BY <2>1 DEF ForkEvent, ProcEvent, KernelStep
    <2>4. Data /\ alive' = alive \cup {c}
      BY <1>2 DEF ThreadCreate, ProcessFork, StartTask, daemon, table
    <2>5. ~overrun' => \E n \in 0..Len(queue) : KnownBefore(n, x)
      <3>1. CASE x = System
        <4>1. 0 \in 0..Len(queue) /\ KnownBefore(0, x)
          BY <1>0, <3>1 DEF KnownInv, KnownBefore, TypeOK
        <4>q. QED
          BY <4>1
      <3>2. CASE "appfork" \in Happens /\ x \in alive
        BY <1>0, <2>2, <2>3, <3>2, DeliverEffect DEF KnownInv, ForkersAreKnown
      <3>q. QED
        BY <2>1, <3>1, <3>2
    <2>q. QED
      BY <1>d, <2>2, <2>3, <2>4, <2>5
  <1>3. ASSUME NEW q \in Pid, TaskExit(q)
        PROVE  KnownInv'
    <2>1. Exit(q) \in Event /\ \A p : ~ForkBy(Exit(q), p)
      BY EventTypes DEF Exit, ForkBy
    <2>2. Deliver(Exit(q)) /\ UNCHANGED <<pc, ev>> /\ Data /\ alive' = alive \ {q}
      BY <1>3 DEF TaskExit, ExitEvent, ProcEvent, KernelStep, daemon, table
    <2>q. QED
      BY <1>d, <2>1, <2>2
  <1>4. CASE ScreenSwitch \/ PanelTouch \/ OtherKernel
    <2>1. Data /\ UNCHANGED alive
      BY <1>4 DEF ScreenSwitch, PanelTouch, OtherKernel, tasks, daemon, table
    <2>2. ASSUME NEW e \in Event, e.what \notin {"fork", "exit"}, KernelStep, Deliver(e)
          PROVE  KnownInv'
      BY <1>d, <2>1, <2>2 DEF KernelStep, ForkBy
    <2>3. CASE Sigint
      BY <1>k, <2>1, <2>3 DEF Sigint, KnownStays, KnownInv, ImportanceKnown, Known
    <2>4. CASE ~Running'
      <3>1. pc' # "produce" /\ pc' # "act"
        BY <2>4 DEF Running, Ended
      <3>q. QED
        BY <1>0, <2>1, <2>4, <3>1 DEF KnownInv, ImportanceKnown
    <2>q. QED
      BY <1>4, <2>2, <2>3, <2>4, OtherKernelStep
  <1>5. CASE ProduceFork
    <2>1. /\ pc = "produce" /\ pc' = "act" /\ ev \in Event /\ ev.what = "fork"
          /\ ev.pid \in Pid /\ ev.arg \in Pid /\ UNCHANGED <<queue, alive>>
      BY <1>0, <1>5, ForkPids DEF ProduceFork, ProduceProc, tasks, TypeOK
    <2>2. importance[ev.arg] # UNKNOWN
      BY <2>1 DEF KnownInv, ForkBy
    <2>3. \A p \in Pid : importance'[p] = IF p = ev.pid THEN importance[ev.arg] ELSE importance[p]
      BY <1>0, <1>5, <2>1 DEF ProduceFork, FgTypeOK
    <2>4. KnownStays /\ importance'[ev.pid] # UNKNOWN
      BY <2>1, <2>2, <2>3 DEF KnownStays
    <2>5. ImportanceKnown'
      BY <1>5, <2>4 DEF ProduceFork, ImportanceKnown, Known
    <2>6. \A p \in Pid : isUsed'[p] => isUsed[p] \/ importance'[p] # UNKNOWN
      BY <1>0, <1>5, <2>4 DEF ProduceFork, initialize_thread, FgTypeOK
    <2>q. QED
      BY <1>k, <2>1, <2>4, <2>5, <2>6 DEF ForkOf
  <1>6. CASE ProduceExit \/ ProduceTick0 \/ ProduceScreenOff \/ ProduceMid \/ ProduceBoost
    <2>1. /\ pc' = "act" /\ UNCHANGED <<queue, alive>> /\ \A p : ~ForkOf(ev, p)
      BY <1>6 DEF ProduceExit, ProduceTick0, ProduceScreenOff, ProduceMid, ProduceBoost, ProduceProc,
                  ProduceSample, ProduceBackToMid, ProduceTouch, tasks, ForkOf
    <2>2. importance \in Importances /\ CurActivityThrs \in SUBSET Pid
      BY <1>0 DEF FgTypeOK, Importances, CurActivityThrs, ThreadGroup
    <2>3. /\ \A p \in Pid : importance[p] # UNKNOWN => importance'[p] # UNKNOWN
          /\ \A p \in importanceChangeThrVec' : importance'[p] # UNKNOWN
      <3>1. CASE ProduceExit
        BY <3>1 DEF ProduceExit
      <3>2. CASE ProduceTick0
        <4>1. SamplePart(importance, {}, agingIsOn) /\ {} \in SUBSET Pid
          BY <3>2 DEF ProduceTick0
        <4>q. QED
          BY <1>0, <2>2, <4>1, SamplePartKnown
      <3>3. CASE ProduceScreenOff
        <4>1. SamplePart(Assign(importance, CurActivityThrs, LOW), CurActivityThrs, FALSE)
          BY <3>3 DEF ProduceScreenOff
        <4>2. Assign(importance, CurActivityThrs, LOW) \in Importances
          BY <2>2, AssignTypes DEF UNKNOWN, LOW, HIGH
        <4>3. /\ \A p \in CurActivityThrs : Assign(importance, CurActivityThrs, LOW)[p] # UNKNOWN
              /\ \A p \in Pid : importance[p] # UNKNOWN
                    => Assign(importance, CurActivityThrs, LOW)[p] # UNKNOWN
          BY <2>2 DEF Assign, UNKNOWN, LOW
        <4>4. /\ \A p \in Pid : Assign(importance, CurActivityThrs, LOW)[p] # UNKNOWN
                    => importance'[p] # UNKNOWN
              /\ \A p \in importanceChangeThrVec' : importance'[p] # UNKNOWN
          BY <1>0, <2>2, <4>1, <4>2, <4>3, SamplePartKnown
        <4>q. QED
          BY <4>3, <4>4
      <3>4. CASE ProduceMid \/ ProduceBoost
        BY <2>2, <3>4 DEF ProduceMid, ProduceBoost, Assign, UNKNOWN, MID, HIGH
      <3>q. QED
        BY <1>6, <3>1, <3>2, <3>3, <3>4
    <2>4. ImportanceKnown' /\ KnownStays
      BY <2>3 DEF ImportanceKnown, Known, KnownStays
    <2>5. \A p \in Pid : isUsed'[p] => isUsed[p]
      <3>1. CASE ProduceExit
        BY <1>0, <3>1 DEF ProduceExit, destroy_thread, FgTypeOK
      <3>2. CASE ProduceTick0 \/ ProduceScreenOff \/ ProduceMid \/ ProduceBoost
        BY <3>2 DEF ProduceTick0, ProduceScreenOff, ProduceMid, ProduceBoost
      <3>q. QED
        BY <1>6, <3>1, <3>2
    <2>q. QED
      BY <1>k, <2>1, <2>4, <2>5
  <1>7. CASE ActPrioritize \/ ActExit \/ ActTick0 \/ GiveUp
    <2>1. UNCHANGED <<isUsed, importance, alive, queue>> /\ pc' \notin {"produce", "act"}
      BY <1>7 DEF ActPrioritize, ActExit, ActTick0, GiveUp, ActOther, ActSample, HandlerExit, Stop,
                  tasks, daemon, table
    <2>2. pc = "produce" => ~Running'
      BY <1>7, StopEnds DEF ActPrioritize, ActExit, ActTick0, GiveUp, ActOther, ActSample, HandlerExit, Running
    <2>q. QED
      BY <1>k, <2>1, <2>2 DEF KnownStays, ImportanceKnown
  <1>8. CASE OtherDaemon
    <2>1. UNCHANGED <<isUsed, importance, alive>>
      BY <1>8 DEF OtherDaemon, tasks, daemon, table
    <2>2. CASE LoopTest \/ LoopExit \/ RecvError
      <3>1. queue' = queue /\ pc # "produce" /\ pc' \notin {"produce", "act"}
        BY <2>2 DEF LoopTest, LoopExit, RecvError, Stop
      <3>q. QED
        BY <1>k, <2>1, <3>1 DEF KnownStays, ImportanceKnown
    <2>3. CASE Recv
      <3>1. Running /\ ~overrun /\ pc' # "act"
        BY <2>3 DEF Recv, Running, Ended
      <3>2. /\ ParentsComeFirst' /\ ForkersAreKnown'
            /\ \A p \in Pid : ForkBy(ev', p) => importance'[p] # UNKNOWN
        BY <1>0, <2>1, <2>3, <3>1, RecvKnown DEF KnownInv
      <3>q. QED
        BY <1>0, <2>1, <3>1, <3>2 DEF KnownInv, ImportanceKnown
    <2>q. QED
      BY <1>8, <2>2, <2>3 DEF OtherDaemon
  <1>9. CASE FgTerminated
    BY <1>1, <1>9 DEF FgTerminated
  <1>q. QED
    BY <1>1, <1>2, <1>3, <1>4, <1>5, <1>6, <1>7, <1>8, <1>9 DEF FgNext, FgKernel, FgDaemon

LEMMA KnownInit ==
  ASSUME Untracked = {} \/ "appfork" \notin Happens
  PROVE  FgInit => KnownInv
  <1> SUFFICES ASSUME FgInit PROVE KnownInv
    OBVIOUS
  <1>1. queue = <<>> /\ pc = "test"
    BY DEF FgInit, Init
  <1>2. \A p \in {System} \cup App : importance[p] # UNKNOWN
    BY FgInitImportance DEF UNKNOWN, LOW, MID
  <1>4. \A p \in Pid : isUsed[p] => importance[p] # UNKNOWN
    BY <1>2 DEF FgInit, initialize_threads
  <1>3. ForkersAreKnown
    <2>1. "appfork" \in Happens => alive \subseteq {System} \cup App
      BY DEF FgInit, RunningTasks
    <2>2. 0 \in 0..Len(queue)
      BY <1>1
    <2>q. QED
      BY <1>2, <2>1, <2>2 DEF ForkersAreKnown, KnownBefore
  <1>q. QED
    BY <1>1, <1>2, <1>3, <1>4, FgTypeInit, ParentsInit DEF KnownInv, ImportanceKnown, ParentsComeFirst

\* No handler meets a thread of unknown importance, at which prioritize would end the
\* daemon (thread.c:285-319), whatever forks, exits and is polled to the front while
\* its events are queued: a fork event is never read before that of the parent it
\* names.  Either the listing of /proc (thread.c:74) lacks no task when the daemon
\* subscribes, or no thread of an app forks, so that the connector names no parent that
\* may be missing.
THEOREM ImportanceKnownAlways ==
  ASSUME Untracked = {} \/ "appfork" \notin Happens
  PROVE  FgSpec => []ImportanceKnown
  <1>1. KnownInv => ImportanceKnown
    BY DEF KnownInv
  <1>q. QED
    BY <1>1, KnownInit, KnownStep, PTL DEF FgSpec

-----------------------------------------------------------------------------
(* No foreground thread is left low. *)

\* Aging, polling, screen events and the ends of boosts never leave an up-to-date
\* foreground thread below mid while aging is on (importance.c: produce_importance),
\* but one that started between initialize_activity and the subscription, and that
\* none of them has met, as long as apps fork no processes of their own: a child that
\* the poll finds in front before its fork event is handled takes the importance of its
\* parent in the background.
THEOREM ForegroundNotStarvedAlways ==
  ASSUME "appfork" \notin Happens
  PROVE  FgSpec => []ForegroundNotStarved
  <1>1. NiceInv /\ KnownInv => ForegroundNotStarved
    <2>1. SUFFICES ASSUME NiceInv, KnownInv, Settled, agingIsOn, NEW p \in CurActivityThrs, UpToDate(p)
                   PROVE  importance[p] >= MID \/ (p \in missed /\ importance[p] = UNKNOWN)
      BY DEF ForegroundNotStarved
    <2>2. Running /\ ~overrun /\ p \in alive /\ p \in Pid /\ ~Pending(p)
      BY <2>1 DEF Settled, UpToDate, Pending, InProduce, Running, Ended, KnownInv, FgTypeOK
    <2>3. importance[p] # LOW /\ importance[p] \in UNKNOWN..HIGH
      BY <2>1, <2>2 DEF NiceInv, NotStarved, KnownInv, FgTypeOK
    <2>4. p \notin missed => importance[p] # UNKNOWN
      BY <2>1, <2>2 DEF NiceInv, TrackedInv, TracksAlive, KnownInv
    <2>q. QED
      BY <2>3, <2>4 DEF UNKNOWN, LOW, MID, HIGH
  <1>q. QED
    BY <1>1, NiceInit, NiceStep, KnownInit, KnownStep, PTL DEF FgSpec

=============================================================================
