---------------------------- MODULE Foreground -----------------------------
(***************************************************************************)
(* Importance management (importance.c, activity.c, thread.c): what each   *)
(* event does to the importance of threads and to their nice values, on    *)
(* top of the event loop.  Every action conjoins an action of EventLoop.   *)
(*                                                                         *)
(* The kernel's side is the set of live tasks, their thread groups and     *)
(* nice values.  The daemon's side, threadSet and the foreground pid, is   *)
(* always a little behind: tasks fork and exit while their events are      *)
(* queued, and the foreground is polled every CheckActivityTime samples.   *)
(* What changes between the listing of /proc and the subscription          *)
(* (importance.c:177-189, with a popen in between) it is never told.       *)
(*                                                                         *)
(* Abstractions: core bookkeeping is CorePower's; utilization is only zero *)
(* or not, which is all that aging asks.                                   *)
(***************************************************************************)
EXTENDS EventLoop, FiniteSets

CONSTANTS PidMax,            \* PID_MAX
          App,               \* the app processes listed in /proc, as leaders
          Untracked,         \* tasks the listing may lack at the subscription: further threads
                             \* of a process, and whatever started since it was made
          CheckActivityTime, \* CONFIG_CHECK_ACTIVITY_TIME
          TurnOnAging,       \* CONFIG_TURN_ON_AGING
          Happens            \* bound: which of Occurrences the world brings about

ASSUME PidMaxAssumption == PidMax \in Nat \ {0} /\ Pid = 1..PidMax
ASSUME AppAssumption    == /\ App # {} /\ App \cup Untracked \subseteq Pid \ {1}
                           /\ App \cap Untracked = {}
ASSUME ConfigAssumption == /\ CheckActivityTime \in Nat \ {0}
                           /\ TurnOnAging \in BOOLEAN

\* Threads and processes are made, app threads fork, tasks exit, some of them (early)
\* between the listing and the subscription, the screen is switched and the panel
\* touched; "end" is SIGINT, a socket shutdown and files of /proc or /sys that do not
\* open.  (The events that the loop skips are left to EventLoop.)
Occurrences == {"thread", "process", "appfork", "exit", "early", "screen", "touch", "end"}
ASSUME HappensAssumption == Happens \subseteq Occurrences

\* Pid 1 stands for the system: the parent of apps (zygote), never foreground.
System == 1

\* enum IMPORTANCE_VALUE, with 0 for an entry that was only cleared.
UNKNOWN == 0
LOW     == 1
MID     == 2
HIGH    == 3

VARIABLES alive, group, parent, nice, screenOn,      \* the kernel
          isUsed, importance, ran,                   \* threadSet
          missed,                                    \* history: pids not as they were listed
          curActivityPid, check_activity_counter,    \* activity.c, importance.c
          agingIsOn, lastAgingPid,
          importanceChangeThrVec

tasks   == <<alive, group, parent>>
table   == <<isUsed, importance, ran, missed>>
polling == <<curActivityPid, check_activity_counter>>
aging   == <<agingIsOn, lastAgingPid>>
daemon  == <<table, polling, aging, importanceChangeThrVec>>
fgVars  == <<vars, tasks, nice, screenOn, daemon>>

Nice == {"default", "low", "mid", "high"}

FgTypeOK ==
  /\ TypeOK
  /\ alive \subseteq Pid /\ group \in [Pid -> Pid] /\ parent \in [Pid -> Pid]
  /\ nice \in [Pid -> Nice] /\ missed \subseteq Pid
  /\ screenOn \in BOOLEAN /\ agingIsOn \in BOOLEAN
  /\ isUsed \in [Pid -> BOOLEAN] /\ importance \in [Pid -> UNKNOWN..HIGH]
  /\ ran \subseteq Pid /\ importanceChangeThrVec \subseteq Pid
  /\ curActivityPid \in Pid \cup {-1} /\ lastAgingPid \in Pid
  /\ check_activity_counter \in 0..CheckActivityTime

\* Live threads of the process that pid leads: what /proc/pid/task lists.
ThreadGroup(pid) == {p \in alive : group[p] = pid}
CurActivityThrs  == ThreadGroup(curActivityPid)

\* Every process of /proc is entered: system ones as mid, apps as low.
initialize_threads == isUsed = [p \in Pid |-> p \in {System} \cup App]

\* The processes that dumpsys may name.
Leaders == {p \in Pid \ {System} : group[p] = p}

\* The foreground, if dumpsys names one, is raised: with the threads it had then, so
\* not those that came later, and it may be gone since.
initialize_activity ==
  /\ curActivityPid \in Leaders \cup {-1}
  /\ "early" \notin Happens => curActivityPid \in alive \cup {-1}
  /\ \E raised \in SUBSET {p \in Pid : curActivityPid # -1 /\ group[p] = curActivityPid} :
       /\ curActivityPid \in alive => curActivityPid \in raised
       /\ importance = [p \in Pid |-> IF p = System \/ p \in raised THEN MID
                                      ELSE IF p \in App THEN LOW ELSE UNKNOWN]

\* Who is there at the subscription: some of the listed are gone, others came.  (Pids
\* are handed out in order, so a parent has the smaller one.)
RunningTasks ==
  \E gone \in (IF "early" \in Happens THEN SUBSET App ELSE {{}}), late \in SUBSET Untracked :
    /\ alive = {System} \cup (App \ gone) \cup late
    /\ missed = gone \cup late
    /\ group \in {g \in [Pid -> Pid] : /\ \A p \in Pid \ late : g[p] = p
                                       /\ \A p \in late : g[p] \in alive \ {System}
                                       /\ \A p \in late : g[g[p]] = g[p]}
    /\ parent \in {m \in [Pid -> alive] :
                     \A p \in Pid : m[p] # System => /\ "appfork" \in Happens /\ m[p] < p
                                                     /\ p \in alive /\ group[p] = p}

\* Nothing was prioritized yet.
FgInit ==
  /\ Init
  /\ RunningTasks
  /\ nice = [p \in Pid |-> "default"]
  /\ screenOn = TRUE
  /\ initialize_threads
  /\ initialize_activity
  /\ ran = {}
  /\ check_activity_counter = 0
  /\ agingIsOn = TurnOnAging /\ lastAgingPid = 1
  /\ importanceChangeThrVec = {}

-----------------------------------------------------------------------------
(* Tasks, the user and the kernel. *)

\* The kernel hands out pids in turn, so a pid comes back long after its last
\* event was read.
About(p)     == \E i \in 1..Len(queue) : queue[i].what \in {"fork", "exit"} /\ queue[i].pid = p
InHandOf(p)  == InHand /\ ev.what \in {"fork", "exit"} /\ ev.pid = p
PidFree(p)   == p \notin alive /\ ~About(p) /\ ~InHandOf(p)

\* A task starts with the nice value of the task that made it.
StartTask(c, maker, leader) ==
  /\ PidFree(c)
  /\ alive' = alive \cup {c}
  /\ group' = [group EXCEPT ![c] = leader]
  /\ nice' = [nice EXCEPT ![c] = nice[maker]]
  /\ UNCHANGED <<screenOn, daemon>>

\* For a new thread the connector names the parent of its process, which parent[p]
\* is for its leader p.
ThreadCreate(c, maker) ==
  /\ "thread" \in Happens
  /\ maker \in alive \ {System}
  /\ StartTask(c, maker, group[maker])
  /\ UNCHANGED parent
  /\ ForkEvent(c, parent[group[maker]])

\* The system starts an app, or an app thread forks.
ProcessFork(c, p) ==
  /\ p \in alive
  /\ (IF p = System THEN "process" ELSE "appfork") \in Happens
  /\ StartTask(c, p, c)
  /\ parent' = [parent EXCEPT ![c] = p]
  /\ ForkEvent(c, p)

\* Another thread of its process, or the system, adopts the children of a task.
Adopters(p) == LET others == ThreadGroup(group[p]) \ {p}
               IN  IF others = {} THEN {System} ELSE others

\* A leader goes last.  (The group, parent and nice value of a dead task mean nothing.)
TaskExit(p) ==
  /\ "exit" \in Happens
  /\ p \in alive \ {System}
  /\ group[p] = p => ThreadGroup(p) = {p}
  /\ alive' = alive \ {p}
  /\ group' = [group EXCEPT ![p] = p]
  /\ \E r \in Adopters(p) :
       parent' = [q \in Pid |-> IF q = p THEN System ELSE IF parent[q] = p THEN r ELSE parent[q]]
  /\ nice' = [nice EXCEPT ![p] = "default"]
  /\ ExitEvent(p)
  /\ UNCHANGED <<screenOn, daemon>>

ScreenSwitch ==
  /\ "screen" \in Happens
  /\ screenOn' = ~screenOn
  /\ ScreenEvent(IF screenOn THEN 0 ELSE 1)
  /\ UNCHANGED <<tasks, nice, daemon>>

\* The panel reports no touch while the screen is off.
PanelTouch ==
  /\ "touch" \in Happens
  /\ screenOn /\ UserTouch
  /\ UNCHANGED <<tasks, nice, screenOn, daemon>>

OtherKernel ==
  /\ \/ Timer0Fire \/ Timer1Fire
     \/ "end" \in Happens /\ (Sigint \/ RecvShutdown)
  /\ UNCHANGED <<tasks, nice, screenOn, daemon>>

-----------------------------------------------------------------------------
(* Helpers of the handlers. *)

\* change_importance for every pid of S.
Assign(imp, S, value) == [p \in Pid |-> IF p \in S THEN value ELSE imp[p]]

NiceOf(value) == CASE value = LOW  -> "low"
                   [] value = MID  -> "mid"
                   [] value = HIGH -> "high"

\* prioritize: setpriority fails for a pid that is gone.
Prioritize(nc, imp, S) == [p \in Pid |-> IF p \in S \cap alive THEN NiceOf(imp[p]) ELSE nc[p]]

\* aging: the search goes round from lastAgingPid to the first used, low thread
\* that has run, and stops after it or back at its start.
AgingCandidate(imp) == {p \in Pid \ {lastAgingPid} : isUsed[p] /\ imp[p] = LOW /\ p \in ran}
Distance(p)         == (p - lastAgingPid + PidMax) % PidMax
AgingTurn(imp)      == {p \in AgingCandidate(imp) :
                          \A q \in AgingCandidate(imp) : Distance(p) <= Distance(q)}

\* Mutation of AgingCursor: the search starts over from no pid at all.
AgingCursorZero(turn) == 0

\* Mutation of AgingCursor: the thread that has the turn is remembered, as the
\* search that breaks out of its loop means to.
AgingCursorKept(turn) == IF turn = {} THEN 1 ELSE CHOOSE p \in turn : TRUE

\* The test after the search, pidIterator == lastAgingPid, holds when nothing
\* was found and also when something was, since the search left the two equal.
AgingCursor(turn) == 1

\* The thread that had the turn before gives it back, unless it is a system one.
Age(imp) ==
  LET turn == AgingTurn(imp)
      back == IF turn = {} \/ lastAgingPid = System THEN {} ELSE {lastAgingPid}
  IN  Assign(Assign(imp, back, LOW), turn, MID)

\* What dumpsys may say is on top.
TopActivity == (Leaders \cap alive) \cup {-1}

\* check_activity_change: what a poll that finds top puts in the two vectors.
ActivityChanges(top) == top # -1 /\ top # curActivityPid

\* Mutation of becomeBGThrVec: the old foreground is not looked up.
becomeBGThrVecEmpty(top) == {}

becomeBGThrVec(top)  == IF ActivityChanges(top) THEN CurActivityThrs ELSE {}
becomeFGThrVec(top)  == IF ActivityChanges(top) THEN ThreadGroup(top) ELSE {}
Moved(top)           == becomeBGThrVec(top) \cup becomeFGThrVec(top)
Polled(imp, top)     == Assign(Assign(imp, becomeBGThrVec(top), LOW), becomeFGThrVec(top), MID)

\* The timer-0 part of produce_importance, from the importance imp and the changed pids
\* that the part before it (screen off, or nothing) left: poll the foreground, then age.
SamplePart(imp, changed, ages) ==
  LET due == check_activity_counter + 1 >= CheckActivityTime
  IN  \E top \in (IF due THEN TopActivity ELSE {-1}) :
        LET polled == Polled(imp, top)
            final  == IF ages THEN Age(polled) ELSE polled
        IN  /\ check_activity_counter' = IF due THEN 0 ELSE check_activity_counter + 1
            /\ curActivityPid' = IF ActivityChanges(top) THEN top ELSE curActivityPid
            /\ nice' = IF Moved(top) = {} THEN nice
                       ELSE Prioritize(nice, polled, changed \cup Moved(top))
            /\ importance' = final
            /\ lastAgingPid' = IF ages THEN AgingCursor(AgingTurn(polled)) ELSE lastAgingPid
            /\ importanceChangeThrVec' = changed \cup Moved(top) \cup {p \in Pid : final[p] # polled[p]}

-----------------------------------------------------------------------------
(* produce_importance *)

\* Clears the entry, and gives up when the thread is gone already.
initialize_thread(pid) ==
  /\ isUsed' = [isUsed EXCEPT ![pid] = pid \in alive]
  /\ ran' = ran \ {pid}
  /\ missed' = missed \ {pid}

destroy_thread(pid) ==
  /\ isUsed' = [isUsed EXCEPT ![pid] = FALSE]
  /\ missed' = missed \ {pid}

\* Mutation of ProduceFork: the entry is cleared after the importance was assigned.
ProduceForkClearedLast ==
  /\ ProduceProc /\ ev.what = "fork"
  /\ initialize_thread(ev.pid)
  /\ importance' = [importance EXCEPT ![ev.pid] = UNKNOWN]
  /\ importanceChangeThrVec' = {ev.pid}
  /\ UNCHANGED <<tasks, nice, screenOn, polling, aging>>

\* The child takes its parent's importance.
ProduceFork ==
  /\ ProduceProc /\ ev.what = "fork"
  /\ initialize_thread(ev.pid)
  /\ importance' = [importance EXCEPT ![ev.pid] = importance[ev.arg]]
  /\ importanceChangeThrVec' = {ev.pid}
  /\ UNCHANGED <<tasks, nice, screenOn, polling, aging>>

\* Mutation of ProduceExit: destroy_thread leaves the entry in use.
ProduceExitInUse ==
  /\ ProduceProc /\ ev.what = "exit"
  /\ importanceChangeThrVec' = {}
  /\ UNCHANGED <<tasks, nice, screenOn, table, polling, aging>>

ProduceExit ==
  /\ ProduceProc /\ ev.what = "exit"
  /\ destroy_thread(ev.pid)
  /\ importanceChangeThrVec' = {}
  /\ UNCHANGED <<tasks, nice, screenOn, importance, ran, polling, aging>>

\* A sampling tick.
ProduceTick0 ==
  /\ ProduceSample /\ ev.what = "tick"
  /\ SamplePart(importance, {}, agingIsOn)
  /\ UNCHANGED <<tasks, screenOn, isUsed, missed, ran, agingIsOn>>

\* Screen off, and on into the sampling case.
ProduceScreenOff ==
  /\ ProduceSample /\ ev.what = "screen"
  /\ agingIsOn' = FALSE
  /\ SamplePart(Assign(importance, CurActivityThrs, LOW), CurActivityThrs, FALSE)
  /\ UNCHANGED <<tasks, screenOn, isUsed, missed, ran>>

\* Mutation of ProduceMid: screen on does not raise the foreground.
ProduceMidTickOnly ==
  /\ ProduceBackToMid
  /\ LET S == IF ev.what = "tick" THEN CurActivityThrs ELSE {}
     IN  importance' = Assign(importance, S, MID) /\ importanceChangeThrVec' = S
  /\ agingIsOn' = IF ev.what = "screen" THEN TurnOnAging ELSE agingIsOn
  /\ UNCHANGED <<tasks, nice, screenOn, isUsed, missed, ran, polling, lastAgingPid>>

\* The end of a boost, or screen on and on into that case.
ProduceMid ==
  /\ ProduceBackToMid
  /\ importance' = Assign(importance, CurActivityThrs, MID)
  /\ importanceChangeThrVec' = CurActivityThrs
  /\ agingIsOn' = IF ev.what = "screen" THEN TurnOnAging ELSE agingIsOn
  /\ UNCHANGED <<tasks, nice, screenOn, isUsed, missed, ran, polling, lastAgingPid>>

\* With no foreground thread to boost, GiveUp is all that is left.
ProduceBoost ==
  /\ ProduceTouch
  /\ CurActivityThrs # {}
  /\ importance' = Assign(importance, CurActivityThrs, HIGH)
  /\ importanceChangeThrVec' = CurActivityThrs
  /\ UNCHANGED <<tasks, nice, screenOn, isUsed, missed, ran, polling, aging>>

-----------------------------------------------------------------------------
(* do_action *)

\* prioritize exits on an importance it does not know.
Known == \A p \in importanceChangeThrVec : importance[p] # UNKNOWN

\* Mutation of ActPrioritize: do_action forgets the screen case.
ActPrioritizeNotScreen ==
  /\ ActOther /\ ev.what # "exit" /\ Known
  /\ nice' = IF ev.what = "screen" THEN nice ELSE Prioritize(nice, importance, importanceChangeThrVec)
  /\ importanceChangeThrVec' = {}
  /\ UNCHANGED <<tasks, screenOn, table, polling, aging>>

\* After a fork, a touch, the end of a boost or a screen event.  The vector is
\* emptied before the next event is looked at.
ActPrioritize ==
  /\ ActOther /\ ev.what # "exit" /\ Known
  /\ nice' = Prioritize(nice, importance, importanceChangeThrVec)
  /\ importanceChangeThrVec' = {}
  /\ UNCHANGED <<tasks, screenOn, table, polling, aging>>

ActExit ==
  /\ ActOther /\ ev.what = "exit"
  /\ UNCHANGED <<tasks, nice, screenOn, daemon>>

\* A sampling tick: outside a boost, any live thread may be found to have run.
\* What aging changed is not prioritized here, nor anywhere later.
ActTick0 ==
  /\ ActSample
  /\ ran' \in IF touchIsOn THEN {ran} ELSE {ran \cup r : r \in SUBSET alive}
  /\ importanceChangeThrVec' = {}
  /\ UNCHANGED <<tasks, nice, screenOn, isUsed, missed, importance, polling, aging>>

\* exit(EXIT_FAILURE): nothing to boost, an unknown importance, or a file of
\* /proc or /sys that does not open.
GiveUp ==
  /\ HandlerExit
  /\ \/ "end" \in Happens
     \/ ev.what = "touch" /\ pc = "produce" /\ CurActivityThrs = {}
     \/ pc = "act" /\ ev # Tick(0) /\ ~Known
  /\ UNCHANGED <<tasks, nice, screenOn, daemon>>

OtherDaemon ==
  /\ LoopTest \/ LoopExit \/ Recv \/ RecvError
  /\ UNCHANGED <<tasks, nice, screenOn, daemon>>

FgTerminated == Ended /\ UNCHANGED fgVars

-----------------------------------------------------------------------------
FgKernel ==
  \/ \E c, p \in Pid : ThreadCreate(c, p) \/ ProcessFork(c, p)
  \/ \E p \in Pid : TaskExit(p)
  \/ ScreenSwitch
  \/ PanelTouch
  \/ OtherKernel

FgDaemon ==
  \/ ProduceFork \/ ProduceExit \/ ProduceTick0 \/ ProduceScreenOff \/ ProduceMid \/ ProduceBoost
  \/ ActPrioritize \/ ActExit \/ ActTick0 \/ GiveUp
  \/ OtherDaemon

FgNext == FgKernel \/ FgDaemon \/ FgTerminated

FgSpec == FgInit /\ [][FgNext]_fgVars

\* As in EventLoop: the daemon runs and armed timers expire.
FgFairness == WF_fgVars(FgDaemon) /\ WF_fgVars(Timer0Fire /\ OtherKernel)
              /\ WF_fgVars(Timer1Fire /\ OtherKernel)

FgFairSpec == FgSpec /\ FgFairness

-----------------------------------------------------------------------------
(* Properties. *)

Settled    == pc \in {"test", "recv"} /\ ~overrun
UpToDate(p) == p \in alive /\ ~About(p) /\ ~InHandOf(p)

\* Once the events about a pid are read, threadSet knows whether a thread has it,
\* even when the child of a fork was gone before its fork event was handled
\* (thread.c:113-140 and 147-158).  What went or came between the listing and the
\* subscription is made good by the first event about its pid, and only by that.
TrackedMatchesAlive ==
  Settled => \A p \in Pid \ missed : ~About(p) => (isUsed[p] <=> p \in alive)

\* Aging raises a thread of the background and does not prioritize it.
AgedOnly(p) == TurnOnAging /\ p \notin CurActivityThrs /\ importance[p] = MID /\ nice[p] = "low"

\* Between two events a thread's nice value is the one of its importance, unless it
\* was never set, and the thread has not been forked since, or unless its importance
\* is of aging's making (thread.c:285-319 from all its callers in importance.c).
NiceFollowsImportance ==
  Settled => \A p \in alive : UpToDate(p) /\ nice[p] # "default"
                                => nice[p] = NiceOf(importance[p]) \/ AgedOnly(p)

\* "prioritize threads based on their importance" (thread.c:281), aging's included.
NiceFollowsAging ==
  Settled => \A p \in alive : UpToDate(p) /\ nice[p] # "default"
                                => nice[p] = NiceOf(importance[p])

\* "foreground threads that temporarily become high" (timer.c:139): a live thread
\* is high only as a thread of the foreground process and while the tick that
\* takes it back is on the way, whatever forks, exits, polls and screen events
\* came between.
HighIsTemporary ==
  Settled => \A p \in alive : UpToDate(p) /\ importance[p] = HIGH
                                => group[p] = curActivityPid /\ BoostEndPending

\* "let foreground threads from high back to mid importance after enough time"
\* (importance.c:593): no thread stays high for ever, even one that forked, was
\* polled away or was touched again while the boost ran (under FgFairSpec).
HighEnds ==
  \A p \in Pid : p \in alive /\ importance[p] = HIGH
                  ~> p \notin alive \/ importance[p] # HIGH \/ Ended

\* With the screen on, aging, polling and the ends of boosts never leave a
\* foreground thread low.  (One that started before the subscription, but after
\* initialize_activity looked, is not low but unknown until the first of them.)
ForegroundNotStarved ==
  Settled /\ agingIsOn => \A p \in CurActivityThrs :
    UpToDate(p) => importance[p] >= MID \/ (p \in missed /\ importance[p] = UNKNOWN)

\* importance.c:602, "when ... screen is off, change foreground thread to low":
\* from one screen-off event to the next screen-on event the foreground is low.
ScreenOffKeepsLow ==
  Settled /\ TurnOnAging /\ ~agingIsOn
    => \A p \in CurActivityThrs : UpToDate(p) => importance[p] = LOW

\* thread.c:74, "find all threads in /proc": no handler meets a thread whose
\* importance is unknown, which makes prioritize end the daemon.
ImportanceKnown == pc = "act" => Known

=============================================================================
