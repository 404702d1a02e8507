----------------------------- MODULE EventLoop -----------------------------
(***************************************************************************)
(* The daemon's event loop (importance.c, handle_proc_event) with what it  *)
(* talks to in the kernel: the netlink queue its events arrive in, the two *)
(* one-shot timers, and the touch connector, which reports one touch and   *)
(* then stays silent until the daemon writes to it.                        *)
(*                                                                         *)
(* The daemon is one thread.  It takes an event, runs produce_importance   *)
(* and then do_action on it, and only then looks at the next one, so all   *)
(* the concurrency is with the kernel, the user and SIGINT.  This module   *)
(* keeps the control that the timers, the touch connector and the exit     *)
(* flag depend on; Foreground.tla adds the importance data to the same     *)
(* actions.                                                                *)
(***************************************************************************)
EXTENDS Integers, Sequences

CONSTANTS QueueCap,     \* messages the socket's receive buffer holds
          Pid,          \* the pids that fork and exit events name
          SysfsFails    \* may a write that the code does not check fail?

ASSUME QueueCapAssumption == QueueCap \in Nat \ {0}
ASSUME PidAssumption      == Pid \subseteq Nat
ASSUME SysfsAssumption    == SysfsFails \in BOOLEAN

VARIABLES queue,        \* undelivered netlink messages, in order
          overrun,      \* a message was dropped: the next recv gets ENOBUFS
          timer0,       \* is the utilization-sampling timer counting?
          timer1,       \* is the temp-high timer counting?
          touchHappen,  \* /proc/mms_ts_touch_happen: a touch was reported
          needExit,     \* set by on_sigint
          pc,           \* where the daemon is
          ev,           \* cnprocMsg, the event in hand
          touchIsOn     \* the daemon believes a touch boost is running

vars == <<queue, overrun, timer0, timer1, touchHappen, needExit, pc, ev, touchIsOn>>

kernelVars == <<timer0, timer1, touchHappen>>

(***************************************************************************)
(* Events.  struct proc_event is a union: the first word of event_data is  *)
(* screen.screen_on in a screen event and timer.timer_no in a tick, so one *)
(* field, arg, stands for both (and for fork.parent_pid, the first word    *)
(* too).  "ignored" stands for the kinds that handle_proc_event skips.     *)
(***************************************************************************)
Ignored       == [what |-> "ignored", pid |-> 0,     arg |-> 0]
Fork(c, p)    == [what |-> "fork",    pid |-> c,     arg |-> p]
Exit(p)       == [what |-> "exit",    pid |-> p,     arg |-> 0]
Screen(on)    == [what |-> "screen",  pid |-> 0,     arg |-> on]
Tick(timerNo) == [what |-> "tick",    pid |-> 0,     arg |-> timerNo]
Touch         == [what |-> "touch",   pid |-> 0,     arg |-> 0]

Event == {Ignored, Touch} \cup {Screen(on) : on \in {0, 1}} \cup {Tick(n) : n \in {0, 1}}
         \cup {Exit(p) : p \in Pid} \cup {Fork(c, p) : c \in Pid, p \in Pid}

Ended   == pc \in {"success", "failure"}
Running == ~Ended
InHand  == pc \in {"produce", "act"}

TypeOK ==
  /\ queue \in Seq(Event) /\ Len(queue) <= QueueCap
  /\ overrun \in BOOLEAN /\ timer0 \in BOOLEAN /\ timer1 \in BOOLEAN
  /\ touchHappen \in BOOLEAN /\ needExit \in BOOLEAN /\ touchIsOn \in BOOLEAN
  /\ pc \in {"test", "recv", "produce", "act", "success", "failure"}
  /\ ev \in Event

(***************************************************************************)
(* When main calls handle_proc_event: initialize_touch has cleared the     *)
(* touch entry, initialize_timer has started timer 0, the subscription has *)
(* just been sent, and no boost of an earlier daemon is being timed.       *)
(* (Startup starts from timers in any state.)                              *)
(***************************************************************************)
initialize_timer == timer0 = TRUE
initialize_touch == touchHappen = FALSE

Init ==
  /\ queue = <<>> /\ overrun = FALSE
  /\ initialize_timer /\ timer1 = FALSE /\ initialize_touch
  /\ touchIsOn = FALSE
  /\ needExit = FALSE
  /\ pc = "test" /\ ev = Ignored

-----------------------------------------------------------------------------
(* The kernel and the user. *)

\* Mutation of Deliver: the buffer has no limit.
DeliverUnlimited(e) == overrun' = overrun /\ queue' = Append(queue, e)

\* A full receive buffer drops the message and makes the next recv fail; the
\* socket stays congested, so nothing is queued before that.
Deliver(e) ==
  IF overrun \/ Len(queue) = QueueCap
  THEN overrun' = TRUE /\ queue' = queue
  ELSE overrun' = overrun /\ queue' = Append(queue, e)

KernelStep == Running /\ UNCHANGED <<needExit, pc, ev, touchIsOn>>

\* A fork, an exit, or one of the events the daemon ignores.
ProcEvent(e) == KernelStep /\ Deliver(e) /\ UNCHANGED kernelVars

IgnoredEvent      == ProcEvent(Ignored)
ForkEvent(c, p)   == ProcEvent(Fork(c, p))
ExitEvent(p)      == ProcEvent(Exit(p))
ScreenEvent(on)   == ProcEvent(Screen(on))

\* The touch driver reports a touch only while its entry is clear.
UserTouch ==
  /\ KernelStep /\ ~touchHappen
  /\ touchHappen' = TRUE
  /\ Deliver(Touch)
  /\ UNCHANGED <<timer0, timer1>>

\* Both timers are one-shot.
Timer0Fire ==
  /\ KernelStep /\ timer0
  /\ timer0' = FALSE
  /\ Deliver(Tick(0))
  /\ UNCHANGED <<timer1, touchHappen>>

Timer1Fire ==
  /\ KernelStep /\ timer1
  /\ timer1' = FALSE
  /\ Deliver(Tick(1))
  /\ UNCHANGED <<timer0, touchHappen>>

\* SIGINT.  A blocked recv returns EINTR and the loop tests needExit again;
\* a signal that arrives just before the daemon enters recv does not.
Sigint ==
  /\ Running
  /\ needExit' = TRUE
  /\ \/ pc' = pc
     \/ pc = "recv" /\ pc' = "test"
  /\ UNCHANGED <<queue, overrun, kernelVars, ev, touchIsOn>>

-----------------------------------------------------------------------------
(* The daemon. *)

turn_on_sampling_timer  == timer0' = TRUE
turn_on_temp_high_timer == timer1' = TRUE

\* Writes 0 to both timers and carries on when a write fails.
destroy_timer ==
  /\ timer0' \in IF SysfsFails THEN {FALSE, timer0} ELSE {FALSE}
  /\ timer1' \in IF SysfsFails THEN {FALSE, timer1} ELSE {FALSE}

\* destruction(), then the process ends.
Stop(status) ==
  /\ pc' = status
  /\ destroy_timer
  /\ UNCHANGED <<queue, overrun, touchHappen, needExit, ev, touchIsOn>>

\* Mutation of LoopTest: while(true).
LoopTestForever ==
  /\ pc = "test"
  /\ pc' = "recv"
  /\ UNCHANGED <<queue, overrun, kernelVars, needExit, ev, touchIsOn>>

\* while(!needExit)
LoopTest ==
  /\ pc = "test" /\ ~needExit
  /\ pc' = "recv"
  /\ UNCHANGED <<queue, overrun, kernelVars, needExit, ev, touchIsOn>>

LoopExit == pc = "test" /\ needExit /\ Stop("success")

\* recv() returns an event.  (With nothing queued it blocks.)
Recv ==
  /\ pc = "recv" /\ ~overrun /\ queue # <<>>
  /\ ev' = Head(queue)
  /\ queue' = Tail(queue)
  /\ pc' = IF Head(queue).what = "ignored" THEN "test" ELSE "produce"
  /\ UNCHANGED <<overrun, kernelVars, needExit, touchIsOn>>

RecvError    == pc = "recv" /\ overrun /\ Stop("failure")
RecvShutdown == pc = "recv" /\ Stop("success")

\* reenable_touch() writes 0 to the touch entry and does not check the write.
ReenableTouch == touchHappen' \in IF SysfsFails THEN {FALSE, touchHappen} ELSE {FALSE}

\* produce_importance.  The screen case has no break, so a screen event runs
\* the timer case as well, with screen_on read as timer_no.
ProduceProc ==
  /\ pc = "produce" /\ ev.what \in {"fork", "exit"}
  /\ pc' = "act"
  /\ UNCHANGED <<queue, overrun, kernelVars, needExit, ev, touchIsOn>>

ProduceSample ==
  /\ pc = "produce" /\ ev.what \in {"tick", "screen"} /\ ev.arg = 0
  /\ pc' = "act"
  /\ UNCHANGED <<queue, overrun, kernelVars, needExit, ev, touchIsOn>>

\* Mutation of ProduceBackToMid: only a screen-on event writes the touch entry.
ProduceBackToMidDeaf ==
  /\ pc = "produce" /\ ev.what \in {"tick", "screen"} /\ ev.arg = 1
  /\ IF ev.what = "screen" THEN ReenableTouch ELSE touchHappen' = touchHappen
  /\ touchIsOn' = FALSE
  /\ pc' = "act"
  /\ UNCHANGED <<queue, overrun, timer0, timer1, needExit, ev>>

ProduceBackToMid ==
  /\ pc = "produce" /\ ev.what \in {"tick", "screen"} /\ ev.arg = 1
  /\ ReenableTouch
  /\ touchIsOn' = FALSE
  /\ pc' = "act"
  /\ UNCHANGED <<queue, overrun, timer0, timer1, needExit, ev>>

\* Mutation of ProduceTouch: the boost starts without its timer.
ProduceTouchUntimed ==
  /\ pc = "produce" /\ ev.what = "touch"
  /\ touchIsOn' = TRUE
  /\ pc' = "act"
  /\ UNCHANGED <<queue, overrun, kernelVars, needExit, ev>>

ProduceTouch ==
  /\ pc = "produce" /\ ev.what = "touch"
  /\ touchIsOn' = TRUE
  /\ turn_on_temp_high_timer
  /\ pc' = "act"
  /\ UNCHANGED <<queue, overrun, timer0, touchHappen, needExit, ev>>

\* Mutation of ActSample: the test of touchIsOn skips the restart as well.
ActSampleNotInBoost ==
  /\ pc = "act" /\ ev = Tick(0)
  /\ timer0' = ~touchIsOn
  /\ pc' = "test" /\ ev' = Ignored
  /\ UNCHANGED <<queue, overrun, timer1, touchHappen, needExit, touchIsOn>>

\* Mutation of ActOther: a screen event falls through in do_action too, and
\* restarts the sampling timer.
ActOtherFallsThrough ==
  /\ pc = "act" /\ ev # Tick(0)
  /\ timer0' = (timer0 \/ ev.what = "screen")
  /\ pc' = "test" /\ ev' = Ignored
  /\ UNCHANGED <<queue, overrun, timer1, touchHappen, needExit, touchIsOn>>

\* do_action.  Only a tick of timer 0 restarts a timer.  The event is done with:
\* what cnprocMsg still holds is overwritten by the next recv.
ActSample ==
  /\ pc = "act" /\ ev = Tick(0)
  /\ turn_on_sampling_timer
  /\ pc' = "test" /\ ev' = Ignored
  /\ UNCHANGED <<queue, overrun, timer1, touchHappen, needExit, touchIsOn>>

ActOther ==
  /\ pc = "act" /\ ev # Tick(0)
  /\ pc' = "test" /\ ev' = Ignored
  /\ UNCHANGED <<queue, overrun, kernelVars, needExit, touchIsOn>>

\* The places where a handler gives up with destruction() and exit(): no
\* foreground thread to boost, an importance prioritize does not know, a
\* sysfs file that does not open.  Exit events never reach one.
HandlerExit ==
  /\ \/ pc = "produce" /\ (ev.what = "touch" \/ (ev.what \in {"tick", "screen"} /\ ev.arg = 0))
     \/ pc = "act" /\ ev.what # "exit"
  /\ Stop("failure")

Terminated == Ended /\ UNCHANGED vars

-----------------------------------------------------------------------------
Kernel ==
  \/ IgnoredEvent
  \/ \E c \in Pid, p \in Pid : ForkEvent(c, p)
  \/ \E p \in Pid : ExitEvent(p)
  \/ \E on \in {0, 1} : ScreenEvent(on)
  \/ UserTouch
  \/ Timer0Fire
  \/ Timer1Fire
  \/ Sigint
  \/ RecvShutdown

Daemon ==
  \/ LoopTest \/ LoopExit
  \/ Recv \/ RecvError
  \/ ProduceProc \/ ProduceSample \/ ProduceBackToMid \/ ProduceTouch
  \/ ActSample \/ ActOther
  \/ HandlerExit

Next == Kernel \/ Daemon \/ Terminated

Spec == Init /\ [][Next]_vars

-----------------------------------------------------------------------------
(* Safety. *)

Queued(e)     == \E i \in 1..Len(queue) : queue[i] = e
AtMostOnce(e) == \A i, j \in 1..Len(queue) : queue[i] = e /\ queue[j] = e => i = j

\* Where the one sampling tick can be.
SamplePending == timer0 \/ Queued(Tick(0)) \/ (InHand /\ ev = Tick(0))

\* The sampling timer is one-shot and only the handler of its own tick
\* restarts it (timer.h: "all timers only turn on once, need manually
\* restart").  While the daemon runs and nothing was dropped, its next tick is
\* on the way: no order of events makes sampling stop.
HeartbeatNeverLost == Running /\ ~overrun => SamplePending

\* ...and it is in one place only: the timer is never restarted while a tick of
\* it is still queued or in hand, so utilization is never sampled twice for one
\* period.
HeartbeatUnique ==
  /\ timer0 => ~Queued(Tick(0)) /\ ~(InHand /\ ev = Tick(0))
  /\ InHand /\ ev = Tick(0) => ~Queued(Tick(0))
  /\ AtMostOnce(Tick(0))

BoostEndPending == timer1 \/ Queued(Tick(1)) \/ (pc = "produce" /\ ev = Tick(1))
TouchPending    == Queued(Touch) \/ (pc = "produce" /\ ev = Touch)

\* The touch entry is never left set with nobody to clear it, which would make
\* the daemon deaf to touches: the report is still to be handled or the boost
\* it starts is still to be ended.
TouchReenabledLater == touchHappen /\ Running /\ ~overrun => TouchPending \/ BoostEndPending

\* touchIsOn makes do_action and DVFS skip their work.  It is never left set
\* without the tick that clears it being on the way.
BoostEndsLater == touchIsOn /\ Running /\ ~overrun => BoostEndPending

=============================================================================
