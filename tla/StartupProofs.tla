--------------------------- MODULE StartupProofs ---------------------------
(***************************************************************************)
(* Proofs about Startup, for every queue capacity and every set of pids.   *)
(* Until main listens nothing can be in the queue; from then on the steps  *)
(* are those of EventLoop and its lemmas carry over.                       *)
(***************************************************************************)
EXTENDS Startup, EventLoopProofs

\* Before main listens the event loop is at rest; a touch that was reported to
\* nobody, or a tick that was, is written down.
AtRest ==
  /\ queue = <<>> /\ ~overrun /\ ~touchIsOn
  /\ pc \in {"test", "success", "failure"}
  /\ touchHappen => "touch" \in missed

TimerStarted == phase \in {"signal", "socket", "subscribe", "listening"}

\* No sampling tick is on its way.
NoTick == ~timer0 /\ ~Queued(Tick(0)) /\ ~(InHand /\ ev = Tick(0))

\* Once timer 0 was started its tick is on its way, or it was missed and there is
\* none, and none will be.
TickKnown ==
  /\ TimerStarted /\ "tick" \in missed => NoTick
  /\ TimerStarted /\ ~Listening /\ Running /\ "tick" \notin missed => timer0

StartInv ==
  /\ StartTypeOK
  /\ ~Listening => AtRest
  /\ TickKnown
  /\ Listening /\ "tick" \notin missed => HeartbeatNeverLost /\ HeartbeatUnique
  /\ BoostEndsLater

-----------------------------------------------------------------------------
\* An empty queue holds no event.
LEMMA EmptyQueue ==
  ASSUME queue = <<>>
  PROVE  \A f : ~Queued(f) /\ AtMostOnce(f)
  <1>1. Len(queue) = 0
    OBVIOUS
  <1>q. QED
    BY <1>1 DEF Queued, AtMostOnce

\* Without a tick none arises: only the handler of one restarts the timer.
LEMMA NoTickStep == TypeOK /\ NoTick /\ [Next]_vars => NoTick'
  <1> SUFFICES ASSUME TypeOK, NoTick, [Next]_vars PROVE NoTick'
    OBVIOUS
  <1>1. ASSUME NEW e \in Event, e # Tick(0), Deliver(e), KernelStep, UNCHANGED timer0
        PROVE  NoTick'
    BY <1>1, DeliverEffect DEF NoTick, KernelStep, InHand
  <1>2. ASSUME NEW e \in Event, e # Tick(0), ProcEvent(e) PROVE NoTick'
    BY <1>1, <1>2 DEF ProcEvent, kernelVars
  <1>3. CASE UserTouch \/ Timer1Fire
    BY <1>1, <1>3, EventTypes DEF UserTouch, Timer1Fire, Touch, Tick
  <1>4. CASE Timer0Fire \/ ActSample
    BY <1>4 DEF Timer0Fire, ActSample, NoTick, InHand
  <1>5. CASE Recv
    <2>1. queue \in Seq(Event) /\ queue # <<>> /\ ev' = Head(queue) /\ UNCHANGED timer0
      BY <1>5 DEF Recv, TypeOK, kernelVars
    <2>2. 1 \in 1..Len(queue) /\ ev' = queue[1]
      BY <2>1, TailElements
    <2>3. ev' # Tick(0)
      BY <2>2 DEF NoTick, Queued
    <2>q. QED
      BY <1>5, <2>1, <2>3, RecvEffect DEF NoTick
  <1>6. CASE LoopExit \/ RecvError \/ RecvShutdown \/ HandlerExit
    BY <1>6 DEF LoopExit, RecvError, RecvShutdown, HandlerExit, Stop, destroy_timer,
                TypeOK, NoTick, InHand, Queued
  <1>7. CASE \/ Sigint \/ LoopTest \/ ProduceProc \/ ProduceSample \/ ProduceBackToMid
             \/ ProduceTouch \/ ActOther \/ Terminated \/ UNCHANGED vars
    BY <1>7 DEF Sigint, LoopTest, ProduceProc, ProduceSample, ProduceBackToMid, ProduceTouch,
                turn_on_temp_high_timer, ActOther, Terminated, vars, kernelVars, NoTick, InHand, Queued
  <1>8. /\ Ignored # Tick(0) /\ \A n : Screen(n) # Tick(0)
        /\ \A c, p : Fork(c, p) # Tick(0) /\ \A q : Exit(q) # Tick(0)
    BY DEF Ignored, Screen, Fork, Exit, Tick
  <1>q. QED
    BY <1>2, <1>3, <1>4, <1>5, <1>6, <1>7, <1>8, EventTypes
       DEF Next, Kernel, Daemon, IgnoredEvent, ForkEvent, ExitEvent, ScreenEvent

-----------------------------------------------------------------------------
(* The steps of main before it listens. *)

\* The steps before main listens.
BeforeListening ==
  \/ InitializeTouch \/ InitializeThreads \/ InitializeTimer \/ CatchSigint \/ OpenSocket
  \/ StartFails \/ EarlyTouch \/ EarlyTick \/ EarlySigint

\* While the loop is at rest it has nothing to boost, sample or restart.
LEMMA RestIsSafe ==
  ASSUME AtRest
  PROVE  BoostEndsLater /\ HeartbeatUnique /\ ~Queued(Tick(0)) /\ ~InHand
  BY EmptyQueue DEF AtRest, BoostEndsLater, HeartbeatUnique, InHand

LEMMA BeforeListeningStep ==
  ASSUME StartInv, BeforeListening
  PROVE  StartTypeOK' /\ ~Listening /\ ~Listening' /\ AtRest'
  <1>1. StartTypeOK /\ ~Listening /\ AtRest
    BY DEF StartInv, BeforeListening, InitializeTouch, InitializeThreads, InitializeTimer,
           CatchSigint, OpenSocket, StartFails, EarlyTouch, EarlyTick, EarlySigint, At, Starting,
           Listening
  <1>2. CASE InitializeTouch
    BY <1>1, <1>2, SysfsAssumption
       DEF InitializeTouch, At, Starting, ReenableTouch, StartTypeOK, Phase, TypeOK, AtRest, Listening
  <1>3. CASE InitializeThreads \/ CatchSigint \/ OpenSocket
    <2>1. /\ UNCHANGED <<queue, overrun, timer0, timer1, touchHappen, needExit, pc, ev, touchIsOn>>
          /\ missed' = missed /\ phase' \in Phase \ {"listening"}
      BY <1>3 DEF InitializeThreads, CatchSigint, OpenSocket, At, vars, Phase
    <2>2. TypeOK'
      BY <1>1, <2>1 DEF StartTypeOK, TypeOK
    <2>q. QED
      BY <1>1, <2>1, <2>2 DEF StartTypeOK, AtRest, Listening
  <1>4. CASE InitializeTimer
    BY <1>1, <1>4 DEF InitializeTimer, At, Starting, StartTypeOK, Phase, TypeOK, AtRest, Listening
  <1>5. CASE StartFails
    <2>1. /\ UNCHANGED <<queue, overrun, touchHappen, touchIsOn, phase, missed>>
          /\ pc' = "failure"
      BY <1>5 DEF StartFails, startVars, kernelVars, Stop
    <2>2. Stop("failure") => TypeOK'
      BY <1>1, StopTypes DEF StartTypeOK
    <2>3. UNCHANGED <<queue, overrun, kernelVars, needExit, ev, touchIsOn>> => TypeOK'
      BY <1>1, <2>1 DEF StartTypeOK, TypeOK, kernelVars
    <2>4. TypeOK'
      BY <1>5, <2>2, <2>3 DEF StartFails
    <2>q. QED
      BY <1>1, <2>1, <2>4 DEF StartTypeOK, AtRest, Listening
  <1>6. CASE EarlyTouch
    BY <1>1, <1>6 DEF EarlyTouch, Starting, StartTypeOK, Phase, TypeOK, AtRest, Listening
  <1>7. CASE EarlyTick
    BY <1>1, <1>7 DEF EarlyTick, Starting, StartTypeOK, Phase, TypeOK, AtRest, Listening
  <1>8. CASE EarlySigint
    BY <1>1, <1>8 DEF EarlySigint, Starting, startVars, kernelVars, StartTypeOK, Phase, TypeOK,
                      AtRest, Listening
  <1>q. QED
    BY <1>2, <1>3, <1>4, <1>5, <1>6, <1>7, <1>8, <1>1 DEF BeforeListening

LEMMA BeforeListeningTick ==
  ASSUME StartInv, BeforeListening
  PROVE  TickKnown'
  <1>1. /\ StartTypeOK' /\ ~Listening /\ ~Listening' /\ AtRest' /\ AtRest
        /\ ~Queued(Tick(0))' /\ ~InHand'
    <2>1. StartTypeOK' /\ ~Listening /\ ~Listening' /\ AtRest'
      BY BeforeListeningStep
    <2>2. queue' = <<>> /\ ~InHand'
      BY <2>1 DEF AtRest, InHand
    <2>3. Len(queue') = 0
      BY <2>2
    <2>q. QED
      BY <2>1, <2>2, <2>3 DEF Queued, StartInv
  <1>2. SUFFICES /\ TimerStarted' /\ "tick" \in missed' => ~timer0'
                 /\ TimerStarted' /\ Running' /\ "tick" \notin missed' => timer0'
    BY <1>1 DEF TickKnown, NoTick
  <1>3. /\ TimerStarted /\ "tick" \in missed => ~timer0
        /\ TimerStarted /\ Running /\ "tick" \notin missed => timer0
    BY <1>1 DEF StartInv, TickKnown, NoTick
  <1>4. CASE InitializeTimer
    BY <1>4 DEF InitializeTimer
  <1>5. CASE InitializeTouch \/ InitializeThreads \/ CatchSigint \/ OpenSocket
    BY <1>3, <1>5 DEF InitializeTouch, InitializeThreads, CatchSigint, OpenSocket, At, Starting,
                      vars, TimerStarted, Running, Ended
  <1>6. CASE StartFails
    <2>1. timer0 \in BOOLEAN
      BY DEF StartInv, StartTypeOK, TypeOK
    <2>2. Stop("failure") => (timer0' => timer0)
      BY <2>1 DEF Stop, destroy_timer
    <2>3. UNCHANGED <<queue, overrun, kernelVars, needExit, ev, touchIsOn>> => timer0' = timer0
      BY DEF kernelVars
    <2>4. UNCHANGED <<phase, missed>> /\ pc' = "failure"
      BY <1>6 DEF StartFails, startVars, Stop
    <2>5. timer0' => timer0
      BY <1>6, <2>2, <2>3 DEF StartFails
    <2>q. QED
      BY <1>3, <2>4, <2>5 DEF TimerStarted, Running, Ended
  <1>7. CASE EarlyTouch
    BY <1>3, <1>7 DEF EarlyTouch, TimerStarted, Running, Ended
  <1>8. CASE EarlyTick
    BY <1>3, <1>8 DEF EarlyTick, TimerStarted, Starting, Running, Ended
  <1>9. CASE EarlySigint
    BY <1>3, <1>9 DEF EarlySigint, Starting, startVars, kernelVars, TimerStarted, Running, Ended
  <1>q. QED
    BY <1>4, <1>5, <1>6, <1>7, <1>8, <1>9 DEF BeforeListening

-----------------------------------------------------------------------------
(* The invariant. *)

LEMMA StartInvInit == StartInit => StartInv
  <1> SUFFICES ASSUME StartInit PROVE StartInv
    OBVIOUS
  <1>1. ~Listening /\ AtRest /\ ~TimerStarted
    BY DEF StartInit, Listening, AtRest, TimerStarted
  <1>2. TypeOK
    <2>1. queue \in Seq(Event) /\ Len(queue) = 0
      BY DEF StartInit
    <2>2. Len(queue) <= QueueCap
      BY <2>1, QueueCapAssumption
    <2>3. Ignored \in Event
      BY EventTypes
    <2>q. QED
      BY <2>1, <2>2, <2>3 DEF StartInit, TypeOK
  <1>3. StartTypeOK
    BY <1>2 DEF StartInit, StartTypeOK, Phase
  <1>q. QED
    BY <1>1, <1>3, RestIsSafe DEF StartInv, TickKnown

LEMMA SubscribeStep ==
  ASSUME StartInv, Subscribe
  PROVE  StartInv'
  <1>1. /\ ~Listening /\ TimerStarted /\ Running /\ AtRest /\ Listening'
        /\ UNCHANGED <<vars, missed>>
    BY DEF Subscribe, At, Starting, Listening, TimerStarted, StartInv
  <1>2. UNCHANGED <<queue, overrun, timer0, timer1, touchHappen, needExit, pc, ev, touchIsOn>>
    BY <1>1 DEF vars
  <1>3. StartTypeOK'
    BY <1>1, <1>2 DEF Listening, StartInv, StartTypeOK, TypeOK, Phase
  <1>4. HeartbeatUnique' /\ BoostEndsLater' /\ ~Queued(Tick(0))' /\ ~InHand'
    BY <1>1, <1>2, RestIsSafe
       DEF HeartbeatUnique, BoostEndsLater, BoostEndPending, Queued, AtMostOnce, InHand, Running, Ended
  <1>5. IF "tick" \in missed THEN NoTick' ELSE timer0'
    BY <1>1, <1>2, <1>4 DEF StartInv, TickKnown, NoTick
  <1>q. QED
    BY <1>1, <1>3, <1>4, <1>5 DEF StartInv, TickKnown, Listening, HeartbeatNeverLost, SamplePending

LEMMA ListenStep ==
  ASSUME StartInv, Listening, Listening', [Next]_vars,
         "tick" \in missed' <=> "tick" \in missed, missed' \subseteq missed
  PROVE  StartInv'
  <1>1. TypeOK /\ BoostInv
    BY DEF StartInv, StartTypeOK, BoostInv
  <1>2. StartTypeOK'
    BY <1>1, TypeStep DEF StartInv, StartTypeOK, Listening, Phase
  <1>3. BoostEndsLater'
    BY <1>1, BoostStep DEF BoostInv
  <1>4. CASE "tick" \in missed
    BY <1>1, <1>2, <1>3, <1>4, NoTickStep DEF StartInv, TickKnown, TimerStarted, Listening
  <1>5. CASE "tick" \notin missed
    <2>1. HeartbeatInv
      BY <1>1, <1>5 DEF StartInv, HeartbeatInv
    <2>2. HeartbeatInv'
      BY <2>1, HeartbeatStep
    <2>q. QED
      BY <1>2, <1>3, <1>5, <2>2 DEF StartInv, TickKnown, HeartbeatInv
  <1>q. QED
    BY <1>4, <1>5

LEMMA StartStutter ==
  ASSUME StartInv, UNCHANGED allVars
  PROVE  StartInv'
  BY DEF allVars, startVars, vars, StartInv, StartTypeOK, TypeOK, Listening, AtRest, TickKnown, NoTick,
         TimerStarted, HeartbeatNeverLost, HeartbeatUnique, BoostEndsLater, BoostEndPending,
         SamplePending, Queued, AtMostOnce, Running, Ended, InHand

\* A step of StartNext is one before main listens, the subscription, a step of the
\* event loop, or none.
LEMMA StartCases ==
  ASSUME [StartNext]_allVars
  PROVE  \/ BeforeListening
         \/ Subscribe
         \/ /\ Listening /\ Listening' /\ Next
            /\ missed' = IF touchHappen' THEN missed ELSE missed \ {"touch"}
         \/ UNCHANGED allVars
  BY DEF StartNext, StartStep, StartEnded, BeforeListening, Listen, Listening

LEMMA StartInvStep == StartInv /\ [StartNext]_allVars => StartInv'
  <1> SUFFICES ASSUME StartInv, [StartNext]_allVars PROVE StartInv'
    OBVIOUS
  <1>1. CASE BeforeListening
    <2>1. StartTypeOK' /\ ~Listening' /\ AtRest' /\ TickKnown'
      BY <1>1, BeforeListeningStep, BeforeListeningTick
    <2>2. BoostEndsLater'
      BY <2>1 DEF AtRest, BoostEndsLater
    <2>q. QED
      BY <2>1, <2>2 DEF StartInv
  <1>2. CASE Subscribe
    BY <1>2, SubscribeStep
  <1>3. CASE /\ Listening /\ Listening' /\ Next
             /\ missed' = IF touchHappen' THEN missed ELSE missed \ {"touch"}
    <2>1. ("tick" \in missed' <=> "tick" \in missed) /\ missed' \subseteq missed
      BY <1>3
    <2>q. QED
      BY <1>3, <2>1, ListenStep
  <1>4. CASE UNCHANGED allVars
    BY <1>4, StartStutter
  <1>q. QED
    BY <1>1, <1>2, <1>3, <1>4, StartCases

LEMMA StartInvariant == StartSpec => []StartInv
  BY StartInvInit, StartInvStep, PTL DEF StartSpec

-----------------------------------------------------------------------------
(* What main and the loop keep to from its first line on. *)

\* Every variable keeps its type (importance.c, main and handle_proc_event).
THEOREM StartTypeCorrect == StartSpec => []StartTypeOK
  BY StartInvariant, PTL DEF StartInv

\* Once main listens the next sampling tick is always on its way, unless the first
\* one was sent before (importance.c:176-189, 529-538).
THEOREM HeartbeatOnceListeningAlways == StartSpec => []HeartbeatOnceListening
  <1>1. StartInv => HeartbeatOnceListening
    BY DEF StartInv, HeartbeatOnceListening
  <1>q. QED
    BY <1>1, StartInvariant, PTL

\* ...and never in two places, whether or not the first was missed.
THEOREM HeartbeatUniqueFromStart == StartSpec => []HeartbeatUnique
  <1>1. ASSUME StartInv PROVE HeartbeatUnique
    <2>1. CASE ~Listening
      BY <1>1, <2>1, RestIsSafe DEF StartInv
    <2>2. CASE Listening /\ "tick" \notin missed
      BY <1>1, <2>2 DEF StartInv
    <2>3. CASE Listening /\ "tick" \in missed
      BY <1>1, <2>3 DEF StartInv, TickKnown, TimerStarted, Listening, NoTick, HeartbeatUnique,
                        AtMostOnce, Queued
    <2>q. QED
      BY <2>1, <2>2, <2>3
  <1>q. QED
    BY <1>1, StartInvariant, PTL

\* No boost is left without the timer or tick that ends it, from main's first line on
\* (importance.c:472-488).
THEOREM BoostEndsLaterFromStart == StartSpec => []BoostEndsLater
  BY StartInvariant, PTL DEF StartInv

-----------------------------------------------------------------------------
(* The touch connector. *)

StartTouchInv == StartInv /\ TouchReenabledUnlessMissed

\* If the write of reenable_touch works, touches that were reported to the daemon
\* always leave something on its way that clears the entry (touch.c:37-63 and 99-107,
\* importance.c:176-189).
THEOREM TouchReenabledUnlessMissedAlways ==
  ASSUME SysfsFails = FALSE
  PROVE  StartSpec => []TouchReenabledUnlessMissed
  <1>1. ASSUME AtRest PROVE TouchReenabledUnlessMissed
    BY <1>1 DEF AtRest, TouchReenabledUnlessMissed, TouchReenabledLater
  <1>2. StartInit => StartTouchInv
    BY <1>1, StartInvInit DEF StartTouchInv, StartInit, StartInv, Listening
  <1>3. ASSUME StartTouchInv, [StartNext]_allVars PROVE StartTouchInv'
    <2>1. StartInv /\ StartInv'
      BY <1>3, StartInvStep DEF StartTouchInv
    <2>2. CASE BeforeListening
      <3>1. AtRest'
        BY <2>1, <2>2, BeforeListeningStep
      <3>q. QED
        BY <2>1, <3>1 DEF AtRest, StartTouchInv, TouchReenabledUnlessMissed, TouchReenabledLater
    <2>3. CASE Subscribe
      BY <1>3, <2>1, <2>3
         DEF Subscribe, At, vars, StartTouchInv, TouchReenabledUnlessMissed, TouchReenabledLater,
             TouchPending, BoostEndPending, Queued, Running, Ended
    <2>4. CASE /\ Listening /\ Listening' /\ Next
               /\ missed' = IF touchHappen' THEN missed ELSE missed \ {"touch"}
      <3>1. CASE "touch" \in missed
        BY <2>1, <2>4, <3>1 DEF StartTouchInv, TouchReenabledUnlessMissed, TouchReenabledLater
      <3>2. CASE "touch" \notin missed
        <4>1. TouchInv
          BY <1>3, <3>2
             DEF StartTouchInv, StartInv, StartTypeOK, TouchReenabledUnlessMissed, TouchInv
        <4>2. TouchInv'
          BY <2>4, <4>1, TouchStep
        <4>q. QED
          BY <2>1, <4>2 DEF StartTouchInv, TouchReenabledUnlessMissed, TouchInv
      <3>q. QED
        BY <3>1, <3>2
    <2>5. CASE UNCHANGED allVars
      BY <1>3, <2>1, <2>5
         DEF allVars, startVars, vars, StartTouchInv, TouchReenabledUnlessMissed, TouchReenabledLater,
             TouchPending, BoostEndPending, Queued, Running, Ended
    <2>q. QED
      BY <1>3, <2>2, <2>3, <2>4, <2>5, StartCases
  <1>q. QED
    BY <1>2, <1>3, PTL DEF StartSpec, StartTouchInv

-----------------------------------------------------------------------------
(* Startup implements SamplingCycle, as far as safety goes. *)

StartsSafeCycle == StartCycle!SafeSpec

LEMMA StartStageStep ==
  ASSUME StartInv, StartInv', [StartNext]_allVars
  PROVE  [StartCycle!Next]_StartStage
  <1>1. CASE BeforeListening
    <2>1. ~Listening /\ ~Listening' /\ TickKnown /\ TickKnown'
      BY <1>1, BeforeListeningStep DEF StartInv
    <2>2. StartStage \in {"armed", "stopped"} /\ StartStage' \in {"armed", "stopped"}
      BY <2>1 DEF StartStage
    <2>3. StartStage = "stopped" => StartStage' = "stopped"
      <3>1. ~Ended
        BY <1>1 DEF BeforeListening, InitializeTouch, InitializeThreads, InitializeTimer, CatchSigint,
                    OpenSocket, StartFails, EarlyTouch, EarlyTick, EarlySigint, At, Starting, Running
      <3>2. SUFFICES ASSUME TimerStarted, "tick" \in missed PROVE TimerStarted' /\ "tick" \in missed'
        BY <2>1, <3>1 DEF StartStage, TimerStarted
      <3>q. QED
        BY <1>1, <3>2
           DEF BeforeListening, InitializeTouch, InitializeThreads, InitializeTimer, CatchSigint,
               OpenSocket, StartFails, EarlyTouch, EarlyTick, EarlySigint, At, startVars, TimerStarted
    <2>q. QED
      BY <2>2, <2>3 DEF StartCycle!Next, StartCycle!Stop
  <1>2. CASE Subscribe
    <2>1. /\ ~Listening /\ Listening' /\ ~Ended /\ ~Ended' /\ missed' = missed /\ TimerStarted
          /\ timer0' = timer0
      BY <1>2 DEF Subscribe, At, Starting, Running, Ended, Listening, TimerStarted, vars
    <2>2. "tick" \notin missed => timer0
      BY <2>1 DEF StartInv, TickKnown, Running
    <2>q. QED
      BY <2>1, <2>2 DEF StartStage, SamplingStage, TimerStarted, Listening
  <1>3. CASE /\ Listening /\ Listening' /\ Next
             /\ missed' = IF touchHappen' THEN missed ELSE missed \ {"touch"}
    <2>1. "tick" \in missed' <=> "tick" \in missed
      BY <1>3
    <2>2. CASE "tick" \in missed
      BY <1>3, <2>1, <2>2 DEF StartStage, Listening
    <2>3. CASE "tick" \notin missed
      <3>1. HeartbeatInv /\ HeartbeatInv'
        BY <1>3, <2>1, <2>3 DEF StartInv, StartTypeOK, HeartbeatInv
      <3>2. [Cycle!Next]_SamplingStage
        BY <1>3, <3>1, StageStep
      <3>3. StartStage = SamplingStage /\ StartStage' = SamplingStage'
        BY <1>3, <2>1, <2>3 DEF StartStage, SamplingStage, Listening
      <3>q. QED
        BY <3>2, <3>3
           DEF Cycle!Next, Cycle!PeriodEnds, Cycle!Begin, Cycle!Restart, Cycle!Stop,
               StartCycle!Next, StartCycle!PeriodEnds, StartCycle!Begin, StartCycle!Restart,
               StartCycle!Stop
    <2>q. QED
      BY <2>2, <2>3
  <1>4. CASE UNCHANGED allVars
    BY <1>4 DEF allVars, startVars, vars, StartStage, SamplingStage, Listening, Ended, InHand, Queued
  <1>q. QED
    BY <1>1, <1>2, <1>3, <1>4, StartCases

\* From main's first line on no period is skipped, sampled twice or begun early; if
\* the first tick is missed the cycle stops there.
THEOREM StartsSafeCycleAlways == StartSpec => StartsSafeCycle
  <1>1. StartInit => StartCycle!Init
    BY DEF StartInit, StartCycle!Init, StartStage, Ended, Listening
  <1>q. QED
    BY <1>1, StartStageStep, StartInvariant, PTL DEF StartSpec, StartsSafeCycle, StartCycle!SafeSpec

=============================================================================
