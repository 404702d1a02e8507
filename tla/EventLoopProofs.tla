-------------------------- MODULE EventLoopProofs --------------------------
(***************************************************************************)
(* Proofs about EventLoop, for every queue capacity and every set of pids. *)
(***************************************************************************)
EXTENDS EventLoopSampling, TLAPS

-----------------------------------------------------------------------------
(* Sequences. *)

\* What Append leaves where, of a sequence of anything.
LEMMA AppendElements ==
  ASSUME NEW S, NEW q \in Seq(S), NEW e \in S
  PROVE  /\ Append(q, e) \in Seq(S)
         /\ Len(Append(q, e)) = Len(q) + 1
         /\ \A i \in 1..Len(q) : Append(q, e)[i] = q[i]
         /\ Append(q, e)[Len(q) + 1] = e
  OBVIOUS

\* What Head takes and Tail keeps, of a sequence that is not empty.
LEMMA TailElements ==
  ASSUME NEW S, NEW q \in Seq(S), q # <<>>
  PROVE  /\ Len(q) \in Nat /\ Len(q) >= 1
         /\ Head(q) \in S /\ Head(q) = q[1]
         /\ Tail(q) \in Seq(S)
         /\ Len(Tail(q)) = Len(q) - 1
         /\ \A i \in 1..Len(q) - 1 : Tail(q)[i] = q[i + 1]
  OBVIOUS

-----------------------------------------------------------------------------
(* The queue: what a delivery and a recv do to the events in it. *)

LEMMA EventTypes ==
  /\ Ignored \in Event /\ Touch \in Event
  /\ \A n \in {0, 1} : Screen(n) \in Event /\ Tick(n) \in Event
  /\ \A c \in Pid, p \in Pid : Fork(c, p) \in Event
  /\ \A p \in Pid : Exit(p) \in Event
  BY DEF Event

\* A delivery adds its event and nothing else, or drops it and says so.
LEMMA DeliverEffect ==
  ASSUME TypeOK, NEW e \in Event, Deliver(e)
  PROVE  /\ queue' \in Seq(Event) /\ Len(queue') <= QueueCap /\ overrun' \in BOOLEAN
         /\ overrun => overrun'
         /\ \A f : Queued(f) => Queued(f)'
         /\ \A f : Queued(f)' => Queued(f) \/ f = e
         /\ ~overrun' => Queued(e)'
         /\ \A f : AtMostOnce(f) /\ (Queued(f) => f # e) => AtMostOnce(f)'
  <1>1. queue \in Seq(Event) /\ Len(queue) \in Nat /\ Len(queue) <= QueueCap
        /\ overrun \in BOOLEAN /\ QueueCap \in Nat
    BY QueueCapAssumption DEF TypeOK
  <1>2. CASE overrun \/ Len(queue) = QueueCap
    BY <1>1, <1>2 DEF Deliver, Queued, AtMostOnce
  <1>3. CASE ~(overrun \/ Len(queue) = QueueCap)
    <2>1. queue' = Append(queue, e) /\ overrun' = overrun
      BY <1>3 DEF Deliver
    <2>2. /\ queue' \in Seq(Event) /\ Len(queue') = Len(queue) + 1
          /\ \A i \in 1..Len(queue) : queue'[i] = queue[i]
          /\ queue'[Len(queue) + 1] = e
      BY <1>1, <2>1, AppendElements
    <2>3. \A f : Queued(f) => Queued(f)'
      BY <1>1, <2>2 DEF Queued
    <2>4. \A f : Queued(f)' => Queued(f) \/ f = e
      BY <1>1, <2>2 DEF Queued
    <2>5. Queued(e)'
      BY <1>1, <2>2 DEF Queued
    <2>6. \A f : AtMostOnce(f) /\ (Queued(f) => f # e) => AtMostOnce(f)'
      BY <1>1, <2>2 DEF Queued, AtMostOnce
    <2>q. QED
      BY <1>1, <1>3, <2>1, <2>2, <2>3, <2>4, <2>5, <2>6
  <1>q. QED
    BY <1>2, <1>3

\* recv takes the oldest event and leaves the others.
LEMMA RecvEffect ==
  ASSUME TypeOK, Recv
  PROVE  /\ queue' \in Seq(Event) /\ Len(queue') <= QueueCap /\ ev' \in Event
         /\ \A f : Queued(f)' => Queued(f)
         /\ \A f : Queued(f) => Queued(f)' \/ ev' = f
         /\ \A f : AtMostOnce(f) => AtMostOnce(f)' /\ (ev' = f => ~Queued(f)')
         /\ ev'.what # "ignored" => pc' = "produce"
  <1>1. queue \in Seq(Event) /\ queue # <<>> /\ Len(queue) <= QueueCap /\ QueueCap \in Nat
    BY QueueCapAssumption DEF TypeOK, Recv
  <1>2. ev' = Head(queue) /\ queue' = Tail(queue)
    BY DEF Recv
  <1>3. /\ Len(queue) \in Nat /\ Len(queue) >= 1
        /\ ev' \in Event /\ ev' = queue[1]
        /\ queue' \in Seq(Event) /\ Len(queue') = Len(queue) - 1
        /\ \A i \in 1..Len(queue) - 1 : queue'[i] = queue[i + 1]
    BY <1>1, <1>2, TailElements
  <1>4. \A f : Queued(f)' => Queued(f)
    BY <1>3 DEF Queued
  <1>5. \A f : Queued(f) => Queued(f)' \/ ev' = f
    <2>1. SUFFICES ASSUME NEW f, NEW i \in 1..Len(queue), queue[i] = f, ev' # f
                   PROVE  Queued(f)'
      BY DEF Queued
    <2>2. i - 1 \in 1..Len(queue') /\ queue'[i - 1] = f
      BY <1>3, <2>1
    <2>q. QED
      BY <2>2 DEF Queued
  <1>6. ASSUME NEW f, AtMostOnce(f)
        PROVE  AtMostOnce(f)' /\ (ev' = f => ~Queued(f)')
    BY <1>3, <1>6 DEF Queued, AtMostOnce
  <1>7. ev'.what # "ignored" => pc' = "produce"
    BY DEF Recv
  <1>q. QED
    BY <1>1, <1>3, <1>4, <1>5, <1>6, <1>7

-----------------------------------------------------------------------------
(* Type correctness. *)

LEMMA StopTypes ==
  ASSUME TypeOK, NEW s \in {"success", "failure"}, Stop(s)
  PROVE  TypeOK'
  BY DEF destroy_timer, TypeOK, Stop

LEMMA TypeStep == TypeOK /\ [Next]_vars => TypeOK'
  <1> SUFFICES ASSUME TypeOK, [Next]_vars PROVE TypeOK'
    OBVIOUS
  <1>1. ASSUME NEW e \in Event, ProcEvent(e) PROVE TypeOK'
    BY <1>1, DeliverEffect DEF ProcEvent, KernelStep, kernelVars, TypeOK
  <1>2. CASE UserTouch
    BY <1>2, EventTypes, DeliverEffect DEF UserTouch, KernelStep, TypeOK
  <1>3. CASE Timer0Fire
    BY <1>3, EventTypes, DeliverEffect DEF Timer0Fire, KernelStep, TypeOK
  <1>4. CASE Timer1Fire
    BY <1>4, EventTypes, DeliverEffect DEF Timer1Fire, KernelStep, TypeOK
  <1>5. CASE Sigint
    BY <1>5 DEF Sigint, kernelVars, TypeOK
  <1>6. CASE LoopTest
    BY <1>6 DEF LoopTest, kernelVars, TypeOK
  <1>7. CASE Recv
    BY <1>7, RecvEffect DEF Recv, kernelVars, TypeOK
  <1>8. CASE ProduceProc \/ ProduceSample
    BY <1>8 DEF ProduceProc, ProduceSample, kernelVars, TypeOK
  <1>9. CASE ProduceBackToMid
    BY <1>9 DEF ProduceBackToMid, ReenableTouch, TypeOK
  <1>10. CASE ProduceTouch
    BY <1>10 DEF turn_on_temp_high_timer, ProduceTouch, TypeOK
  <1>11. CASE ActSample
    BY <1>11, EventTypes DEF turn_on_sampling_timer, ActSample, TypeOK
  <1>12. CASE ActOther
    BY <1>12, EventTypes DEF ActOther, kernelVars, TypeOK
  <1>13. CASE LoopExit \/ RecvError \/ RecvShutdown \/ HandlerExit
    BY <1>13, StopTypes DEF LoopExit, RecvError, RecvShutdown, HandlerExit
  <1>14. CASE Terminated \/ UNCHANGED vars
    BY <1>14 DEF Terminated, vars, TypeOK
  <1>q. QED
    BY <1>1, <1>2, <1>3, <1>4, <1>5, <1>6, <1>7, <1>8, <1>9, <1>10, <1>11, <1>12,
       <1>13, <1>14, EventTypes
       DEF Next, Kernel, Daemon, IgnoredEvent, ForkEvent, ExitEvent, ScreenEvent

LEMMA TypeInit == Init => TypeOK
  <1> SUFFICES ASSUME Init PROVE TypeOK
    OBVIOUS
  <1>1. queue \in Seq(Event) /\ Len(queue) = 0
    BY DEF initialize_timer, initialize_touch, Init
  <1>2. Ignored \in Event
    BY EventTypes
  <1>3. Len(queue) <= QueueCap
    BY <1>1, QueueCapAssumption
  <1>4. /\ overrun \in BOOLEAN /\ timer0 \in BOOLEAN /\ timer1 \in BOOLEAN
        /\ touchHappen \in BOOLEAN /\ needExit \in BOOLEAN /\ touchIsOn \in BOOLEAN
    BY DEF initialize_timer, initialize_touch, Init
  <1>5. /\ pc \in {"test", "recv", "produce", "act", "success", "failure"}
        /\ ev \in Event
    BY <1>2 DEF initialize_timer, initialize_touch, Init
  <1>q. QED
    BY <1>1, <1>3, <1>4, <1>5 DEF TypeOK

\* Every variable keeps its type, and the queue never outgrows the receive
\* buffer (importance.c, handle_proc_event).
THEOREM TypeCorrect == Spec => []TypeOK
  BY TypeInit, TypeStep, PTL DEF Spec

-----------------------------------------------------------------------------
(* The sampling heartbeat. *)

HeartbeatInv == TypeOK /\ HeartbeatNeverLost /\ HeartbeatUnique

\* The kernel's deliveries: all but timer 0's own leave the tick where it is.
LEMMA DeliverKeepsHeartbeat ==
  ASSUME HeartbeatInv, NEW e \in Event, e # Tick(0), Deliver(e),
         KernelStep, UNCHANGED timer0
  PROVE  HeartbeatNeverLost' /\ HeartbeatUnique'
  <1>1. TypeOK
    BY DEF HeartbeatInv
  <1>2. /\ Queued(Tick(0))' <=> Queued(Tick(0))
        /\ AtMostOnce(Tick(0)) => AtMostOnce(Tick(0))'
        /\ overrun => overrun'
    BY <1>1, DeliverEffect
  <1>q. QED
    BY <1>2 DEF HeartbeatInv, HeartbeatNeverLost, HeartbeatUnique, SamplePending,
                KernelStep, Running, Ended, InHand

\* Stopping moves no tick.
LEMMA StopKeepsHeartbeat ==
  ASSUME HeartbeatInv, NEW s \in {"success", "failure"}, Stop(s)
  PROVE  HeartbeatNeverLost' /\ HeartbeatUnique'
  <1>1. /\ Queued(Tick(0))' <=> Queued(Tick(0))
        /\ AtMostOnce(Tick(0)) <=> AtMostOnce(Tick(0))'
    BY DEF destroy_timer, Stop, Queued, AtMostOnce
  <1>2. (timer0' => timer0) /\ ~InHand' /\ Ended'
    BY DEF destroy_timer, HeartbeatInv, TypeOK, Stop, InHand, Ended
  <1>q. QED
    BY <1>1, <1>2 DEF HeartbeatInv, HeartbeatNeverLost, HeartbeatUnique, Running

\* A step that leaves the queue and timer 0 alone, and neither begins nor
\* finishes the handling of a sampling tick.
LEMMA QuietKeepsHeartbeat ==
  ASSUME HeartbeatInv, UNCHANGED <<queue, overrun, timer0>>,
         (InHand /\ ev = Tick(0))' <=> (InHand /\ ev = Tick(0)),
         Running' => Running
  PROVE  HeartbeatNeverLost' /\ HeartbeatUnique'
  <1>1. /\ Queued(Tick(0))' <=> Queued(Tick(0))
        /\ AtMostOnce(Tick(0)) <=> AtMostOnce(Tick(0))'
    BY DEF Queued, AtMostOnce
  <1>q. QED
    BY <1>1 DEF HeartbeatInv, HeartbeatNeverLost, HeartbeatUnique, SamplePending

LEMMA HeartbeatStep == HeartbeatInv /\ [Next]_vars => HeartbeatInv'
  <1> SUFFICES ASSUME HeartbeatInv, [Next]_vars
               PROVE  HeartbeatNeverLost' /\ HeartbeatUnique'
    BY TypeStep DEF HeartbeatInv
  <1>t. TypeOK
    BY DEF HeartbeatInv
  <1>1. ASSUME NEW e \in Event, e # Tick(0), ProcEvent(e)
        PROVE  HeartbeatNeverLost' /\ HeartbeatUnique'
    BY <1>1, DeliverKeepsHeartbeat DEF ProcEvent, kernelVars
  <1>2. CASE UserTouch
    BY <1>2, EventTypes, DeliverKeepsHeartbeat DEF UserTouch, Touch, Tick
  <1>3. CASE Timer0Fire
    \* The armed timer becomes the one queued tick, or the drop is recorded.
    <2>1. /\ timer0 /\ ~timer0' /\ UNCHANGED <<pc, ev>>
          /\ Tick(0) \in Event /\ Deliver(Tick(0))
      BY <1>3, EventTypes DEF Timer0Fire, KernelStep
    <2>2. ~Queued(Tick(0)) /\ ~(InHand /\ ev = Tick(0)) /\ AtMostOnce(Tick(0))
      BY <2>1 DEF HeartbeatInv, HeartbeatUnique
    <2>3. (~overrun' => Queued(Tick(0))') /\ AtMostOnce(Tick(0))'
      BY <1>t, <2>1, <2>2, DeliverEffect
    <2>q. QED
      BY <2>1, <2>2, <2>3 DEF HeartbeatNeverLost, HeartbeatUnique, SamplePending, InHand
  <1>4. CASE Timer1Fire
    BY <1>4, EventTypes, DeliverKeepsHeartbeat DEF Timer1Fire, Tick
  <1>5. CASE Sigint
    BY <1>5, QuietKeepsHeartbeat DEF Sigint, kernelVars, InHand, Running, Ended
  <1>6. CASE LoopTest
    BY <1>6, QuietKeepsHeartbeat DEF LoopTest, kernelVars, InHand, Running, Ended
  <1>7. CASE Recv
    \* A queued tick stays queued or becomes the event in hand.
    <2>1. /\ pc = "recv" /\ ~overrun /\ UNCHANGED <<overrun, timer0>>
          /\ pc' \in {"test", "produce"}
      BY <1>7 DEF Recv, kernelVars
    <2>2. /\ Queued(Tick(0))' => Queued(Tick(0))
          /\ Queued(Tick(0)) => Queued(Tick(0))' \/ ev' = Tick(0)
          /\ AtMostOnce(Tick(0)) => AtMostOnce(Tick(0))' /\ (ev' = Tick(0) => ~Queued(Tick(0))')
          /\ ev' = Tick(0) => pc' = "produce"
      BY <1>7, <1>t, RecvEffect DEF Tick
    <2>3. timer0 => ev' # Tick(0)
      <3>1. SUFFICES ASSUME ev' = Tick(0) PROVE Queued(Tick(0))
        BY DEF HeartbeatInv, HeartbeatUnique
      <3>2. queue \in Seq(Event) /\ queue # <<>> /\ Head(queue) = Tick(0)
        BY <1>7, <1>t, <3>1 DEF Recv, TypeOK
      <3>3. 1 \in 1..Len(queue) /\ queue[1] = Tick(0)
        BY <3>2, TailElements
      <3>q. QED
        BY <3>3 DEF Queued
    <2>q. QED
      BY <2>1, <2>2, <2>3
         DEF HeartbeatInv, HeartbeatNeverLost, HeartbeatUnique, SamplePending, InHand, Running, Ended
  <1>8. CASE ProduceProc \/ ProduceSample
    BY <1>8, QuietKeepsHeartbeat DEF ProduceProc, ProduceSample, kernelVars, InHand, Running, Ended
  <1>9. CASE ProduceBackToMid
    BY <1>9, QuietKeepsHeartbeat DEF ProduceBackToMid, InHand, Running, Ended
  <1>10. CASE ProduceTouch
    BY <1>10, QuietKeepsHeartbeat DEF turn_on_temp_high_timer, ProduceTouch, InHand, Running, Ended
  <1>11. CASE ActSample
    \* The tick in hand was the only one; the timer takes its place.
    <2>1. /\ InHand /\ ev = Tick(0) /\ timer0' /\ ~InHand' /\ UNCHANGED queue
      BY <1>11 DEF turn_on_sampling_timer, ActSample, InHand
    <2>2. ~Queued(Tick(0))' /\ AtMostOnce(Tick(0))'
      BY <2>1 DEF HeartbeatInv, HeartbeatUnique, Queued, AtMostOnce
    <2>q. QED
      BY <2>1, <2>2 DEF HeartbeatNeverLost, HeartbeatUnique, SamplePending
  <1>12. CASE ActOther
    BY <1>12, QuietKeepsHeartbeat DEF ActOther, kernelVars, InHand, Running, Ended
  <1>13. CASE LoopExit \/ RecvError \/ RecvShutdown \/ HandlerExit
    BY <1>13, StopKeepsHeartbeat DEF LoopExit, RecvError, RecvShutdown, HandlerExit
  <1>14. CASE Terminated \/ UNCHANGED vars
    BY <1>14, QuietKeepsHeartbeat DEF Terminated, vars, InHand, Running, Ended
  <1>15. /\ Ignored # Tick(0) /\ \A n : Screen(n) # Tick(0)
         /\ \A c, p : Fork(c, p) # Tick(0) /\ \A q : Exit(q) # Tick(0)
    BY DEF Ignored, Screen, Fork, Exit, Tick
  <1>q. QED
    BY <1>1, <1>2, <1>3, <1>4, <1>5, <1>6, <1>7, <1>8, <1>9, <1>10, <1>11, <1>12,
       <1>13, <1>14, <1>15, EventTypes
       DEF Next, Kernel, Daemon, IgnoredEvent, ForkEvent, ExitEvent, ScreenEvent

LEMMA HeartbeatInvariant == Spec => []HeartbeatInv
  <1>1. Init => HeartbeatInv
    <2>1. SUFFICES ASSUME Init PROVE HeartbeatNeverLost /\ HeartbeatUnique
      BY TypeInit DEF HeartbeatInv
    <2>2. timer0 /\ ~InHand /\ Len(queue) = 0
      BY <2>1 DEF initialize_timer, initialize_touch, Init, InHand
    <2>3. ~Queued(Tick(0)) /\ AtMostOnce(Tick(0))
      BY <2>2 DEF Queued, AtMostOnce
    <2>q. QED
      BY <2>2, <2>3 DEF HeartbeatNeverLost, HeartbeatUnique, SamplePending
  <1>q. QED
    BY <1>1, HeartbeatStep, PTL DEF Spec

\* While the daemon runs and no message was dropped, the next sampling tick is
\* on the way: in the timer, in the queue or in hand (timer.h:32-34,
\* importance.c:529-538).
THEOREM HeartbeatNeverLostAlways == Spec => []HeartbeatNeverLost
  BY HeartbeatInvariant, PTL DEF HeartbeatInv

\* ...and in one of these places only, so that no period is sampled twice.
THEOREM HeartbeatUniqueAlways == Spec => []HeartbeatUnique
  BY HeartbeatInvariant, PTL DEF HeartbeatInv

-----------------------------------------------------------------------------
(* The end of a boost. *)

BoostInv == TypeOK /\ BoostEndsLater

\* A delivery loses no token that ends a boost or reports a touch, unless it
\* records the loss.
LEMMA DeliverKeepsTokens ==
  ASSUME TypeOK, NEW e \in Event, Deliver(e), KernelStep, UNCHANGED timer1
  PROVE  /\ BoostEndPending => BoostEndPending'
         /\ TouchPending => TouchPending'
         /\ Running /\ Running' /\ (overrun => overrun')
  BY DeliverEffect DEF KernelStep, BoostEndPending, TouchPending, Running, Ended

\* The armed timer becomes a queued tick, or the drop is recorded.
LEMMA Timer1FireKeepsTokens ==
  ASSUME TypeOK, Timer1Fire
  PROVE  /\ ~overrun' => BoostEndPending'
         /\ TouchPending => TouchPending'
         /\ Running /\ (overrun => overrun') /\ UNCHANGED <<touchIsOn, touchHappen>>
  BY EventTypes, DeliverEffect
     DEF Timer1Fire, KernelStep, BoostEndPending, TouchPending

\* recv takes a token from the queue into the handler that uses it.
LEMMA RecvKeepsTokens ==
  ASSUME TypeOK, Recv
  PROVE  /\ BoostEndPending => BoostEndPending'
         /\ TouchPending => TouchPending'
         /\ Running /\ UNCHANGED <<overrun, touchIsOn, touchHappen>>
  <1>1. /\ \A f : Queued(f) => Queued(f)' \/ ev' = f
        /\ ev'.what # "ignored" => pc' = "produce"
    BY RecvEffect
  <1>2. Tick(1).what # "ignored" /\ Touch.what # "ignored"
    BY DEF Tick, Touch
  <1>3. pc = "recv" /\ UNCHANGED <<timer1, overrun, touchIsOn, touchHappen>>
    BY DEF Recv, kernelVars
  <1>q. QED
    BY <1>1, <1>2, <1>3 DEF BoostEndPending, TouchPending, Running, Ended

\* A step with the queue and timer 1 untouched that is not the handling of a
\* tick of timer 1 or of a touch.
LEMMA QuietKeepsTokens ==
  ASSUME UNCHANGED <<queue, overrun, timer1>>,
         pc = "produce" /\ ev \in {Tick(1), Touch} => UNCHANGED <<pc, ev>>,
         Running' => Running
  PROVE  /\ BoostEndPending => BoostEndPending'
         /\ TouchPending => TouchPending'
         /\ Running' => Running
  BY DEF BoostEndPending, TouchPending, Queued

LEMMA StopEnds ==
  ASSUME NEW s \in {"success", "failure"}, Stop(s)
  PROVE  Ended'
  BY DEF Stop, Ended

\* Steps of the loop itself, of the fork, exit and sampling handlers.
QuietStep ==
  Sigint \/ LoopTest \/ ProduceProc \/ ProduceSample \/ ActSample \/ ActOther
  \/ Terminated \/ UNCHANGED vars

LEMMA QuietStepKeepsTokens ==
  ASSUME TypeOK, QuietStep
  PROVE  /\ BoostEndPending => BoostEndPending'
         /\ TouchPending => TouchPending'
         /\ Running' => Running
         /\ UNCHANGED <<overrun, touchIsOn, touchHappen>>
  <1>1. UNCHANGED <<queue, overrun, timer1, touchIsOn, touchHappen>>
    BY DEF turn_on_sampling_timer, QuietStep, Sigint, LoopTest, ProduceProc, ProduceSample, ActSample, ActOther,
           Terminated, vars, kernelVars
  <1>2. /\ pc = "produce" /\ ev \in {Tick(1), Touch} => UNCHANGED <<pc, ev>>
        /\ Running' => Running
    BY DEF turn_on_sampling_timer, QuietStep, Sigint, LoopTest, ProduceProc, ProduceSample, ActSample, ActOther,
           Terminated, vars, Running, Ended, Tick, Touch
  <1>q. QED
    BY <1>1, <1>2, QuietKeepsTokens

LEMMA BoostStep == BoostInv /\ [Next]_vars => BoostInv'
  <1> SUFFICES ASSUME BoostInv, [Next]_vars
               PROVE  BoostEndsLater'
    BY TypeStep DEF BoostInv
  <1>t. TypeOK
    BY DEF BoostInv
  <1>1. ASSUME NEW e \in Event, ProcEvent(e) PROVE BoostEndsLater'
    BY <1>1, <1>t, DeliverKeepsTokens
       DEF ProcEvent, KernelStep, kernelVars, BoostInv, BoostEndsLater
  <1>2. CASE UserTouch \/ Timer0Fire
    BY <1>2, <1>t, EventTypes, DeliverKeepsTokens
       DEF UserTouch, Timer0Fire, KernelStep, BoostInv, BoostEndsLater
  <1>3. CASE Timer1Fire
    BY <1>3, <1>t, Timer1FireKeepsTokens DEF BoostEndsLater
  <1>4. CASE Recv
    BY <1>4, <1>t, RecvKeepsTokens DEF BoostInv, BoostEndsLater
  <1>5. CASE QuietStep
    BY <1>5, <1>t, QuietStepKeepsTokens DEF BoostInv, BoostEndsLater
  <1>6. CASE ProduceBackToMid
    BY <1>6 DEF ProduceBackToMid, BoostEndsLater
  <1>7. CASE ProduceTouch
    BY <1>7 DEF turn_on_temp_high_timer, ProduceTouch, BoostEndsLater, BoostEndPending
  <1>8. CASE LoopExit \/ RecvError \/ RecvShutdown \/ HandlerExit
    BY <1>8, StopEnds
       DEF LoopExit, RecvError, RecvShutdown, HandlerExit, BoostEndsLater, Running
  <1>q. QED
    BY <1>1, <1>2, <1>3, <1>4, <1>5, <1>6, <1>7, <1>8, EventTypes
       DEF Next, Kernel, Daemon, QuietStep, IgnoredEvent, ForkEvent, ExitEvent, ScreenEvent

\* touchIsOn, which suspends sampling, DPM and DVFS, is never left set without
\* the timer or the tick that clears it (importance.c:472-477 and 567-583).
THEOREM BoostEndsLaterAlways == Spec => []BoostEndsLater
  <1>1. Init => BoostInv
    BY TypeInit DEF initialize_timer, initialize_touch, Init, BoostInv, BoostEndsLater
  <1>q. QED
    BY <1>1, BoostStep, PTL DEF Spec, BoostInv

-----------------------------------------------------------------------------
(* The touch connector. *)

TouchInv == TypeOK /\ TouchReenabledLater

LEMMA TouchStep ==
  ASSUME SysfsFails = FALSE
  PROVE  TouchInv /\ [Next]_vars => TouchInv'
  <1> SUFFICES ASSUME TouchInv, [Next]_vars
               PROVE  TouchReenabledLater'
    BY TypeStep DEF TouchInv
  <1>t. TypeOK
    BY DEF TouchInv
  <1>1. ASSUME NEW e \in Event, ProcEvent(e) PROVE TouchReenabledLater'
    BY <1>1, <1>t, DeliverKeepsTokens
       DEF ProcEvent, KernelStep, kernelVars, TouchInv, TouchReenabledLater
  <1>2. CASE UserTouch
    \* The touch is reported, or its report is dropped and the drop recorded.
    BY <1>2, <1>t, EventTypes, DeliverEffect
       DEF UserTouch, TouchReenabledLater, TouchPending
  <1>3. CASE Timer0Fire
    BY <1>3, <1>t, EventTypes, DeliverKeepsTokens
       DEF Timer0Fire, KernelStep, TouchInv, TouchReenabledLater
  <1>4. CASE Timer1Fire
    BY <1>4, <1>t, Timer1FireKeepsTokens DEF TouchReenabledLater
  <1>5. CASE Recv
    BY <1>5, <1>t, RecvKeepsTokens DEF TouchInv, TouchReenabledLater
  <1>6. CASE QuietStep
    BY <1>6, <1>t, QuietStepKeepsTokens DEF TouchInv, TouchReenabledLater
  <1>7. CASE ProduceBackToMid
    BY <1>7, SysfsAssumption DEF ProduceBackToMid, ReenableTouch, TouchReenabledLater
  <1>8. CASE ProduceTouch
    BY <1>8 DEF turn_on_temp_high_timer, ProduceTouch, TouchReenabledLater, BoostEndPending
  <1>9. CASE LoopExit \/ RecvError \/ RecvShutdown \/ HandlerExit
    BY <1>9, StopEnds
       DEF LoopExit, RecvError, RecvShutdown, HandlerExit, TouchReenabledLater, Running
  <1>q. QED
    BY <1>1, <1>2, <1>3, <1>4, <1>5, <1>6, <1>7, <1>8, <1>9, EventTypes
       DEF Next, Kernel, Daemon, QuietStep, IgnoredEvent, ForkEvent, ExitEvent, ScreenEvent

\* If the unchecked write of reenable_touch works, the touch entry is never left
\* set with nothing on its way that will clear it, so the daemon does not go
\* deaf to touches (touch.c:99-107, importance.c:472-488).
THEOREM TouchReenabledLaterAlways ==
  ASSUME SysfsFails = FALSE
  PROVE  Spec => []TouchReenabledLater
  <1>1. Init => TouchInv
    BY TypeInit DEF initialize_timer, initialize_touch, Init, TouchInv, TouchReenabledLater
  <1>2. TouchInv /\ [Next]_vars => TouchInv'
    BY TouchStep
  <1>q. QED
    BY <1>1, <1>2, PTL DEF Spec, TouchInv

-----------------------------------------------------------------------------
(* EventLoop implements SamplingCycle. *)

\* A step that moves no sampling tick and does not stop the daemon leaves the
\* sampling stage alone.
LEMMA QuietStage ==
  ASSUME UNCHANGED timer0, Ended' <=> Ended,
         Queued(Tick(0))' <=> Queued(Tick(0)),
         (InHand /\ ev = Tick(0))' <=> (InHand /\ ev = Tick(0))
  PROVE  UNCHANGED SamplingStage
  BY DEF SamplingStage

LEMMA StageStep == HeartbeatInv /\ HeartbeatInv' /\ [Next]_vars => [Cycle!Next]_SamplingStage
  <1> SUFFICES ASSUME HeartbeatInv, HeartbeatInv', [Next]_vars
               PROVE  [Cycle!Next]_SamplingStage
    OBVIOUS
  <1>t. TypeOK /\ HeartbeatUnique /\ HeartbeatUnique' /\ HeartbeatNeverLost
    BY DEF HeartbeatInv
  <1>1. ASSUME NEW e \in Event, e # Tick(0), Deliver(e), KernelStep, UNCHANGED timer0
        PROVE  UNCHANGED SamplingStage
    <2>1. Queued(Tick(0))' <=> Queued(Tick(0))
      BY <1>1, <1>t, DeliverEffect
    <2>q. QED
      BY <1>1, <2>1, QuietStage DEF KernelStep, Ended, InHand
  <1>2. CASE Timer0Fire
    <2>1. SamplingStage = "armed"
      BY <1>2 DEF Timer0Fire, KernelStep, SamplingStage, Running
    <2>2. ~Ended' /\ ~timer0' /\ ~(InHand /\ ev = Tick(0))'
      BY <1>2, <1>t DEF Timer0Fire, KernelStep, HeartbeatUnique, Running, Ended, InHand
    <2>3. SamplingStage' \in {"due", "lost"}
      BY <2>2 DEF SamplingStage
    <2>q. QED
      BY <2>1, <2>3 DEF Cycle!Next, Cycle!PeriodEnds
  <1>3. CASE Recv
    <2>1. /\ pc = "recv" /\ ~InHand /\ ~Ended /\ ~Ended' /\ UNCHANGED timer0
          /\ pc' \in {"test", "produce"}
      BY <1>3 DEF Recv, kernelVars, Ended, InHand
    <2>2. /\ Queued(Tick(0))' => Queued(Tick(0))
          /\ Queued(Tick(0)) => Queued(Tick(0))' \/ ev' = Tick(0)
          /\ ev' = Tick(0) => pc' = "produce" /\ Queued(Tick(0))
      <3>1. queue \in Seq(Event) /\ queue # <<>> /\ ev' = Head(queue)
        BY <1>3, <1>t DEF Recv, TypeOK
      <3>2. 1 \in 1..Len(queue) /\ ev' = queue[1]
        BY <3>1, TailElements
      <3>3. ev' = Tick(0) => Queued(Tick(0))
        BY <3>2 DEF Queued
      <3>4. ev' = Tick(0) => ev'.what # "ignored"
        BY DEF Tick
      <3>q. QED
        BY <3>3, <3>4, <1>3, <1>t, RecvEffect
    <2>3. CASE ev' = Tick(0)
      <3>1. SamplingStage = "due"
        BY <2>1, <2>2, <2>3, <1>t DEF SamplingStage, HeartbeatUnique
      <3>2. SamplingStage' = "sampling"
        BY <2>1, <2>2, <2>3, <3>1, <1>t DEF SamplingStage, InHand, HeartbeatUnique
      <3>q. QED
        BY <3>1, <3>2 DEF Cycle!Next, Cycle!Begin
    <2>4. CASE ev' # Tick(0)
      BY <2>1, <2>2, <2>4, QuietStage DEF InHand
    <2>q. QED
      BY <2>3, <2>4
  <1>4. CASE ActSample
    <2>1. /\ ~Ended /\ InHand /\ ev = Tick(0) /\ ~Ended' /\ timer0'
      BY <1>4 DEF turn_on_sampling_timer, ActSample, Ended, InHand
    <2>2. SamplingStage = "sampling" /\ SamplingStage' = "armed"
      BY <2>1, <1>t DEF SamplingStage, HeartbeatUnique
    <2>q. QED
      BY <2>2 DEF Cycle!Next, Cycle!Restart
  <1>5. CASE LoopExit \/ RecvError \/ RecvShutdown \/ HandlerExit
    <2>1. ~Ended /\ Ended'
      BY <1>5, StopEnds DEF LoopExit, RecvError, RecvShutdown, HandlerExit, Ended
    <2>2. SamplingStage # "stopped" /\ SamplingStage' = "stopped"
      BY <2>1 DEF SamplingStage
    <2>q. QED
      BY <2>2 DEF Cycle!Next, Cycle!Stop
  <1>6. CASE ProduceBackToMid \/ ProduceTouch \/ (QuietStep /\ ~ActSample)
    <2>1. /\ UNCHANGED <<queue, timer0>>
          /\ Ended' <=> Ended
          /\ (InHand /\ ev = Tick(0))' <=> (InHand /\ ev = Tick(0))
      BY <1>6 DEF turn_on_temp_high_timer, ProduceBackToMid, ProduceTouch, QuietStep, Sigint, LoopTest, ProduceProc,
                  ProduceSample, ActOther, Terminated, vars, kernelVars, Ended, InHand
    <2>2. Queued(Tick(0))' <=> Queued(Tick(0))
      BY <2>1 DEF Queued
    <2>q. QED
      BY <2>1, <2>2, QuietStage
  <1>7. CASE UserTouch \/ Timer1Fire
    BY <1>7, <1>1, EventTypes DEF UserTouch, Timer1Fire, Touch, Tick
  <1>8. ASSUME NEW e \in Event, e # Tick(0), ProcEvent(e) PROVE UNCHANGED SamplingStage
    BY <1>8, <1>1 DEF ProcEvent, kernelVars
  <1>9. /\ Ignored # Tick(0) /\ \A n : Screen(n) # Tick(0)
        /\ \A c, p : Fork(c, p) # Tick(0) /\ \A q : Exit(q) # Tick(0)
    BY DEF Ignored, Screen, Fork, Exit, Tick
  <1>q. QED
    BY <1>2, <1>3, <1>4, <1>5, <1>6, <1>7, <1>8, <1>9, EventTypes
       DEF Next, Kernel, Daemon, QuietStep, IgnoredEvent, ForkEvent, ExitEvent, ScreenEvent

\* The event loop, its queue and timers implement the sampling cycle: no order
\* of events skips a period, samples one twice or starts one early.
THEOREM ImplementsSafeCycleAlways == Spec => ImplementsSafeCycle
  <1>1. Init => Cycle!Init
    BY DEF initialize_timer, initialize_touch, Init, Cycle!Init, SamplingStage, Ended
  <1>q. QED
    BY <1>1, StageStep, HeartbeatInvariant, PTL DEF Spec, ImplementsSafeCycle, Cycle!SafeSpec

=============================================================================
