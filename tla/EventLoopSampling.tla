------------------------- MODULE EventLoopSampling -------------------------
(***************************************************************************)
(* EventLoop implements SamplingCycle: the stage of the sampling period    *)
(* read off the timer, the queue and the event in hand.                    *)
(***************************************************************************)
EXTENDS EventLoop

SamplingStage ==
  IF Ended THEN "stopped"
  ELSE IF timer0 THEN "armed"
  ELSE IF InHand /\ ev = Tick(0) THEN "sampling"
  ELSE IF Queued(Tick(0)) THEN "due"
  ELSE "lost"

Cycle == INSTANCE SamplingCycle WITH stage <- SamplingStage

\* Whatever order events, touches, screen changes and signals arrive in, each
\* sampling period is sampled once, then the next one starts (timer 0:
\* importance.c:423-471 and 529-538, timer.c:119-136).
ImplementsSafeCycle == Cycle!SafeSpec

=============================================================================
