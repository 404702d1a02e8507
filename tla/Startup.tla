------------------------------ MODULE Startup ------------------------------
(***************************************************************************)
(* The event loop from main's first line on (importance.c, main;           *)
(* netlink.c).  main enables touches and starts the sampling timer before  *)
(* it subscribes to events, so a touch or a tick may be reported to nobody *)
(* while it is still on its way there.                                     *)
(*                                                                         *)
(* Abstractions: prioritize_self and initialize_cores come before the      *)
(* first step here and touch nothing of it; no other process subscribes,   *)
(* so nothing is delivered before this one has.                            *)
(***************************************************************************)
EXTENDS EventLoopSampling

VARIABLES phase,     \* how far main has come
          missed     \* history: what was reported to nobody and is not made good

Phase == {"touch", "threads", "timer", "signal", "socket", "subscribe", "listening"}

startVars == <<phase, missed>>
allVars   == <<vars, startVars>>

StartTypeOK == TypeOK /\ phase \in Phase /\ missed \subseteq {"tick", "touch"}

\* A daemon that ended before may have left its timers counting and the touch entry
\* set.
StartInit ==
  /\ phase = "touch"
  /\ queue = <<>> /\ overrun = FALSE
  /\ timer0 \in BOOLEAN /\ timer1 \in BOOLEAN /\ touchHappen \in BOOLEAN
  /\ missed = IF touchHappen THEN {"touch"} ELSE {}
  /\ touchIsOn = FALSE /\ needExit = FALSE
  /\ pc = "test" /\ ev = Ignored

Starting == phase # "listening" /\ Running

-----------------------------------------------------------------------------
(* main. *)

At(p, q) == Starting /\ phase = p /\ phase' = q

\* initialize_touch clears the entry.
InitializeTouch ==
  /\ At("touch", "threads")
  /\ ReenableTouch
  /\ missed' = IF touchHappen' THEN missed ELSE missed \ {"touch"}
  /\ UNCHANGED <<queue, overrun, timer0, timer1, needExit, pc, ev, touchIsOn>>

\* initialize_threads and initialize_activity take their time.
InitializeThreads == At("threads", "timer") /\ UNCHANGED <<vars, missed>>

InitializeTimer ==
  /\ At("timer", "signal")
  /\ timer0' = TRUE
  /\ missed' = missed \ {"tick"}
  /\ UNCHANGED <<queue, overrun, timer1, touchHappen, needExit, pc, ev, touchIsOn>>

CatchSigint == At("signal", "socket")       /\ UNCHANGED <<vars, missed>>
OpenSocket  == At("socket", "subscribe")    /\ UNCHANGED <<vars, missed>>

Subscribe   == At("subscribe", "listening") /\ UNCHANGED <<vars, missed>>

\* A file that does not open ends main by way of destruction; a socket that does not
\* open, or a subscription that cannot be sent, ends it at once, with timer 0 counting.
StartFails ==
  /\ Starting /\ UNCHANGED startVars
  /\ \/ phase = "timer" /\ Stop("failure")
     \/ /\ phase \in {"socket", "subscribe"}
        /\ pc' = "failure"
        /\ UNCHANGED <<queue, overrun, kernelVars, needExit, ev, touchIsOn>>

StartStep == \/ InitializeTouch \/ InitializeThreads \/ InitializeTimer
             \/ CatchSigint \/ OpenSocket \/ Subscribe

-----------------------------------------------------------------------------
(* Meanwhile. *)

\* A touch is reported to nobody, and none is reported again.
EarlyTouch ==
  /\ Starting /\ ~touchHappen
  /\ touchHappen' = TRUE
  /\ missed' = missed \cup {"touch"}
  /\ UNCHANGED <<queue, overrun, timer0, timer1, needExit, pc, ev, touchIsOn, phase>>

EarlyTick ==
  /\ Starting
  /\ \/ timer0 /\ timer0' = FALSE /\ timer1' = timer1 /\ missed' = missed \cup {"tick"}
     \/ timer1 /\ timer1' = FALSE /\ timer0' = timer0 /\ missed' = missed
  /\ UNCHANGED <<queue, overrun, touchHappen, needExit, pc, ev, touchIsOn, phase>>

\* Before signal() is called SIGINT kills the process; after it, on_sigint is called.
EarlySigint ==
  /\ Starting /\ UNCHANGED startVars
  /\ IF phase \in {"socket", "subscribe"}
     THEN needExit' = TRUE /\ pc' = pc
     ELSE needExit' = needExit /\ pc' = "failure"
  /\ UNCHANGED <<queue, overrun, kernelVars, ev, touchIsOn>>

-----------------------------------------------------------------------------
\* From then on the event loop.  A touch entry that is cleared is made good.
Listen(A) ==
  /\ phase = "listening" /\ phase' = phase
  /\ A
  /\ missed' = IF touchHappen' THEN missed ELSE missed \ {"touch"}

StartEnded == Ended /\ UNCHANGED allVars

StartNext == \/ StartStep \/ StartFails
             \/ EarlyTouch \/ EarlyTick \/ EarlySigint
             \/ Listen(Next)
             \/ StartEnded

StartSpec == StartInit /\ [][StartNext]_allVars

\* The scheduler runs the daemon (it has nice -20) and, once main listens, an armed timer
\* expires.  Nothing is assumed of the user, of SIGINT or of a failure.
StartFairSpec ==
  StartSpec /\ WF_allVars(StartStep) /\ WF_allVars(Listen(Daemon))
            /\ WF_allVars(Listen(Timer0Fire)) /\ WF_allVars(Listen(Timer1Fire))

-----------------------------------------------------------------------------
(* Properties. *)

Listening == phase = "listening"

\* The next sampling tick is always on its way once main listens, unless the first
\* one was sent before that (importance.c:176-189, then as HeartbeatNeverLost).
HeartbeatOnceListening == Listening /\ "tick" \notin missed => HeartbeatNeverLost

\* The touch entry is never left set with nothing on its way to clear it, unless it
\* was set before main listened, by a touch that was reported to nobody
\* (importance.c:176-189, touch.c:37-63).
TouchReenabledUnlessMissed == "touch" \notin missed => TouchReenabledLater

\* The sampling cycle from the start: armed while main initializes, and stopped for
\* good if the first tick was sent before main listened.
StartStage ==
  IF Ended \/ (phase \in {"signal", "socket", "subscribe", "listening"} /\ "tick" \in missed)
  THEN "stopped"
  ELSE IF Listening THEN SamplingStage
  ELSE "armed"

StartCycle == INSTANCE SamplingCycle WITH stage <- StartStage

\* Main arrives at sampling, and each period is sampled once, in any interleaving with
\* touches, screen changes, ticks and signals from the first line of main on; and if
\* it loses the first tick, nothing ever samples again (importance.c:167-203, 423-471,
\* 529-538).
StartsSamplingCycle == StartCycle!Spec

\* After every touch that was reported to the daemon, touches are reported again.
TouchServedUnlessMissed ==
  (Listening /\ touchHappen /\ "touch" \notin missed) ~> (~touchHappen \/ Ended)

\* SIGINT is honoured, also when it comes before recv or before main listens, by virtue
\* of the ticks that wake the loop: if their first is lost, it may not be.
SigintHonouredByTicks == needExit ~> (Ended \/ "tick" \in missed)

=============================================================================
