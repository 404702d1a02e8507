--------------------------- MODULE SamplingCycle ---------------------------
(***************************************************************************)
(* What the event loop promises about utilization sampling, with no queue, *)
(* timer or program counter in sight: one period at a time, in order, each *)
(* one sampled once before the next begins, until the daemon stops.        *)
(***************************************************************************)

VARIABLE stage

Stages == {"armed",      \* the sampling period is running
           "due",        \* it is over and the sample is still to be taken
           "sampling",   \* the sample is being taken
           "lost",       \* its end was dropped; the daemon is about to stop
           "stopped"}

Init == stage = "armed"

PeriodEnds == stage = "armed"    /\ stage' \in {"due", "lost"}
Begin      == stage = "due"      /\ stage' = "sampling"
Restart    == stage = "sampling" /\ stage' = "armed"
Stop       == stage # "stopped"  /\ stage' = "stopped"

Next == PeriodEnds \/ Begin \/ Restart \/ Stop

SafeSpec == Init /\ [][Next]_stage

\* Every stage but the last is left.
Spec == SafeSpec /\ WF_stage(Next)

=============================================================================
