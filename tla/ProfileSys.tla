----------------------------- MODULE ProfileSys -----------------------------
(***************************************************************************)
(* The sampler that the experiments run beside the daemon (profile_sys.c). *)
(* main waits for the key p; parse, the handler of a periodic SIGALRM,     *)
(* interrupts it at any point, appends a row to the output file and, once  *)
(* main has asked for it, stops the timer and ends the process.            *)
(*                                                                         *)
(* Abstractions: a row is the count of cores and the work of each core     *)
(* since the row before; frequency, context switches and the ratio util    *)
(* are left out.  The kernel may turn cores on and off, and cores may      *)
(* work, between any two reads of the handler.                             *)
(***************************************************************************)
EXTENDS Integers, Sequences, FiniteSets, FiniteSetsExt

CONSTANTS CPU_NUM,     \* CPU_NUM
          Worker,      \* bound: the cores that do work
          MaxWork,     \* bound: work a core does
          MaxKeys      \* bound: keys typed and not yet handed to main

\* The ids of the cores are one digit each.
ASSUME CpuNumAssumption  == CPU_NUM \in 1..10
ASSUME BoundAssumption   == MaxWork \in Nat /\ MaxKeys \in Nat

Core == 0..CPU_NUM - 1

ASSUME WorkerAssumption == Worker \subseteq Core

VARIABLES online, work,        \* the kernel: cores that are on, jiffies each has worked
          keys,                \* typed and not yet read from descriptor 0
          stdinBuf,            \* the buffer of stdin: read and not yet handed to main
          armed, pending,      \* the interval timer; an alarm not yet handled
          main, handler,       \* where the two are
          stopFlag, terminal,
          cpu_on,
          CPUInfo,             \* the work counters last read, kept while a core is off
          workload, lastwork,  \* the counters of this sample and of the last row
          total, absent        \* history: work in all rows; cores ever missing from one

kernel  == <<online, work>>
input   == <<keys, stdinBuf>>
control == <<armed, pending, main, handler, stopFlag, terminal>>
sample  == <<cpu_on, CPUInfo, workload, lastwork>>
rows    == <<total, absent>>
vars    == <<kernel, input, control, sample, rows>>

PerCore(S) == [Core -> S]
Cap        == MaxWork + 1      \* total counts no further
Ended      == main = "ended"

TypeOK ==
  /\ online \subseteq Core /\ work \in PerCore(0..MaxWork)
  /\ keys \in Seq({"p", "other"}) /\ stdinBuf \in Seq({"p", "other"})
  /\ armed \in BOOLEAN /\ pending \in BOOLEAN
  /\ main \in {"start", "keys", "hit", "flagged", "spin", "ended"}
  /\ handler \in {"off", "online", "stat", "row"}
  /\ stopFlag \in 0..2 /\ terminal \in {"normal", "raw"}
  /\ cpu_on \in 0..CPU_NUM
  /\ CPUInfo \in PerCore(0..MaxWork) /\ workload \in PerCore(0..MaxWork)
  /\ lastwork \in PerCore(0..MaxWork)
  /\ total \in PerCore(0..Cap) /\ absent \subseteq Core

\* main when setitimer has armed the timer.
Init ==
  /\ online \in {S \in SUBSET Core : 0 \in S}
  /\ work \in PerCore(0..MaxWork) /\ \A c \in Core \ Worker : work[c] = 0
  /\ keys = <<>> /\ stdinBuf = <<>>
  /\ armed = TRUE /\ pending = FALSE
  /\ main = "start" /\ handler = "off"
  /\ stopFlag = 0 /\ terminal = "normal"
  /\ cpu_on = 0
  /\ CPUInfo = [c \in Core |-> 0] /\ workload = [c \in Core |-> 0]
  /\ lastwork = [c \in Core |-> 0]
  /\ total = [c \in Core |-> 0] /\ absent = {}

-----------------------------------------------------------------------------
(* The kernel and the user. *)

Hotplug(c) ==
  /\ c # 0
  /\ online' = IF c \in online THEN online \ {c} ELSE online \cup {c}
  /\ UNCHANGED <<work, input, control, sample, rows>>

Work(c) ==
  /\ c \in online \cap Worker /\ work[c] < MaxWork
  /\ work' = [work EXCEPT ![c] = @ + 1]
  /\ UNCHANGED <<online, input, control, sample, rows>>

TypeKey(key) ==
  /\ Len(keys) + Len(stdinBuf) < MaxKeys
  /\ keys' = Append(keys, key)
  /\ UNCHANGED <<kernel, stdinBuf, control, sample, rows>>

\* The timer reloads itself, and alarms that find one pending are lost.
Alarm ==
  /\ armed /\ ~Ended
  /\ pending' = TRUE
  /\ UNCHANGED <<kernel, input, armed, main, handler, stopFlag, terminal, sample, rows>>

-----------------------------------------------------------------------------
(* main.  It runs only while no handler does. *)

MainStep(from, to) ==
  /\ handler = "off" /\ main = from /\ main' = to
  /\ UNCHANGED <<kernel, armed, pending, handler, sample, rows>>

set_conio_terminal_mode ==
  /\ MainStep("start", "keys")
  /\ terminal' = "raw"
  /\ UNCHANGED <<input, stopFlag>>

\* select sees descriptor 0, and not what is in the buffer of stdin.
kbhit ==
  /\ MainStep("keys", "hit")
  /\ keys # <<>>
  /\ UNCHANGED <<input, stopFlag, terminal>>

\* fgetc hands over the first key of the buffer, which it fills with all that can be
\* read when it is empty; when there is nothing to read it waits.
fgetc(c) ==
  /\ stdinBuf \o keys # <<>> /\ c = Head(stdinBuf \o keys)
  /\ IF stdinBuf = <<>> THEN stdinBuf' = Tail(keys) /\ keys' = <<>>
                        ELSE stdinBuf' = Tail(stdinBuf) /\ UNCHANGED keys

ReadOther ==
  /\ MainStep("hit", "keys")
  /\ fgetc("other")
  /\ UNCHANGED <<stopFlag, terminal>>

ReadP ==
  /\ MainStep("hit", "flagged")
  /\ fgetc("p")
  /\ stopFlag' = 1
  /\ UNCHANGED terminal

\* Mutation of reset_terminal_mode: left to the atexit call that is commented out.
reset_terminal_mode_atexit ==
  /\ MainStep("flagged", "spin")
  /\ UNCHANGED <<input, stopFlag, terminal>>

reset_terminal_mode ==
  /\ MainStep("flagged", "spin")
  /\ terminal' = "normal"
  /\ UNCHANGED <<input, stopFlag>>

\* Last comes while(stopFlag != 2).  stopFlag is not volatile, so the loop may be
\* compiled to one without an end: main takes no step from "spin".

-----------------------------------------------------------------------------
(* parse, which blocks its own signal while it runs. *)

HandlerStep(from, to) ==
  /\ handler = from /\ handler' = to
  /\ UNCHANGED <<kernel, input>>

\* An alarm that interrupts select leaves the set of descriptors as it was, with
\* descriptor 0 in it: kbhit, which does not look at what select returns, says that
\* there is a key.
TakeAlarm ==
  /\ HandlerStep("off", "online")
  /\ pending /\ ~Ended
  /\ pending' = FALSE
  /\ main' = main \/ (main = "keys" /\ main' = "hit")
  /\ UNCHANGED <<armed, stopFlag, terminal, sample, rows>>

\* /sys/devices/system/cpu/online lists the ranges of S, as in "0,2-3".
Ranges(S) == {r \in S \X S : /\ r[1] <= r[2] /\ r[1]..r[2] \subseteq S
                             /\ r[1] - 1 \notin S /\ r[2] + 1 \notin S}

\* Mutation of CountOnline: a dash adds the core after it and no other.
CountOnlineDash(S) ==
  1 + (Cardinality(Ranges(S)) - 1) + Cardinality({r \in Ranges(S) : r[1] < r[2]})

\* 1, and 1 for each comma, and the difference of the digits round each dash.
CountOnline(S) ==
  1 + (Cardinality(Ranges(S)) - 1) + MapThenSumSet(LAMBDA r : r[2] - r[1], Ranges(S))

ReadOnline ==
  /\ HandlerStep("online", "stat")
  /\ cpu_on' = CountOnline(online)
  /\ UNCHANGED <<armed, pending, main, stopFlag, terminal, CPUInfo, workload, lastwork, rows>>

\* /proc/stat has a line for each core that is on.
ReadStat ==
  /\ HandlerStep("stat", "row")
  /\ CPUInfo' = [c \in Core |-> IF c \in online THEN work[c] ELSE CPUInfo[c]]
  /\ workload' = [c \in Core |-> IF c \in online THEN work[c] ELSE 0]
  /\ absent' = absent \cup (Core \ online)
  /\ UNCHANGED <<armed, pending, main, stopFlag, terminal, cpu_on, lastwork, total>>

\* What the row says of a core.
curwork(c) == IF workload[c] = 0 THEN 0 ELSE workload[c] - lastwork[c]

\* Mutation of WriteRow: the next difference is taken from the counters as they
\* are now, not as they were read.
WriteRowReread ==
  /\ total' = [c \in Core |-> Min({Cap, total[c] + curwork(c)})]
  /\ lastwork' = [c \in Core |-> IF c \in online THEN work[c] ELSE 0]
  /\ UNCHANGED <<cpu_on, CPUInfo, workload, absent>>

WriteRow ==
  /\ total' = [c \in Core |-> Min({Cap, total[c] + curwork(c)})]
  /\ lastwork' = workload
  /\ UNCHANGED <<cpu_on, CPUInfo, workload, absent>>

RowAndReturn ==
  /\ HandlerStep("row", "off")
  /\ stopFlag # 1
  /\ WriteRow
  /\ UNCHANGED <<armed, pending, main, stopFlag, terminal>>

\* Mutation of RowAndExit: exit(0) left out, main is to see stopFlag.
RowAndReturnStopped ==
  /\ HandlerStep("row", "off")
  /\ stopFlag = 1
  /\ WriteRow
  /\ armed' = FALSE /\ stopFlag' = 2
  /\ UNCHANGED <<pending, main, terminal>>

\* The handler that finds stopFlag set disarms the timer and calls exit(0).
RowAndExit ==
  /\ HandlerStep("row", "off")
  /\ stopFlag = 1
  /\ WriteRow
  /\ armed' = FALSE /\ stopFlag' = 2 /\ main' = "ended"
  /\ UNCHANGED <<pending, terminal>>

Terminated == Ended /\ UNCHANGED vars

-----------------------------------------------------------------------------
Main  == set_conio_terminal_mode \/ kbhit \/ ReadOther \/ ReadP \/ reset_terminal_mode
parse == TakeAlarm \/ ReadOnline \/ ReadStat \/ RowAndReturn \/ RowAndExit

Next ==
  \/ \E c \in Core : Hotplug(c) \/ Work(c)
  \/ \E key \in {"p", "other"} : TypeKey(key)
  \/ Alarm
  \/ Main \/ parse
  \/ Terminated

Spec == Init /\ [][Next]_vars

\* An armed timer expires and its handler runs.  The period is longer than one
\* run of the handler, so main runs again and again between two of them.
FairSpec == Spec /\ WF_vars(Alarm) /\ WF_vars(parse) /\ SF_vars(Main)

-----------------------------------------------------------------------------
(* Properties. *)

\* "profile # of cpu on" (profile_sys.c:135): the count taken from the list of
\* ranges is the number of cores that were on, whichever ranges they form.
CpuOnCounts ==
  [][handler = "online" /\ handler' = "stat" => cpu_on' = Cardinality(online)]_vars

\* Up to the counter last read, every jiffy a core worked is in some row, though
\* cores go off and come back between samples and between the reads of one
\* sample; and in one row only, if the core was in every one (profile_sys.c:156-214).
WorkReported ==
  handler = "off" => \A c \in Core : /\ total[c] >= CPUInfo[c]
                                     /\ c \notin absent => total[c] = CPUInfo[c]

\* "continue until user pressed 'p'" (profile_sys.c:284): a p ends the process, wherever
\* the alarms fall (under FairSpec), if it is the next key to be read or if it is in the
\* buffer of stdin and another key is typed after it.  No more holds: a p that fgetc read
\* into the buffer together with the key before it is not seen by kbhit, and may wait
\* there for ever (profile_sys.c:61-71, 289-293).
PEndsSampling ==
  (keys # <<>> /\ \E i \in 1..Len(stdinBuf) + 1 : (stdinBuf \o keys)[i] = "p") ~> Ended

\* The terminal is given back in the mode it was found in, but for one window: the
\* alarm comes after p was read and before main has called reset_terminal_mode
\* (profile_sys.c:296-300; the atexit call of line 87 is commented out).
TerminalRestored == [][main' = "ended" => terminal' = "normal" \/ main \in {"flagged", "ended"}]_vars

=============================================================================
