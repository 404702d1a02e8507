-------------------------- MODULE ProfileSysProofs --------------------------
(***************************************************************************)
(* What is proved of the sampler (ProfileSys.tla): no work is lost between *)
(* its rows, whatever cores go off and come back, the cores are counted    *)
(* right from every list of ranges, and the terminal is given back but for *)
(* the window that TerminalRestored names.                                 *)
(***************************************************************************)
EXTENDS ProfileSys, FiniteSetTheorems, WellFoundedInduction, TLAPS

-----------------------------------------------------------------------------
(* The rows. *)

WorkTypes ==
  /\ work \in PerCore(0..MaxWork) /\ CPUInfo \in PerCore(0..MaxWork)
  /\ workload \in PerCore(0..MaxWork) /\ lastwork \in PerCore(0..MaxWork)
  /\ total \in PerCore(0..Cap)
  /\ handler \in {"off", "online", "stat", "row"}

\* A core's counter was read at most at its present value; the sample has that value
\* or, for a core that was off, 0; a core that was never missing has the value.
Sampled(c) ==
  /\ CPUInfo[c] <= work[c]
  /\ workload[c] \in {0, CPUInfo[c]}
  /\ c \notin absent => workload[c] = CPUInfo[c]

\* Between two rows the last row is the last sample, and the rows have all of it.
Settled(c) ==
  /\ lastwork[c] = workload[c]
  /\ total[c] >= CPUInfo[c]
  /\ c \notin absent => total[c] = CPUInfo[c]

\* Between a sample and its row, the rows with this one will have all of it.  The
\* difference is never negative.
Due(c) ==
  /\ workload[c] = 0 \/ lastwork[c] <= workload[c]
  /\ total[c] + curwork(c) >= CPUInfo[c]
  /\ c \notin absent => total[c] + curwork(c) = CPUInfo[c]

WorkInv ==
  /\ WorkTypes
  /\ \A c \in Core : /\ Sampled(c)
                     /\ IF handler = "row" THEN Due(c) ELSE Settled(c)

LEMMA Bounds == MaxWork \in Nat /\ Cap \in Nat /\ Cap = MaxWork + 1
  BY BoundAssumption DEF Cap

LEMMA MinPair ==
  ASSUME NEW a \in Int, NEW b \in Int
  PROVE  Min({a, b}) = IF a <= b THEN a ELSE b
  <1>1. PICK m : m = IF a <= b THEN a ELSE b
    OBVIOUS
  <1>2. m \in {a, b} /\ \A y \in {a, b} : m <= y
    BY <1>1
  <1>3. \A x \in {a, b} : (\A y \in {a, b} : x <= y) => x = m
    BY <1>1
  <1>4. Min({a, b}) \in {a, b} /\ \A y \in {a, b} : Min({a, b}) <= y
    BY <1>2 DEF Min
  <1> QED
    BY <1>1, <1>3, <1>4

LEMMA WorkInit ==
  ASSUME Init
  PROVE  WorkInv
  BY Bounds DEF Init, WorkInv, WorkTypes, PerCore, Sampled, Settled

\* What the sampler has is not touched by the kernel and by main.
LEMMA WorkKept ==
  ASSUME WorkInv, UNCHANGED <<CPUInfo, workload, lastwork, rows>>,
         work' \in PerCore(0..MaxWork), \A c \in Core : work[c] <= work'[c],
         handler' \in {"off", "online", "stat", "row"}, handler' = "row" <=> handler = "row"
  PROVE  WorkInv'
  BY Bounds DEF WorkInv, WorkTypes, PerCore, Sampled, Settled, Due, curwork, rows

\* The kernel works on.
LEMMA WorkWork ==
  ASSUME WorkInv, NEW c \in Core, Work(c)
  PROVE  WorkInv'
  <1>1. work' = [work EXCEPT ![c] = @ + 1] /\ work[c] < MaxWork /\ work \in PerCore(0..MaxWork)
    BY DEF Work, WorkInv, WorkTypes
  <1>2. work' \in PerCore(0..MaxWork) /\ \A d \in Core : work[d] <= work'[d]
    BY <1>1, Bounds DEF PerCore
  <1>3. UNCHANGED <<CPUInfo, workload, lastwork, rows>> /\ handler' = handler
    BY DEF Work, control, sample
  <1> QED
    BY <1>2, <1>3, WorkKept DEF WorkInv, WorkTypes

LEMMA WorkReadStat ==
  ASSUME WorkInv, ReadStat
  PROVE  WorkInv'
  <1>1. /\ handler = "stat" /\ handler' = "row" /\ UNCHANGED <<work, lastwork, total>>
        /\ CPUInfo' = [c \in Core |-> IF c \in online THEN work[c] ELSE CPUInfo[c]]
        /\ workload' = [c \in Core |-> IF c \in online THEN work[c] ELSE 0]
        /\ absent' = absent \cup (Core \ online)
    BY DEF ReadStat, HandlerStep, kernel
  <1>2. WorkTypes'
    BY <1>1, Bounds DEF WorkInv, WorkTypes, PerCore
  <1>3. ASSUME NEW c \in Core
        PROVE  Sampled(c)' /\ Due(c)'
    <2>1. /\ work[c] \in 0..MaxWork /\ CPUInfo[c] \in 0..MaxWork /\ workload[c] \in 0..MaxWork
          /\ lastwork[c] \in 0..MaxWork /\ total[c] \in 0..Cap
      BY DEF WorkInv, WorkTypes, PerCore
    <2>2. Sampled(c) /\ Settled(c)
      BY <1>1 DEF WorkInv
    <2>3. CASE c \in online
      <3>1. CPUInfo'[c] = work[c] /\ workload'[c] = work[c] /\ (c \in absent' <=> c \in absent)
        BY <1>1, <2>3
      <3> QED
        BY <1>1, <2>1, <2>2, <3>1, Bounds DEF Sampled, Settled, Due, curwork
    <2>4. CASE c \notin online
      <3>1. CPUInfo'[c] = CPUInfo[c] /\ workload'[c] = 0 /\ c \in absent'
        BY <1>1, <2>4
      <3> QED
        BY <1>1, <2>1, <2>2, <3>1, Bounds DEF Sampled, Settled, Due, curwork
    <2> QED
      BY <2>3, <2>4
  <1> QED
    BY <1>1, <1>2, <1>3 DEF WorkInv

LEMMA WorkWriteRow ==
  ASSUME WorkInv, handler = "row", handler' = "off", UNCHANGED work, WriteRow
  PROVE  WorkInv'
  <1>1. /\ total' = [c \in Core |-> Min({Cap, total[c] + curwork(c)})]
        /\ lastwork' = workload /\ UNCHANGED <<CPUInfo, workload, absent>>
    BY DEF WriteRow
  <1>2. ASSUME NEW c \in Core
        PROVE  total'[c] \in 0..Cap /\ Sampled(c)' /\ Settled(c)'
    <2>1. /\ work[c] \in 0..MaxWork /\ CPUInfo[c] \in 0..MaxWork /\ workload[c] \in 0..MaxWork
          /\ lastwork[c] \in 0..MaxWork /\ total[c] \in 0..Cap
      BY DEF WorkInv, WorkTypes, PerCore
    <2>2. Sampled(c) /\ Due(c)
      BY DEF WorkInv
    <2>3. PICK w : w = curwork(c)
      OBVIOUS
    <2>4. w \in Nat
      BY <2>1, <2>2, <2>3, Bounds DEF Due, curwork
    <2>5. total'[c] = Min({Cap, total[c] + w})
      BY <1>1, <2>3
    <2>6. total'[c] = IF Cap <= total[c] + w THEN Cap ELSE total[c] + w
      BY <2>1, <2>4, <2>5, Bounds, MinPair
    <2>7. total[c] + w >= CPUInfo[c] /\ (c \notin absent => total[c] + w = CPUInfo[c])
      BY <2>2, <2>3 DEF Due
    <2>8. Settled(c)'
      BY <1>1, <2>1, <2>4, <2>6, <2>7, Bounds DEF Settled
    <2>9. Sampled(c)'
      BY <1>1, <2>2 DEF Sampled
    <2> QED
      BY <2>1, <2>4, <2>6, <2>8, <2>9, Bounds
  <1>3. WorkTypes'
    BY <1>1, <1>2 DEF WorkInv, WorkTypes, PerCore
  <1> QED
    BY <1>2, <1>3 DEF WorkInv

LEMMA WorkStep ==
  ASSUME WorkInv, [Next]_vars
  PROVE  WorkInv'
  <1> DEFINE Quiet == UNCHANGED <<work, CPUInfo, workload, lastwork, rows>>
  <1>0. ASSUME Quiet, handler' \in {"off", "online", "stat", "row"}, handler' = "row" <=> handler = "row"
        PROVE  WorkInv'
    <2>1. work \in PerCore(0..MaxWork) /\ \A c \in Core : work[c] <= work[c]
      BY Bounds DEF WorkInv, WorkTypes, PerCore
    <2> QED
      BY <1>0, <2>1, WorkKept
  <1>1. CASE UNCHANGED vars
    BY <1>0, <1>1 DEF vars, kernel, control, sample, rows, WorkInv, WorkTypes
  <1>2. CASE \E c \in Core : Hotplug(c)
    BY <1>0, <1>2 DEF Hotplug, control, sample, rows, WorkInv, WorkTypes
  <1>3. CASE \E c \in Core : Work(c)
    BY <1>3, WorkWork
  <1>4. CASE \E key \in {"p", "other"} : TypeKey(key)
    BY <1>0, <1>4 DEF TypeKey, kernel, control, sample, rows, WorkInv, WorkTypes
  <1>5. CASE Alarm
    BY <1>0, <1>5 DEF Alarm, kernel, sample, rows, WorkInv, WorkTypes
  <1>6. CASE Main
    BY <1>0, <1>6 DEF Main, set_conio_terminal_mode, kbhit, ReadOther, ReadP, reset_terminal_mode,
                      MainStep, kernel, sample, rows, WorkInv, WorkTypes
  <1>7. CASE TakeAlarm \/ ReadOnline
    BY <1>0, <1>7 DEF TakeAlarm, ReadOnline, HandlerStep, kernel, sample, rows
  <1>8. CASE ReadStat
    BY <1>8, WorkReadStat
  <1>9. CASE RowAndReturn \/ RowAndExit
    BY <1>9, WorkWriteRow DEF RowAndReturn, RowAndExit, HandlerStep, kernel
  <1>10. CASE Terminated
    BY <1>1, <1>10 DEF Terminated
  <1> QED
    BY <1>1, <1>2, <1>3, <1>4, <1>5, <1>6, <1>7, <1>8, <1>9, <1>10 DEF Next, parse

\* The invariant of the rows.
THEOREM WorkInvariant == Spec => []WorkInv
  BY WorkInit, WorkStep, PTL DEF Spec

\* Up to the counter last read, every jiffy a core worked is in some row, though cores
\* go off and come back between samples and between the reads of one sample; and in one
\* row only, if the core was in every one (profile_sys.c:156-214).
THEOREM WorkReportedAlways == Spec => []WorkReported
  <1>1. WorkInv => WorkReported
    BY DEF WorkInv, WorkReported, Settled
  <1> QED
    BY <1>1, WorkInvariant, PTL

-----------------------------------------------------------------------------
(* The terminal. *)

\* Where main is when the flag is set, and what it has done to the terminal: the process
\* can end only from a state in which this says the terminal is restored or about to be.
StopInv ==
  /\ main \in {"start", "keys", "hit", "flagged", "spin", "ended"}
  /\ main \in {"start", "spin"} => terminal = "normal"
  /\ stopFlag = 1 => main \in {"flagged", "spin"}

LEMMA StopStep ==
  ASSUME StopInv, [Next]_vars
  PROVE  StopInv'
  <1>1. CASE UNCHANGED <<main, stopFlag, terminal>>
    BY <1>1 DEF StopInv
  <1>2. CASE Main
    BY <1>2 DEF Main, set_conio_terminal_mode, kbhit, ReadOther, ReadP, reset_terminal_mode,
                MainStep, StopInv
  <1>3. CASE RowAndExit
    BY <1>3 DEF RowAndExit, HandlerStep, StopInv
  <1>4. CASE TakeAlarm
    BY <1>4 DEF TakeAlarm, StopInv
  <1> QED
    BY <1>1, <1>2, <1>3, <1>4 DEF Next, vars, control, Hotplug, Work, TypeKey, Alarm, parse,
       ReadOnline, ReadStat, RowAndReturn, Terminated

\* The process gives the terminal back as it found it, but for the alarm that comes after
\* p was read and before main has called reset_terminal_mode (profile_sys.c:296-300).
THEOREM TerminalRestoredAlways == Spec => TerminalRestored
  <1>1. Init => StopInv
    BY DEF Init, StopInv
  <1>2. StopInv /\ [Next]_vars => StopInv'
    BY StopStep
  <1>3. ASSUME StopInv, [Next]_vars, main' = "ended"
        PROVE  terminal' = "normal" \/ main \in {"flagged", "ended"}
    <2>1. CASE main' = main
      BY <1>3, <2>1
    <2>2. CASE Main
      BY <1>3, <2>2 DEF Main, set_conio_terminal_mode, kbhit, ReadOther, ReadP, reset_terminal_mode, MainStep
    <2>3. CASE RowAndExit
      BY <1>3, <2>3 DEF RowAndExit, StopInv
    <2>4. CASE TakeAlarm
      BY <1>3, <2>4 DEF TakeAlarm
    <2> QED
      BY <1>3, <2>1, <2>2, <2>3, <2>4 DEF Next, vars, control, Hotplug, Work, TypeKey, Alarm, parse,
         ReadOnline, ReadStat, RowAndReturn, Terminated
  <1>4. StopInv /\ [Next]_vars =>
          [main' = "ended" => terminal' = "normal" \/ main \in {"flagged", "ended"}]_vars
    BY <1>3
  <1> QED
    BY <1>1, <1>2, <1>4, PTL DEF Spec, TerminalRestored

-----------------------------------------------------------------------------
(* The count of cores.  That the widths of the ranges add up is shown without  *)
(* an induction: the number of cores they name, less one for each range,       *)
(* solves the recursion of the sum, and there is no smallest set of ranges on  *)
(* which another solution differs.                                             *)

\* The cores a set of ranges names.
Cores(s) == UNION {r[1]..r[2] : r \in s}
Width(R) == MapThenSumSet(LAMBDA r : r[2] - r[1], R)

\* The recursion that defines the sum, which takes Some(s) off s first.
Some(s) == CHOOSE x \in s : TRUE
Solves(g, R) ==
  g = [s \in SUBSET R |-> IF s = {} THEN 0 ELSE (Some(s)[2] - Some(s)[1]) + g[s \ {Some(s)}]]

LEMMA WidthSolves ==
  ASSUME NEW R
  PROVE  Width(R) = (CHOOSE g : Solves(g, R))[R]
  BY DEF Width, MapThenSumSet, MapThenFoldSet, Solves, Some

LEMMA RangesFinite ==
  ASSUME NEW S \in SUBSET Core
  PROVE  /\ IsFiniteSet(S) /\ IsFiniteSet(Ranges(S))
         /\ Core \subseteq Int
         /\ \A r \in Ranges(S) : /\ r \in S \X S /\ r[1] \in Int /\ r[2] \in Int /\ r[1] <= r[2]
                                 /\ r[1]..r[2] \subseteq S
  <1>1. IsFiniteSet(Core) /\ Core \subseteq Int
    BY CpuNumAssumption, FS_Interval DEF Core
  <1>2. IsFiniteSet(S)
    BY <1>1, FS_Subset
  <1>3. IsFiniteSet(S \X S)
    BY <1>2, FS_Product
  <1>4. Ranges(S) \in SUBSET (S \X S)
    BY DEF Ranges
  <1>5. IsFiniteSet(Ranges(S))
    BY <1>3, <1>4, FS_Subset
  <1>6. \A r \in Ranges(S) : /\ r \in S \X S /\ r[1] \in Int /\ r[2] \in Int /\ r[1] <= r[2]
                             /\ r[1]..r[2] \subseteq S
    BY <1>1 DEF Ranges
  <1> QED
    BY <1>1, <1>2, <1>5, <1>6

LEMMA RangeEnds ==
  ASSUME NEW S \in SUBSET Core, NEW r \in Ranges(S)
  PROVE  /\ r = <<r[1], r[2]>> /\ r[1] \in Int /\ r[2] \in Int
         /\ r[1]..r[2] \subseteq S /\ r[1] - 1 \notin S /\ r[2] + 1 \notin S
  <1>1. r \in S \X S /\ r[1]..r[2] \subseteq S /\ r[1] - 1 \notin S /\ r[2] + 1 \notin S
    BY DEF Ranges
  <1>2. r = <<r[1], r[2]>>
    BY <1>1
  <1> QED
    BY <1>1, <1>2, RangesFinite

\* Two ranges have no core in common: one would go on where the other begins.
LEMMA RangesApart ==
  ASSUME NEW S \in SUBSET Core, NEW r \in Ranges(S), NEW q \in Ranges(S), r # q
  PROVE  (r[1]..r[2]) \cap (q[1]..q[2]) = {}
  <1>1. SUFFICES ASSUME NEW c \in r[1]..r[2], c \in q[1]..q[2] PROVE FALSE
    OBVIOUS
  <1>2. /\ r = <<r[1], r[2]>> /\ q = <<q[1], q[2]>>
        /\ r[1] \in Int /\ r[2] \in Int /\ q[1] \in Int /\ q[2] \in Int /\ c \in Int
        /\ r[1]..r[2] \subseteq S /\ q[1]..q[2] \subseteq S
        /\ r[1] - 1 \notin S /\ r[2] + 1 \notin S /\ q[1] - 1 \notin S /\ q[2] + 1 \notin S
    BY RangeEnds, <1>1
  <1>3. r[1] = q[1]
    <2>1. CASE r[1] < q[1]
      <3>1. q[1] - 1 \in r[1]..r[2]
        BY <1>1, <1>2, <2>1
      <3> QED
        BY <1>2, <3>1
    <2>2. CASE q[1] < r[1]
      <3>1. r[1] - 1 \in q[1]..q[2]
        BY <1>1, <1>2, <2>2
      <3> QED
        BY <1>2, <3>1
    <2> QED
      BY <1>2, <2>1, <2>2
  <1>4. r[2] = q[2]
    <2>1. CASE r[2] < q[2]
      <3>1. r[2] + 1 \in q[1]..q[2]
        BY <1>1, <1>2, <2>1
      <3> QED
        BY <1>2, <3>1
    <2>2. CASE q[2] < r[2]
      <3>1. q[2] + 1 \in r[1]..r[2]
        BY <1>1, <1>2, <2>2
      <3> QED
        BY <1>2, <3>1
    <2> QED
      BY <1>2, <2>1, <2>2
  <1> QED
    BY <1>2, <1>3, <1>4

\* Every core of a set is in one of its ranges: the widest run of cores round it.
LEMMA RangesCover ==
  ASSUME NEW S \in SUBSET Core
  PROVE  Cores(Ranges(S)) = S
  <1>1. Cores(Ranges(S)) \subseteq S
    BY RangesFinite DEF Cores
  <1>2. ASSUME NEW c \in S
        PROVE  \E r \in Ranges(S) : c \in r[1]..r[2]
    <2> DEFINE Runs == {r \in S \X S : r[1] <= c /\ c <= r[2] /\ r[1]..r[2] \subseteq S}
               Rest(r) == S \ (r[1]..r[2])
               Rests == {Rest(r) : r \in Runs}
    <2>1. S \subseteq Int /\ IsFiniteSet(S) /\ c \in Int
      BY RangesFinite
    <2>2. <<c, c>> \in Runs
      <3>1. c..c \subseteq S
        BY <2>1
      <3> QED
        BY <2>1, <3>1
    <2>3. Rests \subseteq SUBSET S /\ Rests # {}
      BY <2>2
    <2>4. IsWellFoundedOn(StrictSubsetOrdering(S), SUBSET S)
      BY <2>1, FS_StrictSubsetOrderingWellFounded, FS_FiniteSubsetsOfFinite
    <2>5. PICK t \in Rests : \A u \in Rests : <<u, t>> \notin StrictSubsetOrdering(S)
      <3> HIDE DEF Rests
      <3> QED
        BY <2>3, <2>4, WFMin
    <2>6. PICK r \in Runs : t = Rest(r)
      BY <2>5
    <2>7. \A q \in Runs : ~(Rest(q) \subseteq Rest(r) /\ Rest(q) # Rest(r))
      <3>1. ASSUME NEW q \in Runs, Rest(q) \subseteq Rest(r), Rest(q) # Rest(r) PROVE FALSE
        <4>1. PICK u : u = Rest(q)
          OBVIOUS
        <4>2. u \in Rests /\ u \in SUBSET S /\ t \in SUBSET S /\ u \subseteq t /\ u # t
          BY <2>6, <3>1, <4>1
        <4>3. <<u, t>> \in StrictSubsetOrdering(S)
          BY <4>2 DEF StrictSubsetOrdering
        <4> QED
          BY <2>5, <4>2, <4>3
      <3> QED
        BY <3>1
    <2>8. PICK a, b : a = r[1] /\ b = r[2]
      OBVIOUS
    <2>9. /\ r = <<a, b>> /\ a \in S /\ b \in S /\ a \in Int /\ b \in Int /\ a <= c /\ c <= b
          /\ a..b \subseteq S
      <3>1. r \in S \X S /\ a <= c /\ c <= b /\ a..b \subseteq S
        BY <2>6, <2>8
      <3>2. r = <<r[1], r[2]>>
        BY <3>1
      <3>3. a \in S /\ b \in S
        BY <2>8, <3>1
      <3> QED
        BY <2>1, <2>8, <3>1, <3>2, <3>3
    <2>10. a - 1 \notin S
      <3>1. SUFFICES ASSUME a - 1 \in S PROVE FALSE
        OBVIOUS
      <3>2. (a - 1)..b = (a..b) \cup {a - 1} /\ a - 1 \notin a..b
        BY <2>1, <2>9
      <3>3. <<a - 1, b>> \in Runs
        BY <2>1, <2>9, <3>1, <3>2
      <3>4. Rest(<<a - 1, b>>) = Rest(r) \ {a - 1} /\ a - 1 \in Rest(r)
        BY <2>8, <3>1, <3>2
      <3> QED
        BY <2>7, <3>3, <3>4
    <2>11. b + 1 \notin S
      <3>1. SUFFICES ASSUME b + 1 \in S PROVE FALSE
        OBVIOUS
      <3>2. a..(b + 1) = (a..b) \cup {b + 1} /\ b + 1 \notin a..b
        BY <2>1, <2>9
      <3>3. <<a, b + 1>> \in Runs
        BY <2>1, <2>9, <3>1, <3>2
      <3>4. Rest(<<a, b + 1>>) = Rest(r) \ {b + 1} /\ b + 1 \in Rest(r)
        BY <2>8, <3>1, <3>2
      <3> QED
        BY <2>7, <3>3, <3>4
    <2>12. r \in Ranges(S)
      BY <2>8, <2>9, <2>10, <2>11 DEF Ranges
    <2> QED
      BY <2>8, <2>9, <2>12
  <1> QED
    BY <1>1, <1>2 DEF Cores

\* A range more has as many cores more as it is wide, and one.
LEMMA CoresPeel ==
  ASSUME NEW S \in SUBSET Core, NEW s \in SUBSET Ranges(S), NEW r \in s
  PROVE  /\ IsFiniteSet(Cores(s)) /\ Cardinality(Cores(s)) \in Nat
         /\ Cardinality(Cores(s)) = (r[2] - r[1]) + 1 + Cardinality(Cores(s \ {r}))
  <1>1. PICK A : A = r[1]..r[2]
    OBVIOUS
  <1>2. PICK B : B = Cores(s \ {r})
    OBVIOUS
  <1>3. Cores(s) \in SUBSET S /\ B \in SUBSET S /\ IsFiniteSet(S)
    BY <1>2, RangesFinite DEF Cores
  <1>4. IsFiniteSet(Cores(s)) /\ Cardinality(Cores(s)) \in Nat /\ IsFiniteSet(B)
    BY <1>3, FS_Subset, FS_CardinalityType
  <1>5. Cores(s) = A \cup B
    BY <1>1, <1>2 DEF Cores
  <1>6. A \cap B = {}
    BY <1>1, <1>2, RangesApart DEF Cores
  <1>7. r[1] \in Int /\ r[2] \in Int /\ r[1] <= r[2]
    BY RangesFinite
  <1>8. IsFiniteSet(A) /\ Cardinality(A) = (r[2] - r[1]) + 1
    BY <1>1, <1>7, FS_Interval
  <1>9. Cardinality(A \cup B) = Cardinality(A) + Cardinality(B) - Cardinality({})
    BY <1>4, <1>6, <1>8, FS_Union
  <1>10. Cardinality({}) = 0 /\ Cardinality(B) \in Nat
    BY <1>4, FS_EmptySet, FS_CardinalityType
  <1> QED
    BY <1>2, <1>4, <1>5, <1>7, <1>8, <1>9, <1>10

\* The sum of the widths of some ranges: the cores they name, less one for each.
Spread(s) == Cardinality(Cores(s)) - Cardinality(s)

LEMMA SpreadOfNone == Spread({}) = 0
  <1>1. Cores({}) = {}
    BY DEF Cores
  <1> QED
    BY <1>1, FS_EmptySet DEF Spread

LEMMA SpreadPeels ==
  ASSUME NEW S \in SUBSET Core, NEW s \in SUBSET Ranges(S), s # {}
  PROVE  /\ Some(s) \in s
         /\ Spread(s) = (Some(s)[2] - Some(s)[1]) + Spread(s \ {Some(s)})
  <1>1. Some(s) \in s
    BY DEF Some
  <1>2. PICK r : r = Some(s)
    OBVIOUS
  <1>3. PICK t : t = s \ {r}
    OBVIOUS
  <1>4. IsFiniteSet(s) /\ IsFiniteSet(t)
    BY <1>3, RangesFinite, FS_Subset
  <1>5. Cardinality(t) = Cardinality(s) - 1 /\ Cardinality(s) \in Nat
    BY <1>1, <1>2, <1>3, <1>4, FS_RemoveElement, FS_CardinalityType
  <1>6. Cardinality(Cores(s)) = (r[2] - r[1]) + 1 + Cardinality(Cores(t))
    BY <1>1, <1>2, <1>3, CoresPeel
  <1>7. Cores(t) \in SUBSET S /\ IsFiniteSet(S)
    BY <1>3, RangesFinite DEF Cores
  <1>8. Cardinality(Cores(t)) \in Nat
    BY <1>7, FS_Subset, FS_CardinalityType
  <1>9. r[1] \in Int /\ r[2] \in Int
    BY <1>1, <1>2, RangesFinite
  <1>10. Spread(s) = (r[2] - r[1]) + Spread(t)
    BY <1>5, <1>6, <1>8, <1>9 DEF Spread
  <1> QED
    BY <1>1, <1>2, <1>3, <1>10

LEMMA SpreadSolves ==
  ASSUME NEW S \in SUBSET Core
  PROVE  Solves([s \in SUBSET Ranges(S) |-> Spread(s)], Ranges(S))
  <1> DEFINE g == [s \in SUBSET Ranges(S) |-> Spread(s)]
  <1>1. ASSUME NEW s \in SUBSET Ranges(S)
        PROVE  g[s] = IF s = {} THEN 0 ELSE (Some(s)[2] - Some(s)[1]) + g[s \ {Some(s)}]
    BY SpreadOfNone, SpreadPeels
  <1>2. g = [s \in SUBSET Ranges(S) |-> g[s]]
    OBVIOUS
  <1>3. [s \in SUBSET Ranges(S) |-> g[s]] =
          [s \in SUBSET Ranges(S) |->
             IF s = {} THEN 0 ELSE (Some(s)[2] - Some(s)[1]) + g[s \ {Some(s)}]]
    BY <1>1
  <1> QED
    BY <1>2, <1>3 DEF Solves

LEMMA SolutionIsSpread ==
  ASSUME NEW S \in SUBSET Core, NEW g, Solves(g, Ranges(S))
  PROVE  \A s \in SUBSET Ranges(S) : g[s] = Spread(s)
  <1>1. \A s \in SUBSET Ranges(S) :
          g[s] = IF s = {} THEN 0 ELSE (Some(s)[2] - Some(s)[1]) + g[s \ {Some(s)}]
    BY DEF Solves
  <1> DEFINE Wrong == {s \in SUBSET Ranges(S) : g[s] # Spread(s)}
  <1>2. SUFFICES ASSUME Wrong # {} PROVE FALSE
    OBVIOUS
  <1>3. IsWellFoundedOn(StrictSubsetOrdering(Ranges(S)), SUBSET Ranges(S))
    BY RangesFinite, FS_StrictSubsetOrderingWellFounded, FS_FiniteSubsetsOfFinite
  <1>4. PICK s \in Wrong : \A t \in Wrong : <<t, s>> \notin StrictSubsetOrdering(Ranges(S))
    BY <1>2, <1>3, WFMin
  <1>5. s # {}
    BY <1>1, <1>4, SpreadOfNone
  <1>6. PICK r : r = s \ {Some(s)}
    OBVIOUS
  <1>7. /\ Some(s) \in s /\ r \in SUBSET Ranges(S)
        /\ Spread(s) = (Some(s)[2] - Some(s)[1]) + Spread(r)
    BY <1>4, <1>5, <1>6, SpreadPeels
  <1>8. g[s] = (Some(s)[2] - Some(s)[1]) + g[r]
    BY <1>1, <1>4, <1>5, <1>6
  <1>9. r \in Wrong
    BY <1>4, <1>7, <1>8
  <1>10. <<r, s>> \in StrictSubsetOrdering(Ranges(S))
    BY <1>4, <1>6, <1>7 DEF StrictSubsetOrdering
  <1> QED
    BY <1>4, <1>9, <1>10

LEMMA WidthIsSpread ==
  ASSUME NEW S \in SUBSET Core
  PROVE  Width(Ranges(S)) = Spread(Ranges(S))
  <1>1. \E g : Solves(g, Ranges(S))
    BY SpreadSolves
  <1>2. PICK g : g = CHOOSE h : Solves(h, Ranges(S))
    OBVIOUS
  <1>3. Solves(g, Ranges(S))
    BY <1>1, <1>2
  <1>4. g[Ranges(S)] = Spread(Ranges(S))
    BY <1>3, SolutionIsSpread
  <1> QED
    BY <1>2, <1>4, WidthSolves

\* The list of ranges counts the cores it names, whichever they are.
LEMMA CountIsRight ==
  ASSUME NEW S \in SUBSET Core
  PROVE  CountOnline(S) = Cardinality(S)
  <1>1. CountOnline(S) = 1 + (Cardinality(Ranges(S)) - 1) + Width(Ranges(S))
    BY DEF CountOnline, Width
  <1>2. Width(Ranges(S)) = Cardinality(S) - Cardinality(Ranges(S))
    BY WidthIsSpread, RangesCover DEF Spread
  <1>3. Cardinality(Ranges(S)) \in Nat /\ Cardinality(S) \in Nat
    BY RangesFinite, FS_CardinalityType
  <1> QED
    BY <1>1, <1>2, <1>3

\* "profile # of cpu on" (profile_sys.c:135): for up to ten cores, whose ids are one digit,
\* the count taken from the list of ranges is the number of cores that were on.
THEOREM CpuOnAlwaysCounts == Spec => CpuOnCounts
  <1>1. Init => online \subseteq Core
    BY DEF Init
  <1>2. online \subseteq Core /\ [Next]_vars => (online \subseteq Core)'
    <2> SUFFICES ASSUME online \subseteq Core, [Next]_vars PROVE online' \subseteq Core
      OBVIOUS
    <2>1. CASE \E c \in Core : Hotplug(c)
      BY <2>1 DEF Hotplug
    <2>2. CASE UNCHANGED online
      BY <2>2
    <2> QED
      BY <2>1, <2>2 DEF Next, vars, kernel, Work, TypeKey, Alarm, Main, set_conio_terminal_mode, kbhit,
         ReadOther, ReadP, reset_terminal_mode, MainStep, parse, TakeAlarm, ReadOnline, ReadStat,
         RowAndReturn, RowAndExit, HandlerStep, Terminated
  <1>3. online \subseteq Core /\ [Next]_vars =>
          [handler = "online" /\ handler' = "stat" => cpu_on' = Cardinality(online)]_vars
    <2> SUFFICES ASSUME online \subseteq Core, [Next]_vars, handler = "online", handler' = "stat"
                 PROVE  cpu_on' = Cardinality(online)
      OBVIOUS
    <2>1. ReadOnline
      BY DEF Next, vars, control, Hotplug, Work, TypeKey, Alarm, Main, set_conio_terminal_mode, kbhit,
         ReadOther, ReadP, reset_terminal_mode, MainStep, parse, TakeAlarm, ReadOnline, ReadStat,
         RowAndReturn, RowAndExit, HandlerStep, Terminated
    <2> QED
      BY <2>1, CountIsRight DEF ReadOnline
  <1> QED
    BY <1>1, <1>2, <1>3, PTL DEF Spec, CpuOnCounts

=============================================================================
