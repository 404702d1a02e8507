-------------------------------- MODULE Dvfs --------------------------------
(***************************************************************************)
(* Frequency scaling (core.c, DVFS and getProperFreq), with the sampling   *)
(* it reads (thread.c, calculate_utilization) and the touches that suspend *)
(* it (importance.c).                                                      *)
(*                                                                         *)
(* DVFS runs after a sampling tick, a screen event and the end of a boost; *)
(* a touch sets the highest frequency itself.  Only a sampling tick        *)
(* measures: the other two callers find what the last tick left, with      *)
(* cores switched and threads booked otherwise since.                      *)
(*                                                                         *)
(* Abstractions: of the cores only the busiest is kept.  Utilizations are  *)
(* integers, and the average of the two history entries is kept doubled,   *)
(* so rounding does not enter.  The weight by which the utilization of mid *)
(* threads is multiplied is any that the books of module ThreadTable allow *)
(* for: these drift, and may be zero or negative.  The files open; that    *)
(* the daemon ends when one does not is in module Foreground.              *)
(***************************************************************************)
EXTENDS Integers

CONSTANTS numOfFreq,   \* frequencies in the table
          freqTable,   \* level |-> frequency
          Least        \* bound: the lowest product of a negative weight

Top   == numOfFreq - 1
Level == 0..Top

ASSUME NumOfFreqAssumption == numOfFreq \in Nat \ {0}
ASSUME FreqTableAssumption ==
  /\ freqTable \in [Level -> Nat \ {0}]
  /\ \A k, l \in Level : k < l => freqTable[k] < freqTable[l]
ASSUME LeastAssumption == Least \in Int /\ Least <= 0

VARIABLES pc, cause,                 \* where the daemon is; the event in hand
          touchIsOn, curFreq,        \* curFreq is a level of the table
          util, midUtil,             \* of coreSet[maxUtilCoreId]
          midUtilHistory, midUtilHistoryIndex,
          avgMidUtil,                \* doubled
          up_counter, lastFreqLevel

sampled == <<util, midUtil>>
average == <<midUtilHistory, midUtilHistoryIndex, avgMidUtil>>
choice  == <<up_counter, lastFreqLevel>>
vars    == <<pc, cause, touchIsOn, curFreq, sampled, average, choice>>

maxFreq == freqTable[Top]
NaN     == maxFreq + 1       \* told from every utilization
Util    == Least..maxFreq
Slot    == 0..1              \* CONFIG_NUM_OF_HISTORY_ENTRIES is 2

TypeOK ==
  /\ pc \in {"idle", "dpm", "dvfs"} /\ cause \in {"tick0", "tick1", "screen"}
  /\ touchIsOn \in BOOLEAN /\ curFreq \in Level
  /\ util \in 0..maxFreq /\ midUtil \in 0..util
  /\ midUtilHistory \in [Slot -> Util \cup {NaN}] /\ midUtilHistoryIndex \in Slot
  /\ avgMidUtil \in Int
  /\ up_counter \in 0..1 /\ lastFreqLevel \in Level

Init ==
  /\ pc = "idle" /\ cause = "tick0" /\ touchIsOn = FALSE /\ curFreq \in Level
  /\ util = 0 /\ midUtil = 0
  /\ midUtilHistory = [i \in Slot |-> 0] /\ midUtilHistoryIndex = 0 /\ avgMidUtil = 0
  /\ up_counter = 0 /\ lastFreqLevel = 0

-----------------------------------------------------------------------------
(* What comes before DVFS. *)

\* The highest frequency, before anything else.
Touch ==
  /\ pc = "idle"
  /\ touchIsOn' = TRUE /\ curFreq' = Top
  /\ UNCHANGED <<pc, cause, sampled, average, choice>>

\* The tick that ends a boost goes on to DVFS if the foreground has a thread.
BoostEnd ==
  /\ pc = "idle"
  /\ touchIsOn' = FALSE
  /\ cause' = "tick1" /\ pc' \in {"idle", "dvfs"}
  /\ UNCHANGED <<curFreq, sampled, average, choice>>

\* Screen on ends a boost too, as it is handled like that tick.  A screen event that
\* changed no importance stops there.
Screen(on) ==
  /\ pc = "idle"
  /\ touchIsOn' = (touchIsOn /\ ~on)
  /\ cause' = "screen" /\ pc' \in {"idle", "dpm"}
  /\ UNCHANGED <<curFreq, sampled, average, choice>>

\* calculate_utilization, on a sampling tick outside a boost: shares of the time, times
\* the frequency of now.
Sample ==
  /\ pc = "idle" /\ ~touchIsOn
  /\ util' \in 0..freqTable[curFreq] /\ midUtil' \in 0..util'
  /\ cause' = "tick0" /\ pc' = "dpm"
  /\ UNCHANGED <<touchIsOn, curFreq, average, choice>>

\* DPM clears the figures of a core it switches.  If that was the busiest, another is now,
\* which was not busier.
DPM ==
  /\ pc = "dpm"
  /\ \/ UNCHANGED sampled
     \/ util' \in 0..util /\ midUtil' \in 0..util'
  /\ pc' = "dvfs"
  /\ UNCHANGED <<cause, touchIsOn, curFreq, average, choice>>

-----------------------------------------------------------------------------
(* DVFS. *)

\* midUtil * weight, and no more than util.  The weight is 1 + r / n: r low threads
\* ran, over n, the low threads booked and what the mid threads that ran count for.  By the
\* signs of r and n it is 1, more, less, infinite, or 0/0; 0 times an infinity is not a
\* number either.  NaN is not greater than util.
curUtil ==
  {midUtil}
  \cup (IF midUtil > 0 THEN midUtil..util ELSE {})           \* r > 0, n > 0
  \cup (IF midUtil > 0 THEN {util} ELSE {NaN})               \* r > 0, n = 0
  \cup {NaN}                                                 \* r = 0, n = 0
  \cup (IF midUtil > 0 THEN Least..midUtil ELSE {})          \* r > 0, n < 0

\* avgMidUtil moves by half of what the replaced entry changes by.
Averaged(new, old) ==
  IF avgMidUtil = 2 * NaN \/ new = NaN \/ old = NaN THEN 2 * NaN ELSE avgMidUtil + new - old

\* Mutation of Rising: the two entries are compared the other way round.
Falling(history, i) ==
  IF history[i] = NaN THEN {FALSE}
  ELSE IF i = 0 THEN BOOLEAN
  ELSE {history[0] # NaN /\ history[1] < history[0]}

\* Is entry i greater than the one before?  At index 0 the code compares with the word
\* before the array, whatever it is.
Rising(history, i) ==
  IF history[i] = NaN THEN {FALSE}
  ELSE IF i = 0 THEN BOOLEAN
  ELSE {history[0] # NaN /\ history[1] > history[0]}

\* Mutation of Above: NaN counts as a small average.
AboveNaN(avg) == {l \in 0..Top - 1 : avg = 2 * NaN \/ 2 * freqTable[l] > avg}

\* The lowest level above the average, and one more when the average is over
\* CONFIG_SCALE_UP_RATIO (0.75) of it.  No level is above NaN.
Above(avg) == {l \in 0..Top - 1 : avg # 2 * NaN /\ 2 * freqTable[l] > avg}

Lowest(levels) == {l \in levels : \A k \in levels : l <= k}

\* Mutation of Enough: the search goes on below the last level, and runs off the table.
EnoughPastEnd(avg) ==
  IF Above(avg) = {} THEN {Top + 1}
  ELSE {IF 3 * freqTable[l] < 2 * avg THEN l + 1 ELSE l : l \in Lowest(Above(avg))}

Enough(avg) ==
  IF Above(avg) = {} THEN {Top}
  ELSE {IF 3 * freqTable[l] < 2 * avg THEN l + 1 ELSE l : l \in Lowest(Above(avg))}

\* Rising twice in a row goes halfway up to the highest level at once.
Halfway == (lastFreqLevel + Top) \div 2

getProperFreq(rising, avg) ==
  /\ up_counter' = IF rising THEN 1 ELSE 0
  /\ lastFreqLevel' \in IF rising /\ up_counter = 1 THEN {Halfway} ELSE Enough(avg)

Record(u) ==
  LET i == 1 - midUtilHistoryIndex
  IN  /\ midUtilHistoryIndex' = i
      /\ midUtilHistory' = [midUtilHistory EXCEPT ![i] = u]
      /\ avgMidUtil' = Averaged(u, midUtilHistory[i])

\* Mutation of DVFS: it does not ask whether a touch is on.
DVFSInTouch ==
  /\ pc = "dvfs" /\ pc' = "idle"
  /\ \E u \in curUtil : Record(u)
  /\ \E rising \in Rising(midUtilHistory', midUtilHistoryIndex') : getProperFreq(rising, avgMidUtil')
  /\ curFreq' = lastFreqLevel'
  /\ UNCHANGED <<cause, touchIsOn, sampled>>

DVFS ==
  /\ pc = "dvfs" /\ pc' = "idle"
  /\ ~touchIsOn
  /\ \E u \in curUtil : Record(u)
  /\ \E rising \in Rising(midUtilHistory', midUtilHistoryIndex') : getProperFreq(rising, avgMidUtil')
  /\ curFreq' = lastFreqLevel'
  /\ UNCHANGED <<cause, touchIsOn, sampled>>

Ignored ==
  /\ pc = "dvfs" /\ pc' = "idle"
  /\ touchIsOn
  /\ UNCHANGED <<cause, touchIsOn, curFreq, sampled, average, choice>>

Next == \/ Touch \/ BoostEnd \/ (\E on \in BOOLEAN : Screen(on)) \/ Sample
        \/ DPM \/ DVFS \/ Ignored

Spec == Init /\ [][Next]_vars

-----------------------------------------------------------------------------
(* Properties. *)

\* "already early set freq to max" (core.c:386): through every order of touches, ticks,
\* screen events and ends of boosts, nothing lowers the frequency while a touch is on.
TouchMeansMax == touchIsOn => curFreq = Top

\* The shortcut up is told the truth if the newest history entry came out of the frequency
\* chosen last and is compared with the one before.  It is not if the index is 0
\* (core.c:549 reads before the array), if a touch has set another frequency since
\* (lastFreqLevel is not told), or if the caller did not sample.
Told == midUtilHistoryIndex' = 1 /\ curFreq = lastFreqLevel /\ cause = "tick0"

\* DVFS leaves room above the average demand, or takes the highest frequency, also when it
\* takes the shortcut up, as long as that is told the truth (core.c:375-402, 542-580).
CoversDemand ==
  [][DVFS /\ avgMidUtil' # 2 * NaN
     => \/ 2 * freqTable[curFreq'] > avgMidUtil' \/ curFreq' = Top
        \/ up_counter = 1 /\ up_counter' = 1 /\ ~Told]_vars

\* A sample that is not a number never leaves the average again (core.c:390-396).  That
\* costs energy and not speed: from then on the frequency is the highest for good.
NaNStaysFast == avgMidUtil = 2 * NaN => lastFreqLevel = Top /\ curFreq = Top

=============================================================================
