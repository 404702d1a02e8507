----------------------------- MODULE DvfsProofs -----------------------------
(***************************************************************************)
(* Proofs about Dvfs, for every frequency table.                           *)
(***************************************************************************)
EXTENDS Dvfs, TLAPS

\* A sample in the hands of DPM or DVFS was taken at the frequency of now.
SampledNow == pc \in {"dpm", "dvfs"} /\ cause = "tick0" => util <= freqTable[curFreq]

\* The running average is that of the entries, while they are numbers.
AverageInv ==
  avgMidUtil # 2 * NaN => /\ midUtilHistory[0] # NaN /\ midUtilHistory[1] # NaN
                          /\ avgMidUtil = midUtilHistory[0] + midUtilHistory[1]

Inv == TypeOK /\ TouchMeansMax /\ SampledNow /\ AverageInv /\ NaNStaysFast

-----------------------------------------------------------------------------
(* The table. *)

LEMMA Table ==
  /\ Top \in Nat /\ Top \in Level /\ 0 \in Level /\ Level \subseteq Nat
  /\ maxFreq \in Nat /\ maxFreq > 0 /\ NaN \in Nat /\ NaN = maxFreq + 1
  /\ Least \in Int /\ Least <= 0
  /\ \A l \in Level : freqTable[l] \in Nat /\ freqTable[l] > 0 /\ freqTable[l] <= maxFreq
  /\ \A k, l \in Level : k <= l => freqTable[k] <= freqTable[l]
  <1>1. Top \in Nat /\ Top \in Level /\ 0 \in Level /\ Level \subseteq Nat
    BY NumOfFreqAssumption DEF Top, Level
  <1>2. \A l \in Level : freqTable[l] \in Nat /\ freqTable[l] > 0
    BY FreqTableAssumption
  <1>3. \A k, l \in Level : k <= l => freqTable[k] <= freqTable[l]
    <2>1. SUFFICES ASSUME NEW k \in Level, NEW l \in Level, k <= l
                   PROVE  freqTable[k] <= freqTable[l]
      OBVIOUS
    <2>2. k = l \/ k < l
      BY <1>1, <2>1
    <2>q. QED
      BY <1>2, <2>2, FreqTableAssumption
  <1>4. \A l \in Level : l <= Top
    BY NumOfFreqAssumption DEF Top, Level
  <1>q. QED
    BY <1>1, <1>2, <1>3, <1>4, LeastAssumption DEF maxFreq, NaN

\* The search stays in the table, and what it finds is above the average or the highest.
LEMMA EnoughCovers ==
  ASSUME NEW avg \in Int, NEW l \in Enough(avg)
  PROVE  /\ l \in Level
         /\ 2 * freqTable[l] > avg \/ l = Top
         /\ avg = 2 * NaN => l = Top
  <1>1. CASE Above(avg) = {}
    BY <1>1, Table DEF Enough
  <1>2. CASE Above(avg) # {}
    <2>1. PICK k \in Lowest(Above(avg)) : l = IF 3 * freqTable[k] < 2 * avg THEN k + 1 ELSE k
      BY <1>2 DEF Enough
    <2>2. k \in 0..Top - 1 /\ avg # 2 * NaN /\ 2 * freqTable[k] > avg
      BY <2>1 DEF Lowest, Above
    <2>3. k \in Level /\ k + 1 \in Level /\ l \in {k, k + 1}
      BY <2>1, <2>2, Table DEF Level
    <2>4. freqTable[k] \in Nat /\ freqTable[l] \in Nat /\ freqTable[k] <= freqTable[l]
      BY <2>3, Table
    <2>q. QED
      BY <2>2, <2>3, <2>4
  <1>q. QED
    BY <1>1, <1>2

LEMMA HalfwayUp ==
  ASSUME lastFreqLevel \in Level
  PROVE  /\ Halfway \in Level /\ lastFreqLevel <= Halfway
         /\ lastFreqLevel = Top => Halfway = Top
  BY Table DEF Halfway, Level

-----------------------------------------------------------------------------
(* DVFS. *)

\* What DVFS may count a sample as.
LEMMA CurUtilTypes ==
  ASSUME TypeOK, NEW u \in curUtil
  PROVE  /\ u \in Util \cup {NaN} /\ u \in Int
         /\ u # NaN => u <= util
  <1>1. util \in Nat /\ midUtil \in Nat /\ midUtil <= util /\ util <= maxFreq
    BY Table DEF TypeOK
  <1>2. \/ u = midUtil \/ u = util \/ u = NaN
        \/ u \in midUtil..util \/ u \in Least..midUtil
    BY DEF curUtil
  <1>q. QED
    BY <1>1, <1>2, Table DEF Util

\* The history after a sample u: the average follows, or is not a number from now on.
LEMMA RecordEffect ==
  ASSUME Inv, NEW u \in curUtil, Record(u)
  PROVE  /\ midUtilHistoryIndex' \in Slot /\ midUtilHistory' \in [Slot -> Util \cup {NaN}]
         /\ midUtilHistory'[midUtilHistoryIndex'] = u
         /\ midUtilHistory'[1 - midUtilHistoryIndex'] = midUtilHistory[1 - midUtilHistoryIndex']
         /\ avgMidUtil' \in Int
         /\ AverageInv'
         /\ avgMidUtil' = 2 * NaN => avgMidUtil = 2 * NaN \/ u = NaN
  <1> DEFINE i == 1 - midUtilHistoryIndex
             old == midUtilHistory[i]
  <1>1. /\ midUtilHistoryIndex \in {0, 1} /\ i \in {0, 1} /\ Slot = {0, 1}
        /\ midUtilHistory \in [Slot -> Util \cup {NaN}] /\ avgMidUtil \in Int
        /\ u \in Util \cup {NaN} /\ u \in Int
    BY CurUtilTypes DEF Inv, TypeOK, Slot
  <1>2. /\ midUtilHistoryIndex' = i
        /\ midUtilHistory' = [midUtilHistory EXCEPT ![i] = u]
        /\ avgMidUtil' = IF avgMidUtil = 2 * NaN \/ u = NaN \/ old = NaN
                         THEN 2 * NaN ELSE avgMidUtil + u - old
    BY DEF Record, Averaged
  <1>3. /\ midUtilHistory' \in [Slot -> Util \cup {NaN}]
        /\ midUtilHistory'[i] = u /\ midUtilHistory'[1 - i] = midUtilHistory[1 - i]
    BY <1>1, <1>2
  <1>4. midUtilHistory[0] \in Int /\ midUtilHistory[1] \in Int
    BY <1>1, Table DEF Util
  <1>5. old \in Int
    BY <1>1, <1>4
  <1>6. NaN \in Int /\ avgMidUtil' \in Int
    BY <1>1, <1>2, <1>5, Table
  <1>7. AverageInv'
    <2>1. SUFFICES ASSUME avgMidUtil' # 2 * NaN
                   PROVE  /\ midUtilHistory'[0] # NaN /\ midUtilHistory'[1] # NaN
                          /\ avgMidUtil' = midUtilHistory'[0] + midUtilHistory'[1]
      BY DEF AverageInv, NaN, maxFreq, Top
    <2>2. /\ avgMidUtil # 2 * NaN /\ u # NaN /\ avgMidUtil' = avgMidUtil + u - old
          /\ midUtilHistory[0] # NaN /\ midUtilHistory[1] # NaN
          /\ avgMidUtil = midUtilHistory[0] + midUtilHistory[1]
      BY <1>2, <2>1 DEF Inv, AverageInv
    <2>3. CASE i = 0
      BY <1>1, <1>3, <1>4, <2>2, <2>3
    <2>4. CASE i = 1
      BY <1>1, <1>3, <1>4, <2>2, <2>4
    <2>q. QED
      BY <1>1, <2>3, <2>4
  <1>8. avgMidUtil' = 2 * NaN => avgMidUtil = 2 * NaN \/ u = NaN
    <2>1. SUFFICES ASSUME avgMidUtil # 2 * NaN, u # NaN PROVE avgMidUtil' # 2 * NaN
      OBVIOUS
    <2>2. old # NaN /\ avgMidUtil = midUtilHistory[0] + midUtilHistory[1]
      BY <1>1, <2>1 DEF Inv, AverageInv
    <2>3. avgMidUtil' = u + midUtilHistory[1 - i]
      BY <1>1, <1>2, <1>4, <2>1, <2>2
    <2>4. midUtilHistory[1 - i] <= maxFreq /\ u <= maxFreq
      <3>1. midUtilHistory[1 - i] # NaN /\ midUtilHistory[1 - i] \in Util \cup {NaN}
        BY <1>1, <2>1 DEF Inv, AverageInv
      <3>q. QED
        BY <1>1, <2>1, <3>1, Table DEF Util
    <2>q. QED
      BY <1>1, <1>4, <2>3, <2>4, Table
  <1>q. QED
    BY <1>1, <1>2, <1>3, <1>6, <1>7, <1>8

\* DVFS as a sample, a history and a choice.
LEMMA DVFSEffect ==
  ASSUME Inv, DVFS
  PROVE  \E u \in curUtil :
           /\ Record(u)
           /\ \E rising \in Rising(midUtilHistory', midUtilHistoryIndex') :
                /\ getProperFreq(rising, avgMidUtil')
                /\ u = NaN => ~rising
                /\ rising /\ midUtilHistoryIndex' = 1
                     => midUtilHistory'[0] # NaN /\ midUtilHistory'[1] > midUtilHistory'[0]
           /\ curFreq' = lastFreqLevel'
           /\ up_counter' \in 0..1 /\ lastFreqLevel' \in Level
  <1>1. PICK u \in curUtil : Record(u)
    BY DEF DVFS
  <1>2. PICK rising \in Rising(midUtilHistory', midUtilHistoryIndex') : getProperFreq(rising, avgMidUtil')
    BY DEF DVFS
  <1>3. midUtilHistory'[midUtilHistoryIndex'] = u /\ avgMidUtil' \in Int /\ midUtilHistoryIndex' \in {0, 1}
    BY <1>1, RecordEffect DEF Slot
  <1>4. u = NaN => ~rising
    BY <1>2, <1>3 DEF Rising
  <1>5. rising /\ midUtilHistoryIndex' = 1
          => midUtilHistory'[0] # NaN /\ midUtilHistory'[1] > midUtilHistory'[0]
    <2>1. SUFFICES ASSUME rising, midUtilHistoryIndex' = 1
                   PROVE  midUtilHistory'[0] # NaN /\ midUtilHistory'[1] > midUtilHistory'[0]
      OBVIOUS
    <2>2. 1 # 0 /\ midUtilHistory'[midUtilHistoryIndex'] # NaN
      BY <1>3, <1>4, <2>1
    <2>3. rising \in {midUtilHistory'[0] # NaN /\ midUtilHistory'[1] > midUtilHistory'[0]}
      BY <1>2, <2>1, <2>2, Zenon DEF Rising
    <2>q. QED
      BY <2>1, <2>3, Zenon
  <1>6. up_counter' \in 0..1 /\ lastFreqLevel' \in Level
    BY <1>2, <1>3, HalfwayUp, EnoughCovers DEF getProperFreq, Inv, TypeOK
  <1>7. curFreq' = lastFreqLevel'
    BY DEF DVFS
  <1>q. QED
    BY <1>1, <1>2, <1>4, <1>5, <1>6, <1>7

LEMMA DVFSStep == ASSUME Inv, DVFS PROVE Inv'
  <1>1. PICK u \in curUtil :
           /\ Record(u)
           /\ \E rising \in Rising(midUtilHistory', midUtilHistoryIndex') :
                getProperFreq(rising, avgMidUtil') /\ (u = NaN => ~rising)
           /\ curFreq' = lastFreqLevel'
           /\ up_counter' \in 0..1 /\ lastFreqLevel' \in Level
    BY DVFSEffect
  <1>2. /\ midUtilHistoryIndex' \in Slot /\ midUtilHistory' \in [Slot -> Util \cup {NaN}]
        /\ avgMidUtil' \in Int /\ AverageInv'
        /\ avgMidUtil' = 2 * NaN => avgMidUtil = 2 * NaN \/ u = NaN
    BY <1>1, RecordEffect
  <1>3. pc' = "idle" /\ ~touchIsOn /\ UNCHANGED <<cause, touchIsOn, util, midUtil>>
    BY DEF DVFS, sampled
  <1>4. TypeOK'
    BY <1>1, <1>2, <1>3 DEF Inv, TypeOK, Level, Util, maxFreq, NaN, Top, Slot
  <1>5. avgMidUtil' = 2 * NaN => lastFreqLevel' = Top
    <2>1. SUFFICES ASSUME avgMidUtil' = 2 * NaN PROVE lastFreqLevel' = Top
      OBVIOUS
    <2>2. PICK rising \in BOOLEAN : getProperFreq(rising, avgMidUtil') /\ (u = NaN => ~rising)
      BY <1>1 DEF Rising
    <2>3. CASE rising /\ up_counter = 1
      BY <1>2, <2>1, <2>2, <2>3, HalfwayUp DEF getProperFreq, Inv, NaNStaysFast, TypeOK
    <2>4. CASE ~(rising /\ up_counter = 1)
      BY <1>2, <2>1, <2>2, <2>4, EnoughCovers DEF getProperFreq
    <2>q. QED
      BY <2>3, <2>4
  <1>6. NaNStaysFast' /\ TouchMeansMax' /\ SampledNow'
    BY <1>1, <1>3, <1>5 DEF NaNStaysFast, TouchMeansMax, SampledNow, NaN, maxFreq, Top
  <1>q. QED
    BY <1>2, <1>4, <1>6 DEF Inv

-----------------------------------------------------------------------------
(* The other steps. *)

LEMMA OtherStep ==
  ASSUME Inv, Touch \/ BoostEnd \/ (\E on \in BOOLEAN : Screen(on)) \/ Ignored \/ UNCHANGED vars
  PROVE  Inv'
  <1>1. UNCHANGED <<util, midUtil, midUtilHistory, midUtilHistoryIndex, avgMidUtil, up_counter, lastFreqLevel>>
    BY DEF Touch, BoostEnd, Screen, Ignored, vars, sampled, average, choice
  <1>2. /\ pc' \in {"idle", "dpm", "dvfs"} /\ cause' \in {"tick0", "tick1", "screen"}
        /\ touchIsOn' \in BOOLEAN /\ curFreq' \in {curFreq, Top} /\ curFreq' \in Level
        /\ touchIsOn' => curFreq' = Top
    <2>1. /\ pc \in {"idle", "dpm", "dvfs"} /\ cause \in {"tick0", "tick1", "screen"}
          /\ touchIsOn \in BOOLEAN /\ curFreq \in Level /\ Top \in Level
          /\ touchIsOn => curFreq = Top
      BY Table DEF Inv, TypeOK, TouchMeansMax
    <2>2. CASE Touch
      BY <2>1, <2>2 DEF Touch
    <2>3. CASE BoostEnd
      BY <2>1, <2>3 DEF BoostEnd
    <2>4. CASE \E on \in BOOLEAN : Screen(on)
      BY <2>1, <2>4 DEF Screen
    <2>5. CASE Ignored \/ UNCHANGED vars
      BY <2>1, <2>5 DEF Ignored, vars
    <2>q. QED
      BY <2>2, <2>3, <2>4, <2>5
  <1>3. pc' = "idle" \/ cause' # "tick0" \/ UNCHANGED <<pc, cause, curFreq>>
    BY DEF Touch, BoostEnd, Screen, Ignored, vars
  <1>4. TypeOK' /\ TouchMeansMax' /\ AverageInv' /\ NaNStaysFast'
    BY <1>1, <1>2
       DEF Inv, TypeOK, TouchMeansMax, AverageInv, NaNStaysFast, Level, Util, maxFreq, NaN, Top, Slot
  <1>5. SampledNow'
    BY <1>1, <1>3 DEF Inv, SampledNow
  <1>q. QED
    BY <1>4, <1>5 DEF Inv

LEMMA SampleStep == ASSUME Inv, Sample \/ DPM PROVE Inv'
  <1>1. UNCHANGED <<curFreq, touchIsOn, midUtilHistory, midUtilHistoryIndex, avgMidUtil, up_counter, lastFreqLevel>>
    BY DEF Sample, DPM, average, choice
  <1>2. /\ freqTable[curFreq] \in Nat /\ freqTable[curFreq] <= maxFreq /\ maxFreq \in Nat
        /\ util \in 0..maxFreq /\ midUtil \in 0..util
    BY Table DEF Inv, TypeOK
  <1>3. /\ util' \in 0..maxFreq /\ midUtil' \in 0..util'
        /\ pc' \in {"idle", "dpm", "dvfs"} /\ cause' \in {"tick0", "tick1", "screen"}
        /\ cause' = "tick0" => util' <= freqTable[curFreq]
    <2>1. CASE Sample
      BY <1>2, <2>1 DEF Sample
    <2>2. CASE DPM
      BY <1>2, <2>2 DEF DPM, sampled, Inv, TypeOK, SampledNow
    <2>q. QED
      BY <2>1, <2>2
  <1>4. TypeOK' /\ TouchMeansMax' /\ AverageInv' /\ NaNStaysFast'
    BY <1>1, <1>3
       DEF Inv, TypeOK, TouchMeansMax, AverageInv, NaNStaysFast, Level, Util, maxFreq, NaN, Top, Slot
  <1>5. SampledNow'
    BY <1>1, <1>3 DEF SampledNow
  <1>q. QED
    BY <1>4, <1>5 DEF Inv

LEMMA InvInit == Init => Inv
  <1> SUFFICES ASSUME Init PROVE Inv
    OBVIOUS
  <1>1. TypeOK
    <2>1. 0 \in Util /\ 0 \in 0..maxFreq /\ 0 \in Level /\ Slot = {0, 1}
      BY Table DEF Util, Slot
    <2>2. midUtilHistory \in [Slot -> Util \cup {NaN}]
      BY <2>1 DEF Init
    <2>3. util \in 0..maxFreq /\ midUtil \in 0..util /\ avgMidUtil \in Int /\ up_counter \in 0..1
      BY <2>1 DEF Init
    <2>4. /\ pc \in {"idle", "dpm", "dvfs"} /\ cause \in {"tick0", "tick1", "screen"}
          /\ touchIsOn \in BOOLEAN /\ curFreq \in Level /\ lastFreqLevel \in Level
          /\ midUtilHistoryIndex \in Slot
      BY <2>1 DEF Init
    <2>q. QED
      BY <2>2, <2>3, <2>4 DEF TypeOK
  <1>2. midUtilHistory[0] = 0 /\ midUtilHistory[1] = 0 /\ avgMidUtil = 0
    BY DEF Init, Slot
  <1>q. QED
    BY <1>1, <1>2, Table DEF Init, Inv, TouchMeansMax, SampledNow, AverageInv, NaNStaysFast

LEMMA InvStep == Inv /\ [Next]_vars => Inv'
  BY DVFSStep, OtherStep, SampleStep DEF Next

LEMMA Invariant == Spec => []Inv
  BY InvInit, InvStep, PTL DEF Spec

-----------------------------------------------------------------------------
\* Every variable keeps its type; the frequency chosen is always one of the table
\* (core.c:542-580).
THEOREM TypeCorrect == Spec => []TypeOK
  BY Invariant, PTL DEF Inv

\* Nothing lowers the frequency while a touch is on (core.c:382-386, importance.c:472-489).
THEOREM TouchAlwaysMax == Spec => []TouchMeansMax
  BY Invariant, PTL DEF Inv

\* Once the average is not a number, the frequency is the highest (core.c:390-396).
THEOREM NaNAlwaysFast == Spec => []NaNStaysFast
  BY Invariant, PTL DEF Inv

\* DVFS leaves room above the average demand or takes the highest frequency, whatever the
\* table, and also by the shortcut if that is told the truth (core.c:375-402, 542-580).
THEOREM AlwaysCoversDemand == Spec => CoversDemand
  <1>1. ASSUME Inv, DVFS, avgMidUtil' # 2 * NaN,
               ~(2 * freqTable[curFreq'] > avgMidUtil'), curFreq' # Top
        PROVE  up_counter = 1 /\ up_counter' = 1 /\ ~Told
    <2>1. PICK u \in curUtil :
             /\ Record(u)
             /\ \E rising \in Rising(midUtilHistory', midUtilHistoryIndex') :
                  /\ getProperFreq(rising, avgMidUtil')
                  /\ u = NaN => ~rising
                  /\ rising /\ midUtilHistoryIndex' = 1
                       => midUtilHistory'[0] # NaN /\ midUtilHistory'[1] > midUtilHistory'[0]
             /\ curFreq' = lastFreqLevel'
             /\ up_counter' \in 0..1 /\ lastFreqLevel' \in Level
      BY <1>1, DVFSEffect
    <2>2. /\ midUtilHistory' \in [Slot -> Util \cup {NaN}]
          /\ midUtilHistory'[midUtilHistoryIndex'] = u
          /\ avgMidUtil' \in Int /\ AverageInv'
      BY <1>1, <2>1, RecordEffect
    <2>3. PICK rising \in Rising(midUtilHistory', midUtilHistoryIndex') :
             /\ getProperFreq(rising, avgMidUtil')
             /\ rising /\ midUtilHistoryIndex' = 1
                  => midUtilHistory'[0] # NaN /\ midUtilHistory'[1] > midUtilHistory'[0]
      BY <2>1
    <2>4. rising /\ up_counter = 1
      BY <1>1, <2>1, <2>2, <2>3, EnoughCovers DEF getProperFreq
    <2>5. up_counter' = 1 /\ lastFreqLevel' = Halfway
      BY <2>3, <2>4 DEF getProperFreq
    <2>6. ASSUME Told PROVE FALSE
      <3>1. /\ midUtilHistoryIndex' = 1 /\ curFreq = lastFreqLevel /\ cause = "tick0"
            /\ pc = "dvfs"
        BY <1>1, <2>6 DEF Told, DVFS
      <3>2. /\ util <= freqTable[curFreq] /\ curFreq \in Level /\ lastFreqLevel \in Level
            /\ util \in Nat /\ TypeOK
        BY <1>1, <3>1, Table DEF Inv, SampledNow, TypeOK
      <3>3. u # NaN /\ u \in Int /\ u <= util
        BY <1>1, <2>1, <2>2, <3>1, <3>2, CurUtilTypes DEF AverageInv, NaN, maxFreq, Top
      <3>4. avgMidUtil' = midUtilHistory'[0] + u /\ midUtilHistory'[0] < u
        BY <1>1, <2>2, <2>3, <2>4, <3>1, <3>3 DEF AverageInv, NaN, maxFreq, Top
      <3>5. midUtilHistory'[0] \in Int
        BY <2>2, Table DEF Slot, Util
      <3>6. freqTable[curFreq] <= freqTable[curFreq'] /\ freqTable[curFreq] \in Nat /\ freqTable[curFreq'] \in Nat
        BY <2>1, <2>5, <3>1, <3>2, HalfwayUp, Table
      <3>q. QED
        BY <1>1, <3>2, <3>3, <3>4, <3>5, <3>6
    <2>q. QED
      BY <2>4, <2>5, <2>6
  <1>2. Inv /\ [Next]_vars =>
          [DVFS /\ avgMidUtil' # 2 * NaN
             => \/ 2 * freqTable[curFreq'] > avgMidUtil' \/ curFreq' = Top
                \/ up_counter = 1 /\ up_counter' = 1 /\ ~Told]_vars
    BY <1>1
  <1>q. QED
    BY <1>2, Invariant, PTL DEF Spec, CoversDemand

=============================================================================
