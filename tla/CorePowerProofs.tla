-------------------------- MODULE CorePowerProofs --------------------------
(***************************************************************************)
(* Proofs about CorePower, for every number of cores.                      *)
(***************************************************************************)
EXTENDS CorePower, FiniteSetTheorems, TLAPS

\* The tick's own invariant: while cores are still to be turned off, the stored
\* id of least importance is the one that the current sums give.
VictimFresh ==
  pc = "resize" /\ cause = "tick" /\ todo < 0
    => FirstLeast(minImpCoreId, online \cup {0}, sumOfImportance)

\* NeverStuck needs CountMatches (todo is computed from the counter, the loops
\* search the flags), CoreZeroStays and the ring (an average below 1 would ask
\* for no core at all); CachedCoresOnline needs CoreZeroStays.
Inv == TypeOK /\ CountMatches /\ CoreZeroStays /\ CachedCoresOnline /\ HistorySum
       /\ NeverStuck /\ VictimFresh

-----------------------------------------------------------------------------
(* Counting cores. *)

LEMMA CoreCount ==
  /\ IsFiniteSet(Core) /\ Cardinality(Core) = NumCore /\ NumCore \in Nat /\ 0 \in Core
  /\ Core \subseteq Nat
  <1>1. NumCore \in Nat /\ NumCore >= 1 /\ NumCore - 1 \in Int
    BY NumCoreAssumption
  <1>2. IsFiniteSet(Core) /\ Cardinality(Core) = NumCore
    BY <1>1, FS_Interval DEF Core
  <1>q. QED
    BY <1>1, <1>2 DEF Core

\* How many of the cores a set holds, and what it means to hold them all or only
\* core 0.
LEMMA SubsetCount ==
  ASSUME NEW on \in SUBSET Core, 0 \in on
  PROVE  /\ IsFiniteSet(on) /\ Cardinality(on) \in 1..NumCore
         /\ Cardinality(on) < NumCore => Core \ on # {}
         /\ Cardinality(on) > 1 => on \ {0} # {}
  <1>1. IsFiniteSet(on) /\ Cardinality(on) <= NumCore
    BY CoreCount, FS_Subset
  <1>2. Cardinality(on) \in Nat
    BY <1>1, FS_CardinalityType
  <1>3. Cardinality(on) # 0
    BY <1>1, FS_EmptySet
  <1>4. ASSUME Core \ on = {} PROVE Cardinality(on) = NumCore
    BY <1>4, CoreCount, on = Core
  <1>5. ASSUME on \ {0} = {} PROVE Cardinality(on) = 1
    BY <1>5, on = {0}, FS_Singleton
  <1>q. QED
    BY <1>1, <1>2, <1>3, <1>4, <1>5, CoreCount

\* Turning one core on or off changes the count by one.
LEMMA TurnCount ==
  ASSUME NEW on \in SUBSET Core, NEW c \in Core
  PROVE  /\ c \notin on => Cardinality(on \cup {c}) = Cardinality(on) + 1
         /\ c \in on => Cardinality(on \ {c}) = Cardinality(on) - 1
  BY CoreCount, FS_Subset, FS_AddElement, FS_RemoveElement

-----------------------------------------------------------------------------
(* The stored ids. *)

\* updateMinMaxCore leaves the ids of cores that are online, and the first of
\* least importance.
LEMMA RefreshedIds ==
  ASSUME NEW on \in SUBSET Core, 0 \in on, NEW imp, NEW u, updateMinMaxCore(on, imp, u)
  PROVE  /\ {minImpCoreId, maxImpCoreId, minUtilCoreId, maxUtilCoreId}' \subseteq on
         /\ FirstLeast(minImpCoreId', on \cup {0}, imp)
  BY DEF updateMinMaxCore, FirstLeast, FirstGreatest

-----------------------------------------------------------------------------
(* The plan. *)

\* What Plan writes, from a state that satisfies the invariant: the ring stays
\* consistent and between 1 and NumCore cores are asked for.
LEMMA PlanEffect ==
  ASSUME Inv, NEW running \in Int, NEW wanted \in 1..NumCore, Plan(running, wanted)
  PROVE  /\ procRunningHistory' \in [Slot -> Nat \ {0}] /\ procRunningIndex' \in Slot
         /\ sumProcRunning' \in Int /\ HistorySum'
         /\ todo' \in Int /\ todo' + numOfCoresOnline \in 1..NumCore
         /\ pc' = "resize"
  <1> DEFINE i == (procRunningIndex + 1) % 3
             n == IF running < 1 THEN 1 ELSE running
             s == sumProcRunning - procRunningHistory[i] + n
  <1>1. /\ procRunningIndex \in {0, 1, 2} /\ sumProcRunning \in Int
        /\ numOfCoresOnline \in Int
        /\ procRunningHistory \in [Slot -> Nat \ {0}] /\ Slot = {0, 1, 2}
        /\ sumProcRunning = procRunningHistory[0] + procRunningHistory[1] + procRunningHistory[2]
    BY DEF Inv, TypeOK, HistorySum, Slot
  <1>2. /\ procRunningIndex = 0 => i = 1
        /\ procRunningIndex = 1 => i = 2
        /\ procRunningIndex = 2 => i = 0
    OBVIOUS
  <1>3. i \in {0, 1, 2} /\ n \in Nat \ {0}
    BY <1>1, <1>2
  <1>4. /\ procRunningIndex' = i /\ sumProcRunning' = s
        /\ procRunningHistory' = [procRunningHistory EXCEPT ![i] = n]
        /\ todo' = LeastOf(wanted, s \div 3) - numOfCoresOnline
        /\ pc' = "resize"
    BY DEF Plan
  <1> HIDE DEF i, n
  <1>5. /\ procRunningHistory' \in [Slot -> Nat \ {0}]
        /\ s = procRunningHistory'[0] + procRunningHistory'[1] + procRunningHistory'[2]
    BY <1>1, <1>3, <1>4
  <1>6. s \in Int /\ s >= 3
    <2>1. procRunningHistory'[0] >= 1 /\ procRunningHistory'[1] >= 1 /\ procRunningHistory'[2] >= 1
          /\ procRunningHistory'[0] \in Int /\ procRunningHistory'[1] \in Int
          /\ procRunningHistory'[2] \in Int
      BY <1>1, <1>5
    <2>q. QED
      BY <1>5, <2>1
  <1> HIDE DEF s
  <1>7. s \div 3 \in Int /\ s \div 3 >= 1
    BY <1>6
  <1>8. LeastOf(wanted, s \div 3) \in 1..NumCore
    BY <1>7, CoreCount DEF LeastOf
  <1>9. todo' \in Int /\ todo' + numOfCoresOnline \in 1..NumCore
    BY <1>1, <1>4, <1>8, CoreCount
  <1>q. QED
    BY <1>1, <1>3, <1>4, <1>5, <1>9, <1>6 DEF HistorySum

\* A run of DPM begins with work it can do.
LEMMA PlanNeverStuck ==
  ASSUME Inv, todo' \in Int, todo' + numOfCoresOnline \in 1..NumCore, UNCHANGED power
  PROVE  NeverStuck' /\ CountMatches' /\ CoreZeroStays'
  <1>1. online \in SUBSET Core /\ 0 \in online /\ numOfCoresOnline = Cardinality(online)
        /\ online' = online /\ numOfCoresOnline' = numOfCoresOnline
    BY DEF Inv, TypeOK, CountMatches, CoreZeroStays, power
  <1>2. /\ Cardinality(online) \in 1..NumCore
        /\ Cardinality(online) < NumCore => Core \ online # {}
        /\ Cardinality(online) > 1 => online \ {0} # {}
    BY <1>1, SubsetCount
  <1>q. QED
    BY <1>1, <1>2, CoreCount DEF NeverStuck, CountMatches, CoreZeroStays

-----------------------------------------------------------------------------
(* Steps. *)

LEMMA InvInit == Init => Inv
  <1> SUFFICES ASSUME Init PROVE Inv
    OBVIOUS
  <1>1. TypeOK
    BY CoreCount, NumCoreAssumption DEF Init, TypeOK, Slot
  <1>2. CountMatches /\ CoreZeroStays /\ CachedCoresOnline
    BY CoreCount DEF Init, CountMatches, CoreZeroStays, CachedCoresOnline
  <1>3. HistorySum /\ NeverStuck /\ VictimFresh
    BY DEF Init, HistorySum, NeverStuck, VictimFresh, Slot
  <1>q. QED
    BY <1>1, <1>2, <1>3 DEF Inv

\* Between two runs of DPM the cores, the ids and the ring stay.
LEMMA IdleStep ==
  ASSUME Inv, TypeOK', UNCHANGED <<power, ids, history>>, pc' # "resize"
  PROVE  Inv'
  BY DEF Inv, CountMatches, CoreZeroStays, CachedCoresOnline, HistorySum, NeverStuck,
         VictimFresh, power, ids, history

LEMMA BeginTickStep == ASSUME Inv, BeginTick PROVE Inv'
  <1>1. PICK u \in [Core -> 0..MaxUtil] : util' = u /\ updateMinMaxCore(online, sumOfImportance, u)
    BY DEF BeginTick
  <1>2. PICK running \in Running \cup {-1}, wanted \in 1..NumCore : Plan(running, wanted)
    BY DEF BeginTick
  <1>3. /\ UNCHANGED <<power, sumOfImportance, coreId>> /\ cause' = "tick" /\ ListPids
        /\ online \in SUBSET Core /\ 0 \in online
    BY DEF BeginTick, Inv, TypeOK, CoreZeroStays
  <1>4. /\ {minImpCoreId, maxImpCoreId, minUtilCoreId, maxUtilCoreId}' \subseteq online
        /\ FirstLeast(minImpCoreId', online \cup {0}, sumOfImportance)
    BY <1>1, <1>3, RefreshedIds
  <1>5. /\ procRunningHistory' \in [Slot -> Nat \ {0}] /\ procRunningIndex' \in Slot
        /\ sumProcRunning' \in Int /\ HistorySum'
        /\ todo' \in Int /\ todo' + numOfCoresOnline \in 1..NumCore
        /\ pc' = "resize"
    BY <1>2, PlanEffect, RunningAssumption
  <1>6. NeverStuck' /\ CountMatches' /\ CoreZeroStays'
    BY <1>3, <1>5, PlanNeverStuck
  <1>7. util' \in [Core -> Int]
    BY <1>1, MaxSumAssumption
  <1>8. pidListVec' \in [0..NumCore -> SUBSET Thread]
    BY <1>3 DEF Inv, TypeOK, ListPids
  <1>9. TypeOK'
    BY <1>3, <1>4, <1>5, <1>7, <1>8 DEF Inv, TypeOK, power
  <1>10. CachedCoresOnline' /\ VictimFresh'
    BY <1>3, <1>4 DEF CachedCoresOnline, VictimFresh, power
  <1>q. QED
    BY <1>5, <1>6, <1>9, <1>10 DEF Inv

LEMMA BeginScreenStep == ASSUME Inv, BeginScreen PROVE Inv'
  <1>1. PICK running \in Running \cup {-1}, wanted \in 1..NumCore : Plan(running, wanted)
    BY DEF BeginScreen
  <1>2. UNCHANGED <<power, books, ids, threads>> /\ cause' = "screen"
    BY DEF BeginScreen
  <1>3. /\ procRunningHistory' \in [Slot -> Nat \ {0}] /\ procRunningIndex' \in Slot
        /\ sumProcRunning' \in Int /\ HistorySum'
        /\ todo' \in Int /\ todo' + numOfCoresOnline \in 1..NumCore
        /\ pc' = "resize"
    BY <1>1, PlanEffect, RunningAssumption
  <1>4. NeverStuck' /\ CountMatches' /\ CoreZeroStays'
    BY <1>2, <1>3, PlanNeverStuck
  <1>5. TypeOK'
    BY <1>2, <1>3 DEF Inv, TypeOK, power, books, ids, threads
  <1>6. CachedCoresOnline' /\ VictimFresh'
    BY <1>2 DEF Inv, CachedCoresOnline, VictimFresh, power, ids
  <1>q. QED
    BY <1>3, <1>4, <1>5, <1>6 DEF Inv

LEMMA TurnOnStep == ASSUME Inv, NEW c \in Core, TurnOn(c) PROVE Inv'
  <1>1. /\ pc = "resize" /\ todo > 0 /\ pc' = "resize" /\ todo' = todo - 1
        /\ online' = online \cup {c} /\ numOfCoresOnline' = numOfCoresOnline + 1
        /\ UNCHANGED <<ids, history, coreId, cause>>
        /\ c \notin online
    BY DEF TurnOn, FirstOfflineCore
  <1>2. /\ online \in SUBSET Core /\ 0 \in online /\ todo \in Int
        /\ numOfCoresOnline \in Int /\ numOfCoresOnline = Cardinality(online)
        /\ todo + Cardinality(online) \in 1..NumCore
    BY <1>1 DEF Inv, TypeOK, CoreZeroStays, CountMatches, NeverStuck
  <1>3. Cardinality(online') = Cardinality(online) + 1
    BY <1>1, <1>2, TurnCount
  <1>4. online' \in SUBSET Core /\ 0 \in online'
    BY <1>1, <1>2
  <1>5. /\ Cardinality(online') \in 1..NumCore
        /\ Cardinality(online') < NumCore => Core \ online' # {}
        /\ Cardinality(online') > 1 => online' \ {0} # {}
    BY <1>4, SubsetCount
  <1>6. NeverStuck' /\ CountMatches' /\ CoreZeroStays'
    BY <1>1, <1>2, <1>3, <1>4, <1>5, CoreCount DEF NeverStuck, CountMatches, CoreZeroStays
  <1>7. TypeOK'
    <2>1. /\ sumOfImportance' = [sumOfImportance EXCEPT ![c] = 0]
          /\ util' = [util EXCEPT ![c] = 0]
          /\ pidListVec' = [pidListVec EXCEPT ![c] = {}]
      BY DEF TurnOn
    <2>2. TypeOK
      BY DEF Inv
    <2>3. /\ sumOfImportance' \in [Core -> Int] /\ util' \in [Core -> Int]
          /\ pidListVec' \in [0..NumCore -> SUBSET Thread]
      <3>1. /\ sumOfImportance \in [Core -> Int] /\ util \in [Core -> Int]
            /\ pidListVec \in [0..NumCore -> SUBSET Thread]
        BY <2>2 DEF TypeOK
      <3>2. sumOfImportance' \in [Core -> Int]
        BY <2>1, <3>1
      <3>3. util' \in [Core -> Int]
        BY <2>1, <3>1
      <3>4. pidListVec' \in [0..NumCore -> SUBSET Thread]
        BY <2>1, <3>1
      <3>q. QED
        BY <3>2, <3>3, <3>4
    <2>4. /\ online' \subseteq Core /\ numOfCoresOnline' \in Int /\ todo' \in Int
          /\ pc' \in {"idle", "resize", "balanceImp", "balanceUtil", "dead"}
      BY <1>1, <1>2, <1>4
    <2>5. /\ {minImpCoreId, maxImpCoreId, minUtilCoreId, maxUtilCoreId}' \subseteq Core
          /\ procRunningHistory' \in [Slot -> Nat \ {0}] /\ procRunningIndex' \in Slot
          /\ sumProcRunning' \in Int
          /\ coreId' \in [Thread -> Core \cup {-1}] /\ cause' \in {"tick", "screen"}
      BY <1>1, <2>2 DEF TypeOK, ids, history
    <2>q. QED
      BY <2>3, <2>4, <2>5 DEF TypeOK
  <1>8. CachedCoresOnline' /\ HistorySum' /\ VictimFresh'
    BY <1>1, <1>2 DEF Inv, CachedCoresOnline, HistorySum, VictimFresh, ids, history
  <1>q. QED
    BY <1>6, <1>7, <1>8 DEF Inv

\* Clearing one core's entry leaves a table of integers.
LEMMA ClearedEntry ==
  ASSUME NEW f \in [Core -> Int], NEW c \in Core
  PROVE  [f EXCEPT ![c] = 0] \in [Core -> Int]
  OBVIOUS

\* The core that is turned off is online and not core 0.
LEMMA VictimOnline ==
  ASSUME Inv, NEW c \in Core \cup {-1}, TurnOff(c)
  PROVE  c \in online /\ c > 0
  <1>1. pc = "resize" /\ todo < 0 /\ MinImpCoreExcept0(c) /\ online \ {0} # {}
        /\ minImpCoreId \in online /\ online \subseteq Nat
    BY CoreCount DEF TurnOff, Inv, TypeOK, NeverStuck, CachedCoresOnline
  <1>2. CASE minImpCoreId # 0
    BY <1>1, <1>2 DEF MinImpCoreExcept0
  <1>3. CASE minImpCoreId = 0
    <2>1. FirstLeast(c, online \ {0}, sumOfImportance)
      BY <1>1, <1>3 DEF MinImpCoreExcept0
    <2>2. c \in online \ {0}
      BY <2>1 DEF FirstLeast
    <2>q. QED
      BY <1>1, <2>2
  <1>q. QED
    BY <1>2, <1>3

LEMMA TurnOffStep == ASSUME Inv, NEW c \in Core \cup {-1}, TurnOff(c) PROVE Inv'
  <1>1. c \in online /\ c > 0
    BY VictimOnline
  <1>2. /\ pc = "resize" /\ todo < 0 /\ pc' = "resize" /\ todo' = todo + 1
        /\ online' = online \ {c} /\ numOfCoresOnline' = numOfCoresOnline - 1
        /\ UNCHANGED <<history, cause>>
        /\ sumOfImportance' = [sumOfImportance EXCEPT ![c] = 0]
        /\ util' = [util EXCEPT ![c] = 0]
        /\ pidListVec' = [pidListVec EXCEPT ![c] = {}]
        /\ coreId' \in [Thread -> Core \cup {-1}]
        /\ updateMinMaxCore(online \ {c}, sumOfImportance', util')
    BY <1>1 DEF TurnOff, PourCoreImpUtil
  <1>3. /\ online \in SUBSET Core /\ 0 \in online /\ todo \in Int /\ c \in Core
        /\ numOfCoresOnline \in Int /\ numOfCoresOnline = Cardinality(online)
        /\ todo + Cardinality(online) \in 1..NumCore
    BY <1>1, <1>2 DEF Inv, TypeOK, CoreZeroStays, CountMatches, NeverStuck
  <1>4. Cardinality(online') = Cardinality(online) - 1
    BY <1>1, <1>2, <1>3, TurnCount
  <1>5. online' \in SUBSET Core /\ 0 \in online'
    BY <1>1, <1>2, <1>3
  <1>6. /\ Cardinality(online') \in 1..NumCore
        /\ Cardinality(online') < NumCore => Core \ online' # {}
        /\ Cardinality(online') > 1 => online' \ {0} # {}
    BY <1>5, SubsetCount
  <1>7. NeverStuck' /\ CountMatches' /\ CoreZeroStays'
    BY <1>2, <1>3, <1>4, <1>5, <1>6, CoreCount DEF NeverStuck, CountMatches, CoreZeroStays
  <1>8. /\ {minImpCoreId, maxImpCoreId, minUtilCoreId, maxUtilCoreId}' \subseteq online'
        /\ FirstLeast(minImpCoreId', online' \cup {0}, sumOfImportance')
    BY <1>2, <1>5, RefreshedIds
  <1>9. TypeOK'
    <2>1. TypeOK
      BY DEF Inv
    <2>2. /\ sumOfImportance' \in [Core -> Int] /\ util' \in [Core -> Int]
          /\ pidListVec' \in [0..NumCore -> SUBSET Thread]
      <3>1. /\ sumOfImportance \in [Core -> Int] /\ util \in [Core -> Int]
            /\ pidListVec \in [0..NumCore -> SUBSET Thread]
        BY <2>1 DEF TypeOK
      <3>2. /\ sumOfImportance' = [sumOfImportance EXCEPT ![c] = 0]
            /\ util' = [util EXCEPT ![c] = 0]
            /\ pidListVec' = [pidListVec EXCEPT ![c] = {}]
        BY <1>2
      <3>3. sumOfImportance' \in [Core -> Int] /\ util' \in [Core -> Int]
        BY <1>3, <3>1, <3>2, ClearedEntry
      <3>4. pidListVec' \in [0..NumCore -> SUBSET Thread]
        BY <3>1, <3>2
      <3>q. QED
        BY <3>3, <3>4
    <2>3. {minImpCoreId, maxImpCoreId, minUtilCoreId, maxUtilCoreId}' \subseteq Core
      BY <1>5, <1>8
    <2>4. /\ online' \subseteq Core /\ numOfCoresOnline' \in Int /\ todo' \in Int
          /\ pc' \in {"idle", "resize", "balanceImp", "balanceUtil", "dead"} /\ coreId' \in [Thread -> Core \cup {-1}]
      BY <1>2, <1>3, <1>5
    <2>5. /\ procRunningHistory' \in [Slot -> Nat \ {0}] /\ procRunningIndex' \in Slot
          /\ sumProcRunning' \in Int /\ cause' \in {"tick", "screen"}
      BY <1>2, <2>1 DEF TypeOK, history
    <2>q. QED
      BY <2>2, <2>3, <2>4, <2>5 DEF TypeOK
  <1>10. CachedCoresOnline' /\ HistorySum' /\ VictimFresh'
    BY <1>2, <1>8 DEF Inv, CachedCoresOnline, HistorySum, VictimFresh, history
  <1>q. QED
    BY <1>7, <1>9, <1>10 DEF Inv

LEMMA SettleStep == ASSUME Inv, Settle PROVE Inv'
  <1>1. /\ updateMinMaxCore(online, sumOfImportance, util) /\ pc' = "balanceImp"
        /\ UNCHANGED <<power, books, history, threads, todo, cause>>
        /\ online \in SUBSET Core /\ 0 \in online
    BY DEF Settle, Inv, TypeOK, CoreZeroStays
  <1>2. {minImpCoreId, maxImpCoreId, minUtilCoreId, maxUtilCoreId}' \subseteq online
    BY <1>1, RefreshedIds
  <1>3. TypeOK'
    BY <1>1, <1>2 DEF Inv, TypeOK, power, books, history, threads
  <1>q. QED
    BY <1>1, <1>2, <1>3 DEF Inv, CountMatches, CoreZeroStays, CachedCoresOnline, HistorySum,
                            NeverStuck, VictimFresh, power, history

-----------------------------------------------------------------------------
(* Migration. *)

\* ListPids puts no thread on the list of a core: the push of thread.c:244 goes past the
\* array.  So a step of migration changes no thread and no sum.
ListsEmpty == \A c \in Core : pidListVec[c] = {}

\* With empty lists there is nothing to balance.
LEMMA NothingToBalance ==
  ASSUME TypeOK, ListsEmpty, NEW min \in Core, NEW max \in Core, Balance(min, max)
  PROVE  UNCHANGED <<books, threads>> /\ updateMinMaxCore(online, sumOfImportance, util)
  <1>1. /\ coreId \in [Thread -> Core \cup {-1}] /\ pidListVec \in [0..NumCore -> SUBSET Thread]
        /\ pidListVec[min] = {} /\ pidListVec[max] = {}
    BY DEF TypeOK, ListsEmpty
  <1>2. /\ coreId' = [t \in Thread |-> IF t \in {} THEN min ELSE coreId[t]]
        /\ pidListVec' = [pidListVec EXCEPT
             ![min] = @ \cup {}, ![max] = IF {} = pidListVec[max] THEN @ ELSE @ \ {}]
        /\ UNCHANGED books /\ updateMinMaxCore(online, sumOfImportance', util')
    BY <1>1, Zenon DEF Balance
  <1>3. coreId' = coreId
    BY <1>1, <1>2
  <1>4. pidListVec' = pidListVec
    BY <1>1, <1>2
  <1>q. QED
    BY <1>2, <1>3, <1>4 DEF books, threads

LEMMA MigrationStep == ASSUME Inv, ListsEmpty, migration PROVE Inv' /\ UNCHANGED <<books, threads>>
  <1>1. TypeOK /\ online \in SUBSET Core /\ 0 \in online
        /\ {minImpCoreId, maxImpCoreId, minUtilCoreId, maxUtilCoreId} \subseteq Core
    BY DEF Inv, TypeOK, CoreZeroStays
  <1>2. /\ UNCHANGED <<power, history, todo, cause>>
        /\ pc' \in {"idle", "balanceUtil"}
    BY DEF migration, balanceCoreImp, balanceCoreUtil, OneCore
  <1>3. CASE OneCore
    <2>1. TypeOK'
      BY <1>2, <1>3 DEF OneCore, Inv, TypeOK, power, books, ids, history, threads
    <2>q. QED
      BY <1>3, <2>1, IdleStep DEF OneCore
  <1>4. CASE balanceCoreImp \/ balanceCoreUtil
    <2>1. UNCHANGED <<books, threads>> /\ updateMinMaxCore(online, sumOfImportance, util)
      BY <1>1, <1>4, NothingToBalance DEF balanceCoreImp, balanceCoreUtil
    <2>2. {minImpCoreId, maxImpCoreId, minUtilCoreId, maxUtilCoreId}' \subseteq online
      BY <1>1, <2>1, RefreshedIds
    <2>3. TypeOK'
      BY <1>1, <1>2, <2>1, <2>2 DEF TypeOK, power, books, history, threads
    <2>q. QED
      BY <1>2, <2>1, <2>2, <2>3 DEF Inv, CountMatches, CoreZeroStays, CachedCoresOnline,
                                    HistorySum, NeverStuck, VictimFresh, power, history
  <1>q. QED
    BY <1>3, <1>4 DEF migration

\* No step puts a thread on the list of a core.
LEMMA ListsStep == Inv /\ ListsEmpty /\ [Next]_vars => ListsEmpty'
  <1> SUFFICES ASSUME Inv, ListsEmpty, [Next]_vars, NEW c \in Core PROVE pidListVec'[c] = {}
    BY DEF ListsEmpty
  <1>1. pidListVec \in [0..NumCore -> SUBSET Thread] /\ pidListVec[c] = {} /\ c \in 0..NumCore /\ c < NumCore
    <2>1. pidListVec \in [0..NumCore -> SUBSET Thread]
      BY DEF Inv, TypeOK
    <2>2. pidListVec[c] = {}
      BY DEF ListsEmpty
    <2>3. c \in 0..NumCore /\ c < NumCore
      BY NumCoreAssumption DEF Core
    <2>q. QED
      BY <2>1, <2>2, <2>3
  <1>2. CASE BeginTick
    BY <1>1, <1>2 DEF BeginTick, ListPids
  <1>3. CASE migration
    BY <1>1, <1>3, MigrationStep DEF threads
  <1>4. ASSUME NEW d \in Core, TurnOn(d) PROVE pidListVec'[c] = {}
    BY <1>1, <1>4 DEF TurnOn
  <1>5. ASSUME NEW d \in Core \cup {-1}, TurnOff(d) PROVE pidListVec'[c] = {}
    <2>1. pidListVec' = [pidListVec EXCEPT ![d] = {}]
      BY <1>5, VictimOnline DEF TurnOff
    <2>q. QED
      BY <1>1, <2>1
  <1>6. CASE UNCHANGED pidListVec
    BY <1>1, <1>6
  <1>q. QED
    BY <1>2, <1>3, <1>4, <1>5, <1>6
       DEF Next, Loop, Book, Allocate, ThreadExit, BeginScreen, Settle, Die, Terminated, vars, threads

-----------------------------------------------------------------------------

LEMMA InvStep == Inv /\ ListsEmpty /\ [Next]_vars => Inv'
  <1> SUFFICES ASSUME Inv, ListsEmpty, [Next]_vars PROVE Inv'
    OBVIOUS
  <1>1. ASSUME NEW c \in Core, NEW s \in -MaxImp..MaxImp, NEW u \in 0..MaxUtil, Book(c, s, u)
        PROVE  Inv'
    <2>1. TypeOK'
      BY <1>1, MaxSumAssumption
         DEF Book, Inv, TypeOK, power, ids, history, threads
    <2>q. QED
      BY <1>1, <2>1, IdleStep DEF Book
  <1>2. ASSUME NEW t \in Thread, Allocate(t) \/ ThreadExit(t) PROVE Inv'
    <2>1. PICK c \in Core \cup {-1} : coreId' = [coreId EXCEPT ![t] = c]
      BY <1>2 DEF Allocate, ThreadExit, Inv, TypeOK
    <2>2. TypeOK'
      BY <1>2, <2>1 DEF Allocate, ThreadExit, Inv, TypeOK, power, books, ids, history
    <2>q. QED
      BY <1>2, <2>2, IdleStep DEF Allocate, ThreadExit
  <1>3. CASE BeginTick
    BY <1>3, BeginTickStep
  <1>4. CASE BeginScreen
    BY <1>4, BeginScreenStep
  <1>5. CASE Loop
    BY <1>5, TurnOnStep, TurnOffStep, SettleStep DEF Loop
  <1>6. CASE Die
    <2>1. TypeOK'
      BY <1>6 DEF Die, Inv, TypeOK, power, books, ids, history, threads
    <2>q. QED
      BY <1>6, <2>1, IdleStep DEF Die
  <1>7. CASE Terminated \/ UNCHANGED vars
    BY <1>7 DEF Terminated, vars, power, books, ids, history, threads, Inv, TypeOK, CountMatches,
                CoreZeroStays, CachedCoresOnline, HistorySum, NeverStuck, VictimFresh
  <1>8. CASE migration
    BY <1>8, MigrationStep
  <1>q. QED
    BY <1>1, <1>2, <1>3, <1>4, <1>5, <1>6, <1>7, <1>8 DEF Next

LEMMA Invariant == Spec => [](Inv /\ ListsEmpty)
  <1>1. Init => ListsEmpty
    BY NumCoreAssumption DEF Init, ListsEmpty, Core
  <1>q. QED
    BY <1>1, InvInit, InvStep, ListsStep, PTL DEF Spec

-----------------------------------------------------------------------------
(* The results. *)

\* Every variable keeps its type.
THEOREM TypeCorrect == Spec => []TypeOK
  BY Invariant, PTL DEF Inv

\* The counter DPM steers by always equals the number of cores it believes to be
\* online (core.c:265-290 and 667-698).
THEOREM CountMatchesAlways == Spec => []CountMatches
  BY Invariant, PTL DEF Inv

\* No sequence of plans ever turns core 0 off (core.c:646 and 707-727).
THEOREM CoreZeroAlwaysOnline == Spec => []CoreZeroStays
  BY Invariant, PTL DEF Inv

\* The ids kept for allocation, migration and DVFS name online cores in every
\* state between two events, however stale the sums are that they came from
\* (core.c:348-370, thread.c:262-278).
THEOREM CachedCoresAlwaysOnline == Spec => []CachedCoresOnline
  BY Invariant, PTL DEF Inv

\* Neither loop of DPM can spin: there is a core to turn on or off for as long
\* as the plan is not met (core.c:265-290).
THEOREM NeverStuckAlways == Spec => []NeverStuck
  BY Invariant, PTL DEF Inv

\* The running sum never drifts from the ring it sums up (core.c:232-236).
THEOREM HistorySumAlways == Spec => []HistorySum
  BY Invariant, PTL DEF Inv

\* On a sampling tick, every core that is turned off has the least importance of
\* all that could be (thread.c:229-230, core.c:280-287).
THEOREM TickVictimAlwaysLeast == Spec => TickVictimIsLeast
  <1> DEFINE A == \A c \in online \ online' : cause = "tick" => LeastImportant(c)
  <1>1. Inv /\ [Next]_vars => [A]_vars
    <2> SUFFICES ASSUME Inv, Next, NEW c \in online \ online', cause = "tick"
                 PROVE  LeastImportant(c)
      OBVIOUS
    <2>1. PICK d \in Core \cup {-1} : TurnOff(d)
      BY DEF Next, Loop, Book, Allocate, ThreadExit, BeginTick, BeginScreen, TurnOn, Settle,
             migration, balanceCoreImp, balanceCoreUtil, OneCore, Die, Terminated, vars, power
    <2>2. d \in online /\ d > 0 /\ 0 \in online
      BY <2>1, VictimOnline DEF Inv, CoreZeroStays
    <2>3. c = d /\ pc = "resize" /\ todo < 0 /\ MinImpCoreExcept0(d)
      BY <2>1, <2>2 DEF TurnOff
    <2>4. FirstLeast(minImpCoreId, online \cup {0}, sumOfImportance)
      BY <2>3 DEF Inv, VictimFresh
    <2>5. sumOfImportance \in [Core -> Int] /\ online \subseteq Core
      BY DEF Inv, TypeOK
    <2>6. CASE minImpCoreId # 0
      BY <2>3, <2>4, <2>5, <2>6 DEF MinImpCoreExcept0, FirstLeast, LeastImportant
    <2>7. CASE minImpCoreId = 0
      <3>1. FirstLeast(d, online \ {0}, sumOfImportance)
        BY <2>2, <2>3, <2>7 DEF MinImpCoreExcept0
      <3>q. QED
        BY <2>3, <2>5, <3>1 DEF FirstLeast, LeastImportant
    <2>q. QED
      BY <2>6, <2>7
  <1>q. QED
    BY <1>1, Invariant, PTL DEF Spec, TickVictimIsLeast

\* No thread is ever put on a core that is off, by allocation or when a core is
\* poured out (thread.c:262-278, core.c:798-825).
THEOREM PlacedAlwaysOnOnlineCore == Spec => PlacedOnOnlineCore
  <1> DEFINE A == \A t \in Thread : coreId'[t] # coreId[t] /\ coreId'[t] # -1
                                      => coreId'[t] \in online'
  <1>1. Inv /\ ListsEmpty /\ [Next]_vars => [A]_vars
    <2> SUFFICES ASSUME Inv, ListsEmpty, Next, NEW t \in Thread, coreId'[t] # coreId[t], coreId'[t] # -1
                 PROVE  coreId'[t] \in online'
      OBVIOUS
    <2>1. (\E u \in Thread : Allocate(u) \/ ThreadExit(u)) \/ (\E d \in Core \cup {-1} : TurnOff(d))
      BY MigrationStep DEF Next, Loop, Book, BeginTick, BeginScreen, TurnOn, Settle, Die, Terminated,
             vars, threads
    <2>2. coreId \in [Thread -> Core \cup {-1}]
          /\ {minImpCoreId, minUtilCoreId} \subseteq online
      BY DEF Inv, TypeOK, CachedCoresOnline
    <2>3. CASE \E u \in Thread : Allocate(u) \/ ThreadExit(u)
      <3>1. PICK u \in Thread : Allocate(u) \/ ThreadExit(u)
        BY <2>3
      <3>2. PICK c \in online \cup {-1} : coreId' = [coreId EXCEPT ![u] = c] /\ online' = online
        BY <3>1, <2>2 DEF Allocate, ThreadExit, power
      <3>q. QED
        BY <3>2, <2>2
    <2>4. CASE \E d \in Core \cup {-1} : TurnOff(d)
      <3>1. PICK d \in Core \cup {-1} : TurnOff(d)
        BY <2>4
      <3>2. d > 0 /\ 0 \in online
        BY <3>1, VictimOnline DEF Inv, CoreZeroStays
      <3>3. PourCoreImpUtil(d) /\ online' = online \ {d}
        BY <3>1, <3>2 DEF TurnOff
      <3>4. coreId'[t] \in (online \ {d}) \cup {0}
        BY <3>3 DEF PourCoreImpUtil, FirstLeast
      <3>q. QED
        BY <3>2, <3>3, <3>4
    <2>q. QED
      BY <2>1, <2>3, <2>4
  <1>q. QED
    BY <1>1, Invariant, PTL DEF Spec, PlacedOnOnlineCore

-----------------------------------------------------------------------------
(* How far the loops go. *)

\* The steps that DPM and the migration after it still take, at most.
Left == CASE pc = "resize" -> (IF todo < 0 THEN -todo ELSE todo) + 3
          [] pc = "balanceImp" -> 2
          [] pc = "balanceUtil" -> 1
          [] OTHER -> 0

Busy == pc \in {"resize", "balanceImp", "balanceUtil"}

\* The safety half of DPMTerminates: once DPM has its plan, it and the migration after it take
\* at most NumCore + 2 steps, whatever cores are chosen, for each leaves fewer to take
\* (core.c:265-292 and 428-444).  That a next one can be taken follows from NeverStuck.
THEOREM LoopsAlwaysAdvance ==
  Spec => /\ [](Busy => Left \in 1..NumCore + 2)
          /\ [][Busy => Left' < Left]_vars
  <1>1. Inv => (Busy => Left \in 1..NumCore + 2)
    <2> SUFFICES ASSUME Inv, Busy PROVE Left \in 1..NumCore + 2
      OBVIOUS
    <2>1. PICK n : n = Cardinality(online)
      OBVIOUS
    <2>2. n \in 1..NumCore /\ NumCore \in Nat \ {0} /\ todo \in Int
      BY <2>1, NumCoreAssumption, SubsetCount DEF Inv, TypeOK, CoreZeroStays
    <2>3. CASE pc = "resize"
      <3>1. todo + n \in 1..NumCore
        BY <2>1, <2>3 DEF Inv, NeverStuck
      <3>2. Left = (IF todo < 0 THEN -todo ELSE todo) + 3
        BY <2>3 DEF Left
      <3> QED
        BY <2>2, <3>1, <3>2
    <2>4. CASE pc # "resize"
      BY <2>2, <2>4 DEF Busy, Left
    <2> QED
      BY <2>3, <2>4
  <1>2. Inv /\ [Next]_vars => [Busy => Left' < Left]_vars
    <2> SUFFICES ASSUME Inv, Next, Busy
                 PROVE  Left' < Left
      OBVIOUS
    <2>0. todo \in Int
      BY DEF Inv, TypeOK
    <2>1. CASE \E c \in Core : TurnOn(c)
      <3>1. pc = "resize" /\ pc' = pc /\ todo > 0 /\ todo' = todo - 1
        BY <2>1 DEF TurnOn
      <3> QED
        BY <2>0, <3>1 DEF Left
    <2>2. CASE \E c \in Core \cup {-1} : TurnOff(c)
      <3>1. pc = "resize" /\ pc' = pc /\ todo < 0 /\ todo' = todo + 1
        BY <2>2 DEF TurnOff
      <3> QED
        BY <2>0, <3>1 DEF Left
    <2>3. CASE Settle
      <3>1. pc = "resize" /\ pc' = "balanceImp" /\ todo = 0
        BY <2>3 DEF Settle
      <3> QED
        BY <3>1 DEF Left
    <2>4. CASE migration
      BY <2>4 DEF migration, balanceCoreImp, balanceCoreUtil, OneCore, Left
    <2>5. CASE Die
      <3>1. pc = "resize" /\ pc' = "dead"
        BY <2>5 DEF Die, Busy
      <3> QED
        BY <2>0, <3>1 DEF Left
    <2> QED
      BY <2>1, <2>2, <2>3, <2>4, <2>5
      DEF Next, Loop, Busy, Book, Allocate, ThreadExit, BeginTick, BeginScreen, Terminated
  <1> QED
    BY <1>1, <1>2, Invariant, PTL DEF Spec

\* The loops bring about what was planned: what is on and what is still to be turned on or
\* off keep their sum, and when the loops are left nothing is still to be done
\* (core.c:238-292).
THEOREM PlanAlwaysKept ==
  Spec => [][pc = "resize" => /\ todo' + Cardinality(online') = todo + Cardinality(online)
                              /\ pc' = "balanceImp" => todo = 0]_vars
  <1> DEFINE A == pc = "resize" => /\ todo' + Cardinality(online') = todo + Cardinality(online)
                                   /\ pc' = "balanceImp" => todo = 0
  <1>1. Inv /\ Inv' /\ [Next]_vars => [A]_vars
    <2> SUFFICES ASSUME Inv, Inv', Next, pc = "resize"
                 PROVE  /\ todo' + Cardinality(online') = todo + Cardinality(online)
                        /\ pc' = "balanceImp" => todo = 0
      OBVIOUS
    <2>0. /\ todo \in Int /\ numOfCoresOnline \in Int
          /\ numOfCoresOnline = Cardinality(online) /\ numOfCoresOnline' = Cardinality(online')
      BY DEF Inv, TypeOK, CountMatches
    <2>1. CASE \E c \in Core : TurnOn(c)
      <3>1. pc' = "resize" /\ todo' = todo - 1 /\ numOfCoresOnline' = numOfCoresOnline + 1
        BY <2>1 DEF TurnOn
      <3> QED
        BY <2>0, <3>1
    <2>2. CASE \E c \in Core \cup {-1} : TurnOff(c)
      <3>1. PICK c \in Core \cup {-1} : TurnOff(c)
        BY <2>2
      <3>2. c > 0
        BY <3>1, VictimOnline
      <3>3. pc' = "resize" /\ todo' = todo + 1 /\ numOfCoresOnline' = numOfCoresOnline - 1
        BY <3>1, <3>2 DEF TurnOff
      <3> QED
        BY <2>0, <3>3
    <2>3. CASE Settle \/ Die
      BY <2>0, <2>3 DEF Settle, Die, power
    <2> QED
      BY <2>1, <2>2, <2>3
      DEF Next, Loop, Book, Allocate, ThreadExit, BeginTick, BeginScreen, Terminated, migration,
          balanceCoreImp, balanceCoreUtil, OneCore
  <1> QED
    BY <1>1, Invariant, PTL DEF Spec

=============================================================================
