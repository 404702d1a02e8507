----------------------------- MODULE CorePower -----------------------------
(***************************************************************************)
(* Dynamic power management (core.c, DPM): how many cores are online, and  *)
(* the core ids the rest of the daemon keeps from one event to the next.   *)
(*                                                                         *)
(* updateMinMaxCore stores the ids of the cores with the smallest and the  *)
(* largest importance sum and utilization; allocation, migration, DVFS and *)
(* DPM itself use the stored ids later, when the sums they were computed   *)
(* from may have changed.  One iteration of either loop of DPM is one      *)
(* step.                                                                   *)
(*                                                                         *)
(* Abstractions: the averaged utilization enters only through the number   *)
(* of cores its thresholds ask for, so that number is any of 1..NumCore;   *)
(* handlers that book importance and utilization on a core between two     *)
(* runs of DPM may leave any value there, and so may migration, which      *)
(* follows DPM, for the cores it moves threads between.                    *)
(***************************************************************************)
EXTENDS Integers, FiniteSets

CONSTANTS NumCore,     \* CONFIG_NUM_OF_CORE
          Running,     \* bound: the procs_running values that are tried
          MaxImp, MaxUtil,  \* bounds: sums of importance and utilizations
          Thread       \* the threads whose placement is followed

ASSUME NumCoreAssumption    == NumCore \in Nat \ {0}
ASSUME RunningAssumption    == Running \subseteq Nat
ASSUME MaxSumAssumption     == MaxImp \in Nat /\ MaxUtil \in Nat

Core == 0..NumCore - 1
Slot == 0..2            \* CONFIG_NUM_OF_PROCESS_RUNNING_HISTORY_ENTRIES is 3

VARIABLES online,               \* the cores with coreSet[i].online
          numOfCoresOnline,
          sumOfImportance,      \* coreSet[i].sumOfImportance
          util,                 \* coreSet[i].util
          minImpCoreId, maxImpCoreId, minUtilCoreId, maxUtilCoreId,
          procRunningHistory, procRunningIndex, sumProcRunning,
          coreId,               \* threadSet[t].coreId, or -1 for no thread
          pidListVec,           \* the pid lists, and what lies past the array's end
          pc, todo, cause       \* where DPM is, numOfCoresShouldOpen, who called

ids     == <<minImpCoreId, maxImpCoreId, minUtilCoreId, maxUtilCoreId>>
history == <<procRunningHistory, procRunningIndex, sumProcRunning>>
books   == <<sumOfImportance, util>>
power   == <<online, numOfCoresOnline>>
threads == <<coreId, pidListVec>>
vars    == <<power, books, ids, history, threads, pc, todo, cause>>

TypeOK ==
  /\ online \subseteq Core /\ numOfCoresOnline \in Int
  /\ sumOfImportance \in [Core -> Int] /\ util \in [Core -> Int]
  /\ {minImpCoreId, maxImpCoreId, minUtilCoreId, maxUtilCoreId} \subseteq Core
  /\ procRunningHistory \in [Slot -> Nat \ {0}] /\ procRunningIndex \in Slot
  /\ sumProcRunning \in Int
  /\ coreId \in [Thread -> Core \cup {-1}]
  /\ pidListVec \in [0..NumCore -> SUBSET Thread]
  /\ pc \in {"idle", "resize", "balanceImp", "balanceUtil", "dead"} /\ todo \in Int /\ cause \in {"tick", "screen"}

\* initialize_cores: every core is brought online.
Init ==
  /\ online = Core /\ numOfCoresOnline = NumCore
  /\ sumOfImportance = [c \in Core |-> 0] /\ util = [c \in Core |-> 0]
  /\ minImpCoreId = 0 /\ maxImpCoreId = 0 /\ minUtilCoreId = 0 /\ maxUtilCoreId = 0
  /\ procRunningHistory = [i \in Slot |-> 1] /\ procRunningIndex = 0
  /\ sumProcRunning = 3
  /\ coreId = [t \in Thread |-> -1]
  /\ pidListVec = [i \in 0..NumCore |-> {}]
  /\ pc = "idle" /\ todo = 0 /\ cause = "tick"

-----------------------------------------------------------------------------
(* Choosing cores. *)

\* The first core of C, in id order, with the smallest (largest) f.
FirstLeast(c, C, f) ==
  c \in C /\ \A d \in C : f[c] < f[d] \/ (f[c] = f[d] /\ c <= d)
FirstGreatest(c, C, f) ==
  c \in C /\ \A d \in C : f[c] > f[d] \/ (f[c] = f[d] /\ c <= d)

\* Mutation of updateMinMaxCore: cores that are off are candidates too.
updateMinMaxCoreAll(on, imp, u) ==
  /\ minImpCoreId'  \in {c \in Core : FirstLeast(c, Core, imp)}
  /\ maxImpCoreId'  \in {c \in Core : FirstGreatest(c, Core, imp)}
  /\ minUtilCoreId' \in {c \in Core : FirstLeast(c, Core, u)}
  /\ maxUtilCoreId' \in {c \in Core : FirstGreatest(c, Core, u)}

\* Core 0 is a candidate whether its online flag is set or not.
updateMinMaxCore(on, imp, u) ==
  LET C == on \cup {0}
  IN  /\ minImpCoreId'  \in {c \in C : FirstLeast(c, C, imp)}
      /\ maxImpCoreId'  \in {c \in C : FirstGreatest(c, C, imp)}
      /\ minUtilCoreId' \in {c \in C : FirstLeast(c, C, u)}
      /\ maxUtilCoreId' \in {c \in C : FirstGreatest(c, C, u)}

FirstOfflineCore(c) == c \in Core \ (online \cup {0})
                       /\ \A d \in Core \ (online \cup {0}) : c <= d

\* getMinImpCoreExcept0 trusts the stored id when it is not 0, and returns -1
\* when it has to search and finds nothing.
MinImpCoreExcept0(c) ==
  IF minImpCoreId # 0 THEN c = minImpCoreId
  ELSE IF online \ {0} = {} THEN c = -1
  ELSE FirstLeast(c, online \ {0}, sumOfImportance)

-----------------------------------------------------------------------------
(* What the rest of the daemon does between two runs of DPM. *)

\* change_importance, assign_core and destroy_thread change the sums of the
\* core a thread is booked on, which may be offline; the stored ids stay.  A sum
\* can go below 0: destroy_thread takes off what was never added.
Book(c, s, u) ==
  /\ pc = "idle"
  /\ sumOfImportance' = [sumOfImportance EXCEPT ![c] = s]
  /\ util' = [util EXCEPT ![c] = u]
  /\ UNCHANGED <<power, ids, history, threads, pc, todo, cause>>

\* A fork: allocation puts a thread of mid or high importance on the stored
\* core of least importance, and one of low importance on that of least
\* utilization.  The sums it moves are Book's.
Allocate(t) ==
  /\ pc = "idle" /\ coreId[t] = -1
  /\ \E c \in {minImpCoreId, minUtilCoreId} : coreId' = [coreId EXCEPT ![t] = c]
  /\ UNCHANGED <<power, books, ids, history, pidListVec, pc, todo, cause>>

ThreadExit(t) ==
  /\ pc = "idle" /\ coreId[t] # -1
  /\ coreId' = [coreId EXCEPT ![t] = -1]
  /\ UNCHANGED <<power, books, ids, history, pidListVec, pc, todo, cause>>

-----------------------------------------------------------------------------
(* DPM. *)

LeastOf(a, b) == IF a < b THEN a ELSE b

\* Mutation of Plan: a procs_running of 0, or a failed read, is taken as it is.
PlanUnchecked(running, wanted) ==
  LET i == (procRunningIndex + 1) % 3
      s == sumProcRunning - procRunningHistory[i] + running
  IN  /\ procRunningIndex' = i
      /\ procRunningHistory' = [procRunningHistory EXCEPT ![i] = running]
      /\ sumProcRunning' = s
      /\ todo' = LeastOf(wanted, s \div 3) - numOfCoresOnline
      /\ pc' = "resize"

\* Mutation of Plan: the newest entry is subtracted in place of the oldest.
PlanOldIndex(running, wanted) ==
  LET i == (procRunningIndex + 1) % 3
      n == IF running < 1 THEN 1 ELSE running
      s == sumProcRunning - procRunningHistory[procRunningIndex] + n
  IN  /\ procRunningIndex' = i
      /\ procRunningHistory' = [procRunningHistory EXCEPT ![i] = n]
      /\ sumProcRunning' = s
      /\ todo' = LeastOf(wanted, s \div 3) - numOfCoresOnline
      /\ pc' = "resize"

\* Up to the loops: record procs_running (at least 1, also when /proc/stat does
\* not say) in the ring, and compute how many cores to turn on or off.
Plan(running, wanted) ==
  LET i == (procRunningIndex + 1) % 3
      n == IF running < 1 THEN 1 ELSE running
      s == sumProcRunning - procRunningHistory[i] + n
  IN  /\ procRunningIndex' = i
      /\ procRunningHistory' = [procRunningHistory EXCEPT ![i] = n]
      /\ sumProcRunning' = s
      /\ todo' = LeastOf(wanted, s \div 3) - numOfCoresOnline
      /\ pc' = "resize"

\* calculate_utilization empties the list of every core and then pushes every
\* thread of /proc/allstat on pidListVec[i] with i left at NumCore by the loop
\* before: past the end of the array.  What the push finds there is up to the build.
\* A vector takes the pids (it has an entry of its own here, whichever it is), and
\* anything else ends the process (Die).
ListPids ==
  pidListVec' = [i \in 0..NumCore |->
                   IF i < NumCore THEN {}
                   ELSE pidListVec[i] \cup {t \in Thread : coreId[t] # -1}]

\* Mutation of BeginTick: calculate_utilization forgets updateMinMaxCore.
BeginTickStale ==
  /\ pc = "idle"
  /\ util' \in {u \in [Core -> 0..MaxUtil] : \A c \in Core \ online : u[c] = 0}
  /\ \E running \in Running \cup {-1}, wanted \in 1..NumCore : Plan(running, wanted)
  /\ ListPids
  /\ cause' = "tick"
  /\ UNCHANGED <<power, sumOfImportance, ids, coreId>>

\* do_action on a sampling tick: calculate_utilization measures every online
\* core and refreshes the stored ids just before DPM.
BeginTick ==
  /\ pc = "idle"
  /\ \E u \in [Core -> 0..MaxUtil] :
       /\ \A c \in Core \ online : u[c] = 0
       /\ util' = u
       /\ updateMinMaxCore(online, sumOfImportance, u)
  /\ \E running \in Running \cup {-1}, wanted \in 1..NumCore : Plan(running, wanted)
  /\ ListPids
  /\ cause' = "tick"
  /\ UNCHANGED <<power, sumOfImportance, coreId>>

\* do_action on a screen event calls DPM with the ids as they were stored,
\* after produce_importance has changed the foreground's importance.
BeginScreen ==
  /\ pc = "idle"
  /\ \E running \in Running \cup {-1}, wanted \in 1..NumCore : Plan(running, wanted)
  /\ cause' = "screen"
  /\ UNCHANGED <<power, books, ids, threads>>

\* Mutation of TurnOn: the counter is left as it was.
TurnOnUncounted(c) ==
  /\ pc = "resize" /\ todo > 0
  /\ FirstOfflineCore(c)
  /\ online' = online \cup {c}
  /\ todo' = todo - 1
  /\ UNCHANGED <<numOfCoresOnline, books, ids, history, threads, pc, cause>>

\* Mutation of TurnOn: the loop forgets numOfCoresShouldOpen--.
TurnOnForever(c) ==
  /\ pc = "resize" /\ todo > 0
  /\ FirstOfflineCore(c)
  /\ online' = online \cup {c}
  /\ numOfCoresOnline' = numOfCoresOnline + 1
  /\ UNCHANGED <<books, ids, history, threads, pc, todo, cause>>

\* setCore(c, true).  With no offline core left the loop would spin for ever:
\* the step is then disabled.
TurnOn(c) ==
  /\ pc = "resize" /\ todo > 0
  /\ FirstOfflineCore(c)
  /\ online' = online \cup {c}
  /\ numOfCoresOnline' = numOfCoresOnline + 1
  /\ sumOfImportance' = [sumOfImportance EXCEPT ![c] = 0]
  /\ util' = [util EXCEPT ![c] = 0]
  /\ pidListVec' = [pidListVec EXCEPT ![c] = {}]
  /\ todo' = todo - 1
  /\ UNCHANGED <<ids, history, coreId, pc, cause>>

\* Pour: threads go to the least loaded of the other cores, by importance or by
\* utilization depending on their own importance.  They are as many as the victim's list
\* has entries, but core.c:818 takes the words of the vector itself for their pids: any
\* threads may be moved, and the same one twice.
PourCoreImpUtil(c) ==
  LET C == (online \ {c}) \cup {0}
  IN  \E a, b \in C, poured \in SUBSET Thread :
        /\ FirstLeast(a, C, sumOfImportance) /\ FirstLeast(b, C, util)
        /\ Cardinality(poured) <= Cardinality(pidListVec[c])
        /\ coreId' \in [Thread -> Core \cup {-1}]
        /\ \A t \in Thread : IF t \in poured THEN coreId'[t] \in {a, b}
                                             ELSE coreId'[t] = coreId[t]

\* Mutation of TurnOff: minImpCoreId is the victim, core 0 or not.
TurnOffAny(c) ==
  /\ pc = "resize" /\ todo < 0
  /\ c = minImpCoreId
  /\ online' = online \ {c}
  /\ numOfCoresOnline' = numOfCoresOnline - 1
  /\ updateMinMaxCore(online \ {c}, sumOfImportance, util)
  /\ todo' = todo + 1
  /\ UNCHANGED <<books, history, threads, pc, cause>>

\* Mutation of TurnOff: no updateMinMaxCore after the core is off.
TurnOffStale(c) ==
  /\ pc = "resize" /\ todo < 0
  /\ MinImpCoreExcept0(c)
  /\ online' = online \ {c}
  /\ numOfCoresOnline' = numOfCoresOnline - 1
  /\ todo' = todo + 1
  /\ UNCHANGED <<books, ids, history, threads, pc, cause>>

\* PourCoreImpUtil(c), setCore(c, false) and updateMinMaxCore, when a core other
\* than 0 was found.
TurnOff(c) ==
  /\ pc = "resize" /\ todo < 0
  /\ MinImpCoreExcept0(c)
  /\ IF c > 0
     THEN /\ PourCoreImpUtil(c)
          /\ pidListVec' = [pidListVec EXCEPT ![c] = {}]
          /\ online' = online \ {c}
          /\ numOfCoresOnline' = numOfCoresOnline - 1
          /\ sumOfImportance' = [sumOfImportance EXCEPT ![c] = 0]
          /\ util' = [util EXCEPT ![c] = 0]
          /\ updateMinMaxCore(online \ {c}, sumOfImportance', util')
     ELSE UNCHANGED <<power, books, ids, threads>>
  /\ todo' = todo + 1
  /\ UNCHANGED <<history, pc, cause>>

Settle ==
  /\ pc = "resize" /\ todo = 0
  /\ updateMinMaxCore(online, sumOfImportance, util)
  /\ pc' = "balanceImp"
  /\ UNCHANGED <<power, books, history, threads, todo, cause>>

-----------------------------------------------------------------------------
(* migration, right after DPM. *)

\* Some threads listed on core max go to core min.  When that is all of them,
\* vector_remove_some leaves them on the list of max too.
Balance(min, max) ==
  \E moved \in SUBSET (IF min = max THEN {} ELSE pidListVec[max]) :
    /\ coreId' = [t \in Thread |-> IF t \in moved THEN min ELSE coreId[t]]
    /\ pidListVec' = [pidListVec EXCEPT
         ![min] = @ \cup moved,
         ![max] = IF moved = pidListVec[max] THEN @ ELSE @ \ moved]
    /\ IF moved = {} THEN UNCHANGED books
       ELSE /\ \E s, r \in -MaxImp..MaxImp : sumOfImportance' = [sumOfImportance EXCEPT ![min] = s, ![max] = r]
            /\ \E u, v \in 0..MaxUtil : util' = [util EXCEPT ![min] = u, ![max] = v]
    /\ updateMinMaxCore(online, sumOfImportance', util')

balanceCoreImp ==
  /\ pc = "balanceImp" /\ numOfCoresOnline # 1
  /\ Balance(minImpCoreId, maxImpCoreId)
  /\ pc' = "balanceUtil"
  /\ UNCHANGED <<power, history, todo, cause>>

balanceCoreUtil ==
  /\ pc = "balanceUtil"
  /\ Balance(minUtilCoreId, maxUtilCoreId)
  /\ pc' = "idle"
  /\ UNCHANGED <<power, history, todo, cause>>

OneCore ==
  /\ pc = "balanceImp" /\ numOfCoresOnline = 1
  /\ pc' = "idle"
  /\ UNCHANGED <<power, books, ids, history, threads, todo, cause>>

migration == balanceCoreImp \/ balanceCoreUtil \/ OneCore

-----------------------------------------------------------------------------
\* A file of /sys or /proc does not open, before the plan (core.c:628) or when a core is
\* switched (core.c:693): destruction and exit.  Or the push of ListPids found no vector.
Die ==
  /\ pc \in {"idle", "resize"}
  /\ pc' = "dead"
  /\ UNCHANGED <<power, books, ids, history, threads, todo, cause>>

Terminated == pc = "dead" /\ UNCHANGED vars

-----------------------------------------------------------------------------
Loop == (\E c \in Core : TurnOn(c)) \/ (\E c \in Core \cup {-1} : TurnOff(c)) \/ Settle

Next ==
  \/ \E c \in Core, s \in -MaxImp..MaxImp, u \in 0..MaxUtil : Book(c, s, u)
  \/ \E t \in Thread : Allocate(t) \/ ThreadExit(t)
  \/ BeginTick
  \/ BeginScreen
  \/ Loop
  \/ migration
  \/ Die
  \/ Terminated

Spec == Init /\ [][Next]_vars

\* DPM and migration are straight-line code between system calls: they are not abandoned.
FairSpec == Spec /\ WF_vars(Loop \/ migration)

-----------------------------------------------------------------------------
(* Properties. *)

\* The counter DPM steers by is the number of online cores, through every
\* interleaving of growing and shrinking (core.c:265-290 and 667-698).
CountMatches == numOfCoresOnline = Cardinality(online)

\* "core 0 never offline" (core.c:646).
CoreZeroStays == 0 \in online

\* The stored ids name online cores, whenever allocation, migration or DVFS may
\* use them: a new thread is never put on a core that is off.
CachedCoresOnline == {minImpCoreId, maxImpCoreId, minUtilCoreId, maxUtilCoreId} \subseteq online

\* The loops of DPM always find the core they need (core.c:267-290): growing
\* never spins for want of an offline core and shrinking never runs out of cores
\* other than 0.
NeverStuck ==
  pc = "resize" => /\ todo > 0 => Core \ online # {}
                   /\ todo < 0 => online \ {0} # {}
                   /\ todo + Cardinality(online) \in 1..NumCore

\* The running sum is the sum of the ring (core.c:232-236).
HistorySum ==
  sumProcRunning = procRunningHistory[0] + procRunningHistory[1] + procRunningHistory[2]

\* The core that is turned off has the least importance of those that may be.
LeastImportant(c) == \A d \in online \ {0} : sumOfImportance[c] <= sumOfImportance[d]

\* On a sampling tick, the core chosen has the least importance at that moment.
TickVictimIsLeast ==
  [][\A c \in online \ online' : cause = "tick" => LeastImportant(c)]_vars

\* A thread is only ever put on a core that is on, though the ids it is put by were
\* stored handlers ago (thread.c:262-278, core.c:798-825).
PlacedOnOnlineCore ==
  [][\A t \in Thread : coreId'[t] # coreId[t] /\ coreId'[t] # -1 => coreId'[t] \in online']_vars

\* core.c:794, "when a core turn off, migrate all threads on this core to other
\* cores".
ThreadsLeaveOfflineCores == \A t \in Thread : coreId[t] = -1 \/ coreId[t] \in online

\* DPM and the migration after it end (core.c:265-292, 428-444).
DPMTerminates == pc = "resize" ~> pc \in {"idle", "dead"}

=============================================================================
