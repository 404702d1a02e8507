------------------------- MODULE ThreadTableProofs --------------------------
(***************************************************************************)
(* Proofs about ThreadTable, for every number of cores and every finite    *)
(* set of pids.                                                            *)
(***************************************************************************)
EXTENDS ThreadTable, FiniteSetTheorems, WellFoundedInduction, TLAPS

\* What the count of threads depends on.
CountTypes ==
  /\ stage \in [Pid -> Stage] /\ coreId \in [Pid -> Core]
  /\ online \subseteq Core /\ 0 \in online /\ ghosts \subseteq Pid
  /\ numOfThreads \in [Core -> Int]

CountInv == CountTypes /\ NeverOvercounted

\* How many threads a core may be booked with.
Booked(c) == Cardinality(Assigned(c)) + Unreported(c)

-----------------------------------------------------------------------------
\* The threads of a core can be counted.
LEMMA AssignedFinite ==
  \A c : IsFiniteSet(Assigned(c))
  <1> SUFFICES ASSUME NEW c PROVE IsFiniteSet(Assigned(c))
    OBVIOUS
  <1>1. Assigned(c) \in SUBSET Pid
    BY DEF Assigned
  <1>q. QED
    BY <1>1, PidAssumption, FS_Subset

LEMMA BookedIsNat ==
  ASSUME ghosts \subseteq Pid
  PROVE  \A c : /\ Booked(c) \in Nat /\ Cardinality(Assigned(c)) \in Nat /\ Unreported(c) \in Nat
  <1> SUFFICES ASSUME NEW c
               PROVE  Booked(c) \in Nat /\ Cardinality(Assigned(c)) \in Nat /\ Unreported(c) \in Nat
    OBVIOUS
  <1>1. Cardinality(Assigned(c)) \in Nat
    BY AssignedFinite, FS_CardinalityType
  <1>2. Cardinality(ghosts) \in Nat
    BY PidAssumption, FS_Subset, FS_CardinalityType
  <1>3. Unreported(c) \in Nat
    BY <1>2 DEF Unreported
  <1>q. QED
    BY <1>1, <1>3 DEF Booked

\* The threads of a core and the ghosts staying, so does what it may be booked with.
LEMMA BookedStays ==
  ASSUME NEW c, Assigned(c)' = Assigned(c), ghosts' = ghosts
  PROVE  Booked(c)' = Booked(c)
  BY DEF Booked, Unreported

\* A thread that comes adds one, a thread that goes takes one.
LEMMA AssignedMore ==
  ASSUME CountTypes, NEW c, NEW p, p \notin Assigned(c), Assigned(c)' = Assigned(c) \cup {p},
         ghosts' = ghosts
  PROVE  Booked(c)' = Booked(c) + 1
  <1>1. Cardinality(Assigned(c)') = Cardinality(Assigned(c)) + 1 /\ Unreported(c)' = Unreported(c)
    BY AssignedFinite, FS_AddElement DEF Unreported
  <1>q. QED
    BY <1>1, BookedIsNat DEF Booked, CountTypes

LEMMA AssignedFewer ==
  ASSUME CountTypes, NEW c, NEW p \in Assigned(c), Assigned(c)' = Assigned(c) \ {p},
         ghosts' = ghosts
  PROVE  Booked(c)' = Booked(c) - 1
  <1>1. Cardinality(Assigned(c)') = Cardinality(Assigned(c)) - 1 /\ Unreported(c)' = Unreported(c)
    BY AssignedFinite, FS_RemoveElement DEF Unreported
  <1>q. QED
    BY <1>1, BookedIsNat DEF Booked, CountTypes

\* Add changes one core's figure.
LEMMA AddEffect ==
  ASSUME NEW f \in [Core -> Int], NEW c \in Core, NEW k \in Int
  PROVE  /\ Add(f, c, k) \in [Core -> Int]
         /\ Add(f, c, k)[c] = f[c] + k
         /\ \A d \in Core : d # c => Add(f, c, k)[d] = f[d]
  BY DEF Add

\* Assignments that stay leave the invariant alone.
LEMMA SameAssigned ==
  ASSUME CountInv, CountTypes', UNCHANGED <<numOfThreads, ghosts>>,
         \A c \in Core : Assigned(c)' = Assigned(c)
  PROVE  CountInv'
  BY DEF CountInv, NeverOvercounted, Unreported

-----------------------------------------------------------------------------
LEMMA TasksStep == ASSUME CountInv, Tasks PROVE CountInv'
  <1>1. PICK p \in Pid : Start(p) \/ Die(p)
    BY DEF Tasks
  <1>2. /\ UNCHANGED <<coreId, online, ghosts, numOfThreads>>
        /\ stage' \in [Pid -> Stage]
        /\ \A q \in Pid : stage'[q] \in {"known", "gone"} <=> stage[q] \in {"known", "gone"}
    <2>1. CASE Start(p)
      BY <2>1 DEF CountInv, CountTypes, Start, Stage, entries, books, counts
    <2>2. CASE Die(p)
      BY <2>2 DEF CountInv, CountTypes, Die, Stage, entries, books, counts
    <2>q. QED
      BY <1>1, <2>1, <2>2
  <1>3. CountTypes'
    BY <1>2 DEF CountInv, CountTypes
  <1>4. \A c \in Core : Assigned(c)' = Assigned(c)
    BY <1>2 DEF Assigned
  <1>q. QED
    BY <1>2, <1>3, <1>4, SameAssigned

\* A fork books the thread on the core it is put on, and one that is gone already takes
\* one off core 0 as well.
LEMMA ForkStep ==
  ASSUME CountInv, NEW p \in Pid, NEW base \in {LOW, MID}, NEW imp \in Importance, NEW c \in Core,
         Fork(p, base, imp, c)
  PROVE  CountInv'
  <1> DEFINE one == IF stage[p] = "born" THEN 1 ELSE 0
             first == Add(numOfThreads, 0, one)
             second == Add(first, 0, -1)
  <1>1. /\ stage[p] \in {"born", "lost"} /\ c \in online
        /\ stage' = [stage EXCEPT ![p] = IF stage[p] = "born" THEN "known" ELSE "gone"]
        /\ coreId' = [coreId EXCEPT ![p] = c]
        /\ numOfThreads' = Add(second, c, 1)
        /\ online' = online /\ ghosts' = ghosts
    BY DEF Fork, Move
  <1>2. 0 \in Core /\ one \in Int /\ one <= 1 /\ -1 \in Int /\ numOfThreads \in [Core -> Int]
    BY NumCoreAssumption DEF Core, CountInv, CountTypes
  <1> HIDE DEF one
  <1>3. /\ first \in [Core -> Int] /\ first[0] = numOfThreads[0] + one
        /\ \A d \in Core : d # 0 => first[d] = numOfThreads[d]
    BY <1>2, AddEffect
  <1> HIDE DEF first
  <1>4a. second = Add(first, 0, -1)
    OBVIOUS
  <1>4. /\ second \in [Core -> Int] /\ second[0] = first[0] + (-1)
        /\ \A d \in Core : d # 0 => second[d] = first[d]
    BY <1>2, <1>3, <1>4a DEF Add
  <1> HIDE DEF second
  <1>5. /\ numOfThreads' \in [Core -> Int] /\ numOfThreads'[c] = second[c] + 1
        /\ \A d \in Core : d # c => numOfThreads'[d] = second[d]
    BY <1>1, <1>4, AddEffect
  <1>6. /\ numOfThreads'[c] <= numOfThreads[c] + 1
        /\ \A d \in Core : d # c => numOfThreads'[d] <= numOfThreads[d]
    <2>1. \A d \in Core : second[d] <= numOfThreads[d]
      <3>1. SUFFICES ASSUME NEW d \in Core PROVE second[d] <= numOfThreads[d]
        OBVIOUS
      <3>2. numOfThreads[d] \in Int /\ numOfThreads[0] \in Int
        BY <1>2, <3>1
      <3>3. CASE d = 0
        BY <1>2, <1>3, <1>4, <3>2, <3>3
      <3>4. CASE d # 0
        BY <1>3, <1>4, <3>1, <3>2, <3>4
      <3>q. QED
        BY <3>3, <3>4
    <2>2. \A d \in Core : second[d] \in Int /\ numOfThreads[d] \in Int
      BY <1>2, <1>4
    <2>q. QED
      BY <1>5, <2>1, <2>2
  <1>7. /\ Assigned(c)' = Assigned(c) \cup {p} /\ p \notin Assigned(c)
        /\ \A d \in Core : d # c => Assigned(d)' = Assigned(d)
    BY <1>1 DEF Assigned, CountInv, CountTypes
  <1>8. Booked(c)' = Booked(c) + 1
    BY <1>1, <1>7, AssignedMore DEF CountInv
  <1>9. \A d \in Core : /\ numOfThreads[d] <= Booked(d) /\ Booked(d) \in Nat
                        /\ numOfThreads[d] \in Int /\ numOfThreads'[d] \in Int
    BY <1>2, <1>5, BookedIsNat DEF CountInv, CountTypes, NeverOvercounted, Booked
  <1>10. \A d \in Core : numOfThreads'[d] <= Booked(d)'
    <2>1. numOfThreads'[c] <= Booked(c)'
      BY <1>6, <1>8, <1>9
    <2>2. \A d \in Core : d # c => Booked(d)' = Booked(d)
      BY <1>1, <1>7, BookedStays
    <2>3. \A d \in Core : d # c => numOfThreads'[d] <= Booked(d)'
      BY <1>6, <1>9, <2>2
    <2>q. QED
      BY <2>1, <2>3
  <1>11. CountTypes'
    BY <1>1, <1>5 DEF CountInv, CountTypes, Stage
  <1>q. QED
    BY <1>10, <1>11 DEF CountInv, NeverOvercounted, Booked

\* An exit takes the thread off the core it is assigned to.
LEMMA ExitStep == ASSUME CountInv, NEW p \in Pid, Exit(p) PROVE CountInv'
  <1>c. PICK c \in Core : c = coreId[p]
    BY DEF CountInv, CountTypes
  <1>1. /\ stage[p] = "gone" /\ stage' = [stage EXCEPT ![p] = "free"]
        /\ numOfThreads' = Add(numOfThreads, c, -1)
        /\ UNCHANGED <<online, coreId, ghosts>>
    BY <1>c DEF Exit
  <1>2. c \in Core /\ numOfThreads \in [Core -> Int] /\ stage \in [Pid -> Stage]
    BY DEF CountInv, CountTypes
  <1>3. /\ Assigned(c)' = Assigned(c) \ {p} /\ p \in Assigned(c)
        /\ \A d \in Core : d # c => Assigned(d)' = Assigned(d)
    BY <1>c, <1>1, <1>2 DEF Assigned
  <1>4. /\ numOfThreads' \in [Core -> Int] /\ numOfThreads'[c] = numOfThreads[c] + (-1)
        /\ \A d \in Core : d # c => numOfThreads'[d] = numOfThreads[d]
    BY <1>1, <1>2, AddEffect
  <1>5. Booked(c)' = Booked(c) - 1
    BY <1>1, <1>3, AssignedFewer DEF CountInv
  <1>6. \A d \in Core : numOfThreads[d] <= Booked(d) /\ Booked(d) \in Nat /\ numOfThreads[d] \in Int
    BY <1>2, BookedIsNat DEF CountInv, CountTypes, NeverOvercounted, Booked
  <1>7. numOfThreads'[c] <= Booked(c)'
    BY <1>2, <1>4, <1>5, <1>6
  <1>8. \A d \in Core : d # c => numOfThreads'[d] <= Booked(d)'
    <2>1. \A d \in Core : d # c => Booked(d)' = Booked(d)
      BY <1>1, <1>3, BookedStays
    <2>q. QED
      BY <1>4, <1>6, <2>1
  <1>9. CountTypes'
    BY <1>1, <1>4 DEF CountInv, CountTypes, Stage
  <1>10. \A d \in Core : numOfThreads'[d] <= Booked(d)'
    <2>1. SUFFICES ASSUME NEW d \in Core PROVE numOfThreads'[d] <= Booked(d)'
      OBVIOUS
    <2>2. CASE d = c
      BY <1>7, <2>2, Zenon
    <2>3. CASE d # c
      BY <1>8, <2>3
    <2>q. QED
      BY <2>2, <2>3
  <1>q. QED
    BY <1>9, <1>10 DEF CountInv, NeverOvercounted, Booked

LEMMA ChangeStep ==
  ASSUME CountInv, NEW p \in Pid, NEW imp \in Importance, ChangeImportance(p, imp)
  PROVE  CountInv'
  <1>1. UNCHANGED <<stage, coreId, online, ghosts, numOfThreads>>
    BY DEF ChangeImportance, world, counts
  <1>2. CountTypes' /\ \A c \in Core : Assigned(c)' = Assigned(c)
    BY <1>1 DEF CountInv, CountTypes, Assigned
  <1>q. QED
    BY <1>1, <1>2, SameAssigned

\* A switched core forgets its threads.
LEMMA SetCoresStep == ASSUME CountInv, NEW on \in SUBSET Core, SetCores(on) PROVE CountInv'
  <1>1. /\ UNCHANGED <<stage, coreId, ghosts>> /\ online' = on /\ 0 \in on
        /\ numOfThreads' = Cleared(numOfThreads, Switched(on))
    BY DEF SetCores, world, entries
  <1>2. \A c \in Core : Assigned(c)' = Assigned(c)
    BY <1>1 DEF Assigned
  <1>3. /\ numOfThreads' \in [Core -> Int]
        /\ \A c \in Core : numOfThreads'[c] \in {0, numOfThreads[c]}
    BY <1>1 DEF Cleared, CountInv, CountTypes
  <1>4. \A c \in Core : numOfThreads[c] <= Booked(c) /\ Booked(c) \in Nat
    BY BookedIsNat DEF CountInv, CountTypes, NeverOvercounted, Booked
  <1>5. \A c \in Core : numOfThreads'[c] <= Booked(c)'
    <2>1. \A c \in Core : Booked(c)' = Booked(c)
      BY <1>1, <1>2, BookedStays
    <2>q. QED
      BY <1>3, <1>4, <2>1
  <1>6. CountTypes'
    BY <1>1, <1>3 DEF CountInv, CountTypes
  <1>q. QED
    BY <1>5, <1>6 DEF CountInv, NeverOvercounted, Booked

LEMMA CountStep == CountInv /\ [Next]_vars => CountInv'
  <1> SUFFICES ASSUME CountInv, [Next]_vars PROVE CountInv'
    OBVIOUS
  <1>1. CASE UNCHANGED vars
    <2>1. CountTypes' /\ UNCHANGED <<numOfThreads, ghosts>> /\ \A c \in Core : Assigned(c)' = Assigned(c)
      BY <1>1 DEF vars, world, entries, books, counts, CountInv, CountTypes, Assigned
    <2>q. QED
      BY <2>1, SameAssigned
  <1>2. ASSUME NEW p \in Pid, NEW base \in {LOW, MID}, NEW imp \in Importance, NEW c \in Core,
               Fork(p, base, imp, c)
        PROVE  CountInv'
    BY <1>2, ForkStep
  <1>3. CASE Handlers
    BY <1>2, <1>3, ExitStep, ChangeStep, SetCoresStep DEF Handlers
  <1>q. QED
    BY <1>1, <1>3, TasksStep DEF Next

LEMMA CountInit == Init => CountInv
  <1> SUFFICES ASSUME Init PROVE CountInv
    OBVIOUS
  <1> DEFINE booked == {p \in Old : isUsed[p]}
  <1>1. /\ stage = [p \in Pid |-> IF p \in ghosts THEN "ghost" ELSE IF p \in Old THEN "known" ELSE "free"]
        /\ coreId = [p \in Pid |-> 0] /\ online = Core
        /\ numOfThreads = At0(Cardinality(booked)) /\ ghosts \subseteq Old
    BY DEF Init
  <1>2. 0 \in Core /\ Old \subseteq Pid /\ IsFiniteSet(Old)
    BY NumCoreAssumption, PidAssumption, FS_Subset DEF Core
  <1>3. Assigned(0) = Old \ ghosts
    BY <1>1, <1>2 DEF Assigned
  <1>4. Cardinality(booked) \in Nat /\ Cardinality(booked) <= Booked(0)
    <2>1. Cardinality(booked) \in Nat /\ Cardinality(booked) <= Cardinality(Old)
      BY <1>2, FS_Subset, FS_CardinalityType, booked \in SUBSET Old
    <2>2. Cardinality(Old \ ghosts) = Cardinality(Old) - Cardinality(ghosts)
      <3>1. Old \cap ghosts = ghosts
        BY <1>1
      <3>2. Cardinality(Old \ ghosts) = Cardinality(Old) - Cardinality(Old \cap ghosts)
        BY <1>2, FS_Difference
      <3>q. QED
        BY <3>1, <3>2
    <2>3. Cardinality(Old) \in Nat /\ Cardinality(ghosts) \in Nat
      BY <1>1, <1>2, FS_Subset, FS_CardinalityType
    <2>4. Unreported(0) = Cardinality(ghosts) /\ Cardinality(Assigned(0)) = Cardinality(Old \ ghosts)
      BY <1>3 DEF Unreported
    <2>5. Booked(0) = Cardinality(Old)
      BY <2>2, <2>3, <2>4 DEF Booked
    <2>q. QED
      BY <2>1, <2>5
  <1> HIDE DEF booked
  <1>5. /\ numOfThreads \in [Core -> Int] /\ numOfThreads[0] = Cardinality(booked)
        /\ \A c \in Core : c # 0 => numOfThreads[c] = 0
    BY <1>1, <1>2, <1>4 DEF At0
  <1>6. \A c \in Core : numOfThreads[c] <= Booked(c)
    BY <1>1, <1>2, <1>4, <1>5, BookedIsNat
  <1>7. CountTypes
    BY <1>1, <1>2, <1>5 DEF CountTypes, Stage
  <1>q. QED
    BY <1>6, <1>7 DEF CountInv, NeverOvercounted, Booked

\* No core is ever booked with more threads than are assigned to it, but core 0 by as many
\* as were listed and gone before the subscription, for every number of cores, pids and
\* forks (importance.c:177-189, thread.c:113-158, core.c:302-339 and 667-698).
THEOREM NeverOvercountedAlways == Spec => []NeverOvercounted
  BY CountInit, CountStep, PTL DEF Spec, CountInv

-----------------------------------------------------------------------------
(* Sums of importance.  Total is a fold over a set, which is defined by a     *)
(* recursive function.  That it adds up is shown without an induction: the     *)
(* weight of a set, a sum of three counts, solves the recursion, and a         *)
(* smallest set on which another solution differed would not be a smallest.    *)

\* The pids of S of which f says k or more.  There is no importance above HIGH, so what f
\* says of all of them is the sum of three counts.
AtLeast(k, f, S) == {p \in S : f[p] >= k}
Weight(f, S) ==
  Cardinality(AtLeast(LOW, f, S)) + Cardinality(AtLeast(MID, f, S)) + Cardinality(AtLeast(HIGH, f, S))

Weighs(f, S) == \A p \in S : f[p] \in 0..HIGH

LEMMA AtLeastCounts ==
  ASSUME NEW k, NEW f, NEW S, IsFiniteSet(S)
  PROVE  IsFiniteSet(AtLeast(k, f, S)) /\ Cardinality(AtLeast(k, f, S)) \in Nat
  <1>1. AtLeast(k, f, S) \in SUBSET S
    BY DEF AtLeast
  <1> QED
    BY <1>1, FS_Subset, FS_CardinalityType

LEMMA WeightIsNat ==
  ASSUME NEW f, NEW S, IsFiniteSet(S)
  PROVE  Weight(f, S) \in Nat
  BY AtLeastCounts DEF Weight

LEMMA AtLeastAdds ==
  ASSUME NEW k, NEW f, NEW S, IsFiniteSet(S), NEW p, p \notin S
  PROVE  Cardinality(AtLeast(k, f, S \cup {p})) =
           Cardinality(AtLeast(k, f, S)) + IF f[p] >= k THEN 1 ELSE 0
  <1>1. IsFiniteSet(AtLeast(k, f, S)) /\ Cardinality(AtLeast(k, f, S)) \in Nat
    BY AtLeastCounts
  <1>2. CASE f[p] >= k
    <2>1. AtLeast(k, f, S \cup {p}) = AtLeast(k, f, S) \cup {p} /\ p \notin AtLeast(k, f, S)
      BY <1>2 DEF AtLeast
    <2> QED
      BY <1>1, <1>2, <2>1, FS_AddElement
  <1>3. CASE ~(f[p] >= k)
    <2>1. AtLeast(k, f, S \cup {p}) = AtLeast(k, f, S)
      BY <1>3 DEF AtLeast
    <2> QED
      BY <1>1, <1>3, <2>1
  <1> QED
    BY <1>2, <1>3

LEMMA WeightAdds ==
  ASSUME NEW f, NEW S, IsFiniteSet(S), NEW p, p \notin S, f[p] \in 0..HIGH
  PROVE  Weight(f, S \cup {p}) = Weight(f, S) + f[p]
  <1>1. \A k \in {LOW, MID, HIGH} :
          /\ Cardinality(AtLeast(k, f, S)) \in Nat
          /\ Cardinality(AtLeast(k, f, S \cup {p})) =
               Cardinality(AtLeast(k, f, S)) + IF f[p] >= k THEN 1 ELSE 0
    BY AtLeastCounts, AtLeastAdds
  <1> QED
    BY <1>1 DEF Weight, LOW, MID, HIGH

LEMMA WeightOfNone == ASSUME NEW f PROVE Weight(f, {}) = 0
  <1>1. \A k : AtLeast(k, f, {}) = {}
    BY DEF AtLeast
  <1>2. \A k : Cardinality(AtLeast(k, f, {})) = 0
    BY <1>1, FS_EmptySet
  <1> QED
    BY <1>2 DEF Weight

-----------------------------------------------------------------------------
\* The recursion of MapThenSumSet, which has a solution and, on a finite set, but one.
Some(s) == CHOOSE x \in s : TRUE
Solves(g, f, S) == g = [s \in SUBSET S |-> IF s = {} THEN 0 ELSE f[Some(s)] + g[s \ {Some(s)}]]

LEMMA TotalSolves ==
  ASSUME NEW S, NEW f
  PROVE  Total(S, f) = (CHOOSE g : Solves(g, f, S))[S]
  BY DEF Total, MapThenSumSet, MapThenFoldSet, Solves, Some

\* The weight of a set from that of the set without the element that the sum takes first.
LEMMA WeightPeels ==
  ASSUME NEW f, NEW S, IsFiniteSet(S), Weighs(f, S), NEW s \in SUBSET S, s # {}
  PROVE  /\ Some(s) \in s /\ s \ {Some(s)} \in SUBSET S
         /\ Weight(f, s) = f[Some(s)] + Weight(f, s \ {Some(s)})
  <1>1. Some(s) \in s
    BY DEF Some
  <1>2. PICK p : p = Some(s)
    OBVIOUS
  <1>3. PICK r : r = s \ {p}
    OBVIOUS
  <1>4. IsFiniteSet(r) /\ p \notin r /\ r \cup {p} = s /\ f[p] \in 0..HIGH
    <2>1. r \in SUBSET S
      BY <1>3
    <2> QED
      BY <1>1, <1>2, <1>3, <2>1, FS_Subset DEF Weighs
  <1>5. Weight(f, s) = Weight(f, r) + f[p] /\ Weight(f, r) \in Nat
    BY <1>4, WeightAdds, WeightIsNat
  <1>6. Weight(f, s) = f[p] + Weight(f, r)
    BY <1>4, <1>5 DEF HIGH
  <1> QED
    BY <1>1, <1>2, <1>3, <1>6

LEMMA WeightSolves ==
  ASSUME NEW f, NEW S, IsFiniteSet(S), Weighs(f, S)
  PROVE  Solves([s \in SUBSET S |-> Weight(f, s)], f, S)
  <1> DEFINE g == [s \in SUBSET S |-> Weight(f, s)]
  <1>1. ASSUME NEW s \in SUBSET S
        PROVE  g[s] = IF s = {} THEN 0 ELSE f[Some(s)] + g[s \ {Some(s)}]
    BY WeightOfNone, WeightPeels
  <1>2. g = [s \in SUBSET S |-> g[s]]
    OBVIOUS
  <1>3. [s \in SUBSET S |-> g[s]] =
          [s \in SUBSET S |-> IF s = {} THEN 0 ELSE f[Some(s)] + g[s \ {Some(s)}]]
    BY <1>1
  <1> QED
    BY <1>2, <1>3 DEF Solves

LEMMA SolutionIsWeight ==
  ASSUME NEW f, NEW S, IsFiniteSet(S), Weighs(f, S), NEW g, Solves(g, f, S)
  PROVE  \A s \in SUBSET S : g[s] = Weight(f, s)
  <1>1. \A s \in SUBSET S : g[s] = IF s = {} THEN 0 ELSE f[Some(s)] + g[s \ {Some(s)}]
    BY DEF Solves
  <1> DEFINE Wrong == {s \in SUBSET S : g[s] # Weight(f, s)}
  <1>2. SUFFICES ASSUME Wrong # {} PROVE FALSE
    OBVIOUS
  <1>3. IsWellFoundedOn(StrictSubsetOrdering(S), SUBSET S)
    BY FS_StrictSubsetOrderingWellFounded, FS_FiniteSubsetsOfFinite
  <1>4. PICK s \in Wrong : \A t \in Wrong : <<t, s>> \notin StrictSubsetOrdering(S)
    BY <1>2, <1>3, WFMin
  <1>5. s # {}
    BY <1>1, <1>4, WeightOfNone
  <1>6. PICK r : r = s \ {Some(s)}
    OBVIOUS
  <1>7. Some(s) \in s /\ r \in SUBSET S /\ Weight(f, s) = f[Some(s)] + Weight(f, r)
    BY <1>4, <1>5, <1>6, WeightPeels
  <1>8. g[s] = f[Some(s)] + g[r]
    BY <1>1, <1>4, <1>5, <1>6
  <1>9. r \in Wrong
    BY <1>4, <1>7, <1>8
  <1>10. <<r, s>> \in StrictSubsetOrdering(S)
    BY <1>4, <1>6, <1>7 DEF StrictSubsetOrdering
  <1> QED
    BY <1>4, <1>9, <1>10

\* The sum of the importance of a finite set of pids.
LEMMA TotalIsWeight ==
  ASSUME NEW f, NEW S, IsFiniteSet(S), Weighs(f, S)
  PROVE  Total(S, f) = Weight(f, S)
  <1>1. \E g : Solves(g, f, S)
    BY WeightSolves
  <1>2. PICK g : g = CHOOSE h : Solves(h, f, S)
    OBVIOUS
  <1>3. Solves(g, f, S)
    BY <1>1, <1>2
  <1>4. g[S] = Weight(f, S)
    BY <1>3, SolutionIsWeight
  <1> QED
    BY <1>2, <1>4, TotalSolves

LEMMA TotalIsNat ==
  ASSUME NEW f, NEW S, IsFiniteSet(S), Weighs(f, S)
  PROVE  Total(S, f) \in Nat
  BY TotalIsWeight, WeightIsNat

LEMMA TotalOfNone == ASSUME NEW f PROVE Total({}, f) = 0
  <1>1. IsFiniteSet({}) /\ Weighs(f, {})
    BY FS_EmptySet DEF Weighs
  <1> QED
    BY <1>1, TotalIsWeight, WeightOfNone

LEMMA TotalAdds ==
  ASSUME NEW f, NEW S, IsFiniteSet(S), NEW p, p \notin S, Weighs(f, S \cup {p})
  PROVE  Total(S \cup {p}, f) = Total(S, f) + f[p]
  <1>1. IsFiniteSet(S \cup {p}) /\ Weighs(f, S) /\ f[p] \in 0..HIGH
    BY FS_AddElement DEF Weighs
  <1> QED
    BY <1>1, TotalIsWeight, WeightAdds

LEMMA TotalTakes ==
  ASSUME NEW f, NEW S, IsFiniteSet(S), NEW p \in S, Weighs(f, S)
  PROVE  Total(S \ {p}, f) = Total(S, f) - f[p]
  <1>1. PICK R : R = S \ {p}
    OBVIOUS
  <1>2. IsFiniteSet(R) /\ p \notin R /\ R \cup {p} = S /\ Weighs(f, R) /\ f[p] \in Int
    BY <1>1, FS_RemoveElement DEF Weighs, HIGH
  <1>3. Total(S, f) = Total(R, f) + f[p] /\ Total(R, f) \in Nat
    BY <1>2, TotalAdds, TotalIsNat
  <1> QED
    BY <1>1, <1>2, <1>3

\* The sum depends on what is said of the pids in the set, and of no other.
LEMMA TotalSame ==
  ASSUME NEW f, NEW h, NEW S, IsFiniteSet(S), Weighs(f, S), \A p \in S : h[p] = f[p]
  PROVE  Total(S, h) = Total(S, f)
  <1>1. \A k : AtLeast(k, h, S) = AtLeast(k, f, S)
    BY DEF AtLeast
  <1>2. Weighs(h, S) /\ Weight(h, S) = Weight(f, S)
    BY <1>1 DEF Weighs, Weight
  <1> QED
    BY <1>2, TotalIsWeight

LEMMA TotalChanges ==
  ASSUME NEW f, NEW h, NEW S, IsFiniteSet(S), Weighs(f, S), NEW p \in S, h[p] \in 0..HIGH,
         \A q \in S : q # p => h[q] = f[q]
  PROVE  Total(S, h) = Total(S, f) + (h[p] - f[p])
  <1>1. PICK R : R = S \ {p}
    OBVIOUS
  <1>2. /\ IsFiniteSet(R) /\ p \notin R /\ R \cup {p} = S
        /\ Weighs(f, R) /\ Weighs(h, R \cup {p}) /\ \A q \in R : h[q] = f[q]
    BY <1>1, FS_RemoveElement DEF Weighs
  <1>3. Total(S, f) = Total(R, f) + f[p] /\ Total(S, h) = Total(R, h) + h[p]
    BY <1>2, TotalAdds
  <1>4. Total(R, h) = Total(R, f) /\ Total(R, f) \in Nat
    BY <1>2, TotalSame, TotalIsNat
  <1>5. f[p] \in Int /\ h[p] \in Int
    BY DEF Weighs, HIGH
  <1> QED
    BY <1>3, <1>4, <1>5

-----------------------------------------------------------------------------
(* The books of importance. *)

SumTypes ==
  /\ stage \in [Pid -> Stage] /\ coreId \in [Pid -> Core] /\ online \subseteq Core
  /\ isUsed \in [Pid -> BOOLEAN] /\ importance \in [Pid -> 0..HIGH]
  /\ sumOfImportance \in [Core -> Int]

\* An entry in use is that of a thread whose fork was handled and whose exit was not, so that
\* a change of its importance is one of a thread that is assigned to the core; or it is that
\* of a ghost, whose core is disturbed.
UsedIsAssigned ==
  \A p \in Pid : isUsed[p] => stage[p] \in {"known", "gone"} \/ coreId[p] \in disturbed

SumInv == SumTypes /\ UsedIsAssigned /\ SumIsOfThreads

Sum(c) == Total(Assigned(c), importance)

LEMMA AssignedWeigh ==
  ASSUME SumTypes
  PROVE  \A c : Weighs(importance, Assigned(c)) /\ IsFiniteSet(Assigned(c))
  BY AssignedFinite DEF SumTypes, Weighs, Assigned

LEMMA PrimedSum ==
  ASSUME NEW c, NEW A, NEW f, A = Assigned(c)', f = importance'
  PROVE  Sum(c)' = Total(A, f)
  BY DEF Sum, Total, MapThenSumSet, MapThenFoldSet

\* A step that leaves the threads of a core and their importance leaves its sum.
LEMMA SumStays ==
  ASSUME SumTypes, NEW c, Assigned(c)' = Assigned(c),
         \A p \in Assigned(c) : importance'[p] = importance[p]
  PROVE  Sum(c)' = Sum(c)
  <1>1. PICK A : A = Assigned(c)
    OBVIOUS
  <1>2. PICK f : f = importance'
    OBVIOUS
  <1>3. Sum(c)' = Total(A, f)
    BY <1>1, <1>2, PrimedSum
  <1>4. Total(A, f) = Total(A, importance)
    BY <1>1, <1>2, AssignedWeigh, TotalSame
  <1> QED
    BY <1>1, <1>3, <1>4 DEF Sum

\* A step that leaves all of that and the books leaves the invariant.
LEMMA SumKept ==
  ASSUME SumInv, SumTypes', UsedIsAssigned', disturbed \subseteq disturbed',
         \A d \in Core \ disturbed' :
           /\ sumOfImportance'[d] = sumOfImportance[d] /\ Assigned(d)' = Assigned(d)
           /\ \A p \in Assigned(d) : importance'[p] = importance[p]
  PROVE  SumInv'
  <1>1. ASSUME NEW d \in Core \ disturbed'
        PROVE  sumOfImportance'[d] = Sum(d)'
    <2>1. sumOfImportance[d] = Sum(d)
      BY <1>1 DEF SumInv, SumIsOfThreads, Sum
    <2>2. Sum(d)' = Sum(d)
      BY <1>1, SumStays DEF SumInv
    <2> QED
      BY <1>1, <2>1, <2>2
  <1>2. SumIsOfThreads'
    BY <1>1 DEF SumIsOfThreads, Sum
  <1> QED
    BY <1>2 DEF SumInv

LEMMA TasksSum == ASSUME SumInv, Tasks PROVE SumInv'
  <1>1. PICK p \in Pid : Start(p) \/ Die(p)
    BY DEF Tasks
  <1>2. /\ UNCHANGED <<online, entries, books, disturbed>>
        /\ stage' \in [Pid -> Stage]
        /\ \A q \in Pid : stage'[q] \in {"known", "gone"} <=> stage[q] \in {"known", "gone"}
    <2>1. CASE Start(p)
      BY <2>1 DEF SumInv, SumTypes, Start, Stage
    <2>2. CASE Die(p)
      BY <2>2 DEF SumInv, SumTypes, Die, Stage
    <2> QED
      BY <1>1, <2>1, <2>2
  <1>3. SumTypes' /\ UsedIsAssigned'
    BY <1>2 DEF SumInv, SumTypes, UsedIsAssigned, entries, books
  <1>4. \A d \in Core : Assigned(d)' = Assigned(d)
    BY <1>2 DEF Assigned, entries
  <1> QED
    BY <1>2, <1>3, <1>4, SumKept DEF entries, books

\* A fork adds what the thread inherits to the core it is put on, and something else to
\* core 0.
LEMMA ForkSum ==
  ASSUME SumInv, NEW p \in Pid, NEW base \in {LOW, MID}, NEW imp \in Importance, NEW c \in Core,
         Fork(p, base, imp, c)
  PROVE  SumInv'
  <1> DEFINE extra == IF stage[p] = "born" THEN 2 * base ELSE 0
             first == Add(sumOfImportance, 0, extra)
             second == Add(first, 0, -imp)
  <1>1. /\ stage[p] \in {"born", "lost"}
        /\ stage' = [stage EXCEPT ![p] = IF stage[p] = "born" THEN "known" ELSE "gone"]
        /\ isUsed' = [isUsed EXCEPT ![p] = stage[p] = "born"]
        /\ importance' = [importance EXCEPT ![p] = imp]
        /\ coreId' = [coreId EXCEPT ![p] = c]
        /\ sumOfImportance' = Add(second, c, imp)
        /\ online' = online /\ disturbed' = disturbed \cup {0}
    BY DEF Fork, Move
  <1>2. 0 \in Core /\ extra \in Int /\ imp \in Int /\ -imp \in Int /\ imp \in 0..HIGH
        /\ sumOfImportance \in [Core -> Int]
    BY NumCoreAssumption DEF Core, SumInv, SumTypes, Importance, LOW, MID, HIGH
  <1> HIDE DEF extra
  <1>3. first \in [Core -> Int] /\ \A d \in Core : d # 0 => first[d] = sumOfImportance[d]
    BY <1>2, AddEffect
  <1> HIDE DEF first
  <1>4. second = Add(first, 0, -imp)
    OBVIOUS
  <1> HIDE DEF second
  <1>5. second \in [Core -> Int] /\ \A d \in Core : d # 0 => second[d] = first[d]
    <2>1. PICK m : m = -imp
      OBVIOUS
    <2>2. first \in [Core -> Int] /\ 0 \in Core /\ m \in Int
      BY <1>2, <1>3, <2>1
    <2>3. /\ Add(first, 0, m) \in [Core -> Int]
          /\ \A d \in Core : d # 0 => Add(first, 0, m)[d] = first[d]
      BY <2>2, AddEffect
    <2> QED
      BY <1>4, <2>1, <2>3
  <1>6. /\ sumOfImportance' \in [Core -> Int] /\ sumOfImportance'[c] = second[c] + imp
        /\ \A d \in Core : d # c => sumOfImportance'[d] = second[d]
    <2>1. second \in [Core -> Int] /\ imp \in Int
      BY <1>2, <1>5
    <2>2. /\ Add(second, c, imp) \in [Core -> Int] /\ Add(second, c, imp)[c] = second[c] + imp
          /\ \A d \in Core : d # c => Add(second, c, imp)[d] = second[d]
      BY <2>1, AddEffect
    <2> QED
      BY <1>1, <2>2
  <1>7. /\ Assigned(c)' = Assigned(c) \cup {p} /\ \A d : p \notin Assigned(d)
        /\ \A d \in Core : d # c => Assigned(d)' = Assigned(d)
    BY <1>1 DEF Assigned, SumInv, SumTypes
  <1>8. SumTypes' /\ UsedIsAssigned'
    BY <1>1, <1>2, <1>6 DEF SumInv, SumTypes, UsedIsAssigned, Stage
  <1>9. importance'[p] = imp /\ \A d : \A q \in Assigned(d) : importance'[q] = importance[q]
    BY <1>1, <1>7 DEF SumInv, SumTypes, Assigned
  <1>10. ASSUME NEW d \in Core, d \notin disturbed'
         PROVE  sumOfImportance'[d] = Sum(d)'
    <2>1. d # 0 /\ d \notin disturbed
      BY <1>1, <1>10
    <2>2. sumOfImportance[d] = Sum(d) /\ second[d] = sumOfImportance[d]
      BY <1>3, <1>5, <2>1 DEF SumInv, SumIsOfThreads, Sum
    <2>3. CASE d # c
      <3>1. Sum(d)' = Sum(d)
        BY <1>7, <1>9, <2>3, SumStays DEF SumInv
      <3> QED
        BY <1>6, <2>2, <2>3, <3>1
    <2>4. CASE d = c
      <3>1. PICK A : A = Assigned(c)
        OBVIOUS
      <3>2. PICK f : f = importance'
        OBVIOUS
      <3>3. Weighs(importance, A) /\ IsFiniteSet(A)
        BY <3>1, AssignedWeigh DEF SumInv
      <3>4. p \notin A /\ f[p] = imp /\ \A q \in A : f[q] = importance[q]
        BY <1>7, <1>9, <3>1, <3>2
      <3>5. Weighs(f, A \cup {p})
        BY <1>2, <3>3, <3>4 DEF Weighs
      <3>6. Sum(c)' = Total(A \cup {p}, f)
        BY <1>7, <3>1, <3>2, PrimedSum
      <3>7. Total(A \cup {p}, f) = Total(A, f) + imp /\ Total(A, f) = Total(A, importance)
        BY <3>3, <3>4, <3>5, TotalAdds, TotalSame
      <3>8. Total(A, importance) = second[c]
        BY <2>2, <2>4, <3>1 DEF Sum
      <3> QED
        BY <1>6, <2>4, <3>6, <3>7, <3>8
    <2> QED
      BY <2>3, <2>4
  <1> QED
    BY <1>8, <1>10 DEF SumInv, SumIsOfThreads, Sum

\* An exit takes the importance of the thread off the sum of its core.
LEMMA ExitSum == ASSUME SumInv, NEW p \in Pid, Exit(p) PROVE SumInv'
  <1>1. PICK c \in Core : c = coreId[p]
    BY DEF SumInv, SumTypes
  <1>2. PICK k : k = importance[p]
    OBVIOUS
  <1>3. /\ stage[p] = "gone" /\ stage' = [stage EXCEPT ![p] = "free"]
        /\ isUsed' = [isUsed EXCEPT ![p] = FALSE]
        /\ sumOfImportance' = Add(sumOfImportance, c, -k)
        /\ UNCHANGED <<online, importance, coreId, disturbed>>
    BY <1>1, <1>2 DEF Exit
  <1>4. k \in Int /\ -k \in Int /\ sumOfImportance \in [Core -> Int]
    BY <1>2 DEF SumInv, SumTypes, HIGH
  <1>5. /\ sumOfImportance' \in [Core -> Int] /\ sumOfImportance'[c] = sumOfImportance[c] - k
        /\ \A d \in Core : d # c => sumOfImportance'[d] = sumOfImportance[d]
    BY <1>3, <1>4, AddEffect
  <1>6. /\ Assigned(c)' = Assigned(c) \ {p} /\ p \in Assigned(c)
        /\ \A d \in Core : d # c => Assigned(d)' = Assigned(d)
    BY <1>1, <1>3 DEF Assigned, SumInv, SumTypes
  <1>7. SumTypes' /\ UsedIsAssigned'
    BY <1>3, <1>5 DEF SumInv, SumTypes, UsedIsAssigned, Stage
  <1>8. ASSUME NEW d \in Core, d \notin disturbed'
        PROVE  sumOfImportance'[d] = Sum(d)'
    <2>1. sumOfImportance[d] = Sum(d)
      BY <1>3, <1>8 DEF SumInv, SumIsOfThreads, Sum
    <2>2. CASE d # c
      <3>1. Sum(d)' = Sum(d)
        BY <1>3, <1>6, <2>2, SumStays DEF SumInv
      <3> QED
        BY <1>5, <2>1, <2>2, <3>1
    <2>3. CASE d = c
      <3>1. PICK A : A = Assigned(c)
        OBVIOUS
      <3>2. PICK f : f = importance'
        OBVIOUS
      <3>3. f = importance
        BY <1>3, <3>2
      <3>4. Weighs(f, A) /\ IsFiniteSet(A) /\ p \in A
        BY <1>6, <3>1, <3>3, AssignedWeigh DEF SumInv
      <3>5. Sum(c)' = Total(A \ {p}, f)
        BY <1>6, <3>1, <3>2, PrimedSum
      <3>6. Total(A \ {p}, f) = Total(A, f) - k
        BY <1>2, <3>3, <3>4, TotalTakes
      <3>7. Total(A, f) = sumOfImportance[c]
        BY <2>1, <2>3, <3>1, <3>3 DEF Sum
      <3> QED
        BY <1>5, <2>3, <3>5, <3>6, <3>7
    <2> QED
      BY <2>2, <2>3
  <1> QED
    BY <1>7, <1>8 DEF SumInv, SumIsOfThreads, Sum

\* A change is added to the sum of the core the entry names, to which the thread is
\* assigned unless its fork is still to be handled.
LEMMA ChangeSum ==
  ASSUME SumInv, NEW p \in Pid, NEW imp \in Importance, ChangeImportance(p, imp)
  PROVE  SumInv'
  <1>1. PICK c \in Core : c = coreId[p]
    BY DEF SumInv, SumTypes
  <1>2. PICK k : k = imp - importance[p]
    OBVIOUS
  <1>3. /\ stage[p] \in {"born", "known"} \/ isUsed[p]
        /\ importance' = [importance EXCEPT ![p] = imp]
        /\ sumOfImportance' = Add(sumOfImportance, c, k)
        /\ disturbed' = IF stage[p] = "born" THEN disturbed \cup {c} ELSE disturbed
        /\ UNCHANGED <<stage, online, isUsed, coreId>>
    BY <1>1, <1>2 DEF ChangeImportance, world
  <1>4. k \in Int /\ imp \in 0..HIGH /\ sumOfImportance \in [Core -> Int]
    BY <1>2 DEF SumInv, SumTypes, Importance, LOW, HIGH
  <1>5. /\ sumOfImportance' \in [Core -> Int] /\ sumOfImportance'[c] = sumOfImportance[c] + k
        /\ \A d \in Core : d # c => sumOfImportance'[d] = sumOfImportance[d]
    BY <1>3, <1>4 DEF Add
  <1>6. \A d : Assigned(d)' = Assigned(d)
    BY <1>3 DEF Assigned
  <1>7. SumTypes' /\ UsedIsAssigned'
    BY <1>3, <1>4, <1>5 DEF SumInv, SumTypes, UsedIsAssigned
  <1>8. importance'[p] = imp /\ \A q \in Pid : q # p => importance'[q] = importance[q]
    BY <1>3 DEF SumInv, SumTypes
  <1>9. ASSUME NEW d \in Core, d \notin disturbed'
        PROVE  sumOfImportance'[d] = Sum(d)'
    <2>1. sumOfImportance[d] = Sum(d)
      BY <1>3, <1>9 DEF SumInv, SumIsOfThreads, Sum
    <2>2. CASE d # c
      <3>1. \A q \in Assigned(d) : importance'[q] = importance[q]
        BY <1>1, <1>8, <2>2 DEF Assigned
      <3>2. Sum(d)' = Sum(d)
        BY <1>6, <3>1, SumStays DEF SumInv
      <3> QED
        BY <1>5, <2>1, <2>2, <3>2
    <2>3. CASE d = c
      <3>1. PICK A : A = Assigned(c)
        OBVIOUS
      <3>2. PICK f : f = importance'
        OBVIOUS
      <3>3. p \in A
        BY <1>1, <1>3, <1>9, <2>3, <3>1 DEF SumInv, UsedIsAssigned, Assigned
      <3>4. A \subseteq Pid /\ Weighs(importance, A) /\ IsFiniteSet(A)
        BY <3>1, AssignedWeigh DEF SumInv, Assigned
      <3>5. f[p] = imp /\ \A q \in A : q # p => f[q] = importance[q]
        BY <1>8, <3>2, <3>4
      <3>6. Sum(c)' = Total(A, f)
        BY <1>6, <3>1, <3>2, PrimedSum
      <3>7. Total(A, f) = Total(A, importance) + k
        BY <1>2, <1>4, <3>3, <3>4, <3>5, TotalChanges
      <3>8. Total(A, importance) = sumOfImportance[c]
        BY <2>1, <2>3, <3>1 DEF Sum
      <3> QED
        BY <1>5, <2>3, <3>6, <3>7, <3>8
    <2> QED
      BY <2>2, <2>3
  <1> QED
    BY <1>7, <1>9 DEF SumInv, SumIsOfThreads, Sum

\* A core that is not switched keeps its books.
LEMMA SetCoresSum == ASSUME SumInv, NEW on \in SUBSET Core, SetCores(on) PROVE SumInv'
  <1>1. /\ UNCHANGED <<stage, isUsed, importance, coreId>> /\ online' = on
        /\ sumOfImportance' = Cleared(sumOfImportance, Switched(on))
        /\ disturbed' = disturbed \cup Switched(on)
    BY DEF SetCores, world, entries
  <1>2. /\ sumOfImportance' \in [Core -> Int]
        /\ \A d \in Core \ disturbed' : sumOfImportance'[d] = sumOfImportance[d]
    BY <1>1 DEF Cleared, SumInv, SumTypes
  <1>3. \A d : Assigned(d)' = Assigned(d)
    BY <1>1 DEF Assigned
  <1>4. SumTypes' /\ UsedIsAssigned'
    BY <1>1, <1>2 DEF SumInv, SumTypes, UsedIsAssigned
  <1> QED
    BY <1>1, <1>2, <1>3, <1>4, SumKept

LEMMA SumStep == SumInv /\ [Next]_vars => SumInv'
  <1> SUFFICES ASSUME SumInv, [Next]_vars PROVE SumInv'
    OBVIOUS
  <1>1. CASE UNCHANGED vars
    <2>1. SumTypes' /\ UsedIsAssigned' /\ \A d : Assigned(d)' = Assigned(d)
      BY <1>1 DEF vars, world, entries, books, counts, SumInv, SumTypes, UsedIsAssigned, Assigned
    <2> QED
      BY <1>1, <2>1, SumKept DEF vars, entries, books
  <1>2. ASSUME NEW p \in Pid, NEW base \in {LOW, MID}, NEW imp \in Importance, NEW c \in Core,
               Fork(p, base, imp, c)
        PROVE  SumInv'
    BY <1>2, ForkSum
  <1>3. CASE Handlers
    BY <1>2, <1>3, ExitSum, ChangeSum, SetCoresSum DEF Handlers
  <1> QED
    BY <1>1, <1>3, TasksSum DEF Next

LEMMA SumInit == Init => SumInv
  <1> SUFFICES ASSUME Init PROVE SumInv
    OBVIOUS
  <1>1. PICK total : total = Total(Old, importance)
    OBVIOUS
  <1>2. /\ stage = [p \in Pid |-> IF p \in ghosts THEN "ghost" ELSE IF p \in Old THEN "known" ELSE "free"]
        /\ online = Core /\ importance \in [Pid -> 0..MID]
        /\ \A p \in Pid \ Old : importance[p] = 0
        /\ coreId = [p \in Pid |-> 0]
        /\ sumOfImportance = At0(total)
    BY <1>1 DEF Init
  <1>0. /\ isUsed \in [Pid -> BOOLEAN] /\ \A p \in Pid : isUsed[p] => p \in Old
        /\ ghosts \subseteq Old /\ disturbed = IF ghosts = {} THEN {} ELSE {0}
    <2>1. PICK listed \in SUBSET Old : isUsed = [p \in Pid |-> p \in listed]
      BY DEF Init
    <2>2. isUsed \in [Pid -> BOOLEAN] /\ \A p \in Pid : isUsed[p] => p \in Old
      <3>1. \A p \in Pid : (p \in listed) \in BOOLEAN
        OBVIOUS
      <3>2. isUsed \in [Pid -> BOOLEAN]
        BY <2>1, <3>1, Zenon
      <3>3. \A p \in Pid : isUsed[p] = (p \in listed)
        BY <2>1, Zenon
      <3> QED
        BY <3>2, <3>3, Zenon
    <2>3. ghosts \subseteq Old /\ disturbed = IF ghosts = {} THEN {} ELSE {0}
      BY DEF Init
    <2> QED
      BY <2>2, <2>3
  <1>3. 0 \in Core /\ Old \subseteq Pid /\ IsFiniteSet(Old)
    BY NumCoreAssumption, PidAssumption, FS_Subset DEF Core
  <1>4. Assigned(0) = Old \ ghosts /\ \A c : c # 0 => Assigned(c) = {}
    BY <1>0, <1>2, <1>3 DEF Assigned
  <1>5. Weighs(importance, Old)
    BY <1>2, <1>3 DEF Weighs, MID, HIGH
  <1>6. total \in Int
    BY <1>1, <1>3, <1>5, TotalIsNat
  <1>7. /\ sumOfImportance \in [Core -> Int] /\ sumOfImportance[0] = total
        /\ \A c \in Core : c # 0 => sumOfImportance[c] = 0
    BY <1>2, <1>3, <1>6 DEF At0
  <1>8. SumTypes /\ UsedIsAssigned
    <2>1. stage \in [Pid -> Stage] /\ coreId \in [Pid -> Core] /\ isUsed \in [Pid -> BOOLEAN]
      BY <1>0, <1>2, <1>3 DEF Stage
    <2>2. importance \in [Pid -> 0..HIGH]
      BY <1>2 DEF MID, HIGH
    <2>3. UsedIsAssigned
      BY <1>0, <1>2, <1>3 DEF UsedIsAssigned
    <2> QED
      BY <1>2, <1>7, <2>1, <2>2, <2>3 DEF SumTypes
  <1>9. \A c \in Core \ disturbed : sumOfImportance[c] = Sum(c)
    <2>1. ghosts = {} => Assigned(0) = Old
      BY <1>4
    <2> QED
      BY <1>0, <1>1, <1>4, <1>7, <2>1, TotalOfNone DEF Sum
  <1> QED
    BY <1>8, <1>9 DEF SumInv, SumIsOfThreads, Sum

\* Through every order of forks, exits, changes and switches, for every number of cores
\* and pids, the importance booked on a core is the sum of that of the threads assigned to
\* it, unless one of the three disturbances named has reached the core (importance.c:206,
\* thread.c:147-158, core.c:302-343).
THEOREM SumIsOfThreadsAlways == Spec => []SumIsOfThreads
  BY SumInit, SumStep, PTL DEF Spec, SumInv

=============================================================================
