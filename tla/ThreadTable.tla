---------------------------- MODULE ThreadTable -----------------------------
(***************************************************************************)
(* The books the daemon keeps on threads (thread.c, core.c, importance.c): *)
(* for each core how many threads are assigned to it, how many of them are *)
(* mid or high, and the sum of their importance.  They are changed a       *)
(* little at a time by every handler, never recomputed, and cleared for a  *)
(* core that is turned off or on.                                          *)
(*                                                                         *)
(* Between the listing of /proc and the subscription (importance.c:177-189)*)
(* no event is delivered: what starts then is tracked as little as a       *)
(* thread that was not listed, and a listed process that ends is never     *)
(* taken off.                                                              *)
(*                                                                         *)
(* Abstractions: events reach the daemon in order, so of the queue only    *)
(* the stage each pid is in is kept; the parent's importance, whether the  *)
(* thread is a system one, and which online core the stored ids name are   *)
(* any value.  A pid is not used again while an event about it waits.      *)
(***************************************************************************)
EXTENDS Integers, FiniteSets, FiniteSetsExt

CONSTANTS NumCore,   \* CONFIG_NUM_OF_CORE
          Pid,       \* pids that tasks get
          Old,       \* those in use between the listing and the subscription
          MaxForks   \* bound: tasks started

ASSUME NumCoreAssumption  == NumCore \in Nat \ {0}
ASSUME PidAssumption      == IsFiniteSet(Pid) /\ Old \subseteq Pid
ASSUME MaxForksAssumption == MaxForks \in Nat

Core == 0..NumCore - 1

LOW  == 1
MID  == 2
HIGH == 3
Importance == LOW..HIGH

\* A pid is free; or its task lives and its fork event is queued (born) or was
\* handled (known); or the task is gone before its fork event was handled (lost),
\* or after, with its exit event queued (gone).  A process that was listed and is gone
\* before the subscription is a ghost until its pid is used again.
Stage == {"free", "ghost", "born", "known", "lost", "gone"}

VARIABLES stage, forks,                             \* the kernel
          ghosts,                                   \* history: those whose end was not reported
          online,                                   \* cores that are on
          isUsed, importance, coreId,               \* threadSet
          numOfThreads, numOfMidThreads, sumOfImportance,   \* coreSet
          disturbed    \* history: cores whose sum of importance went astray

world    == <<stage, forks, ghosts>>
entries  == <<isUsed, importance, coreId>>
counts   == <<numOfThreads, numOfMidThreads>>
books    == <<counts, sumOfImportance>>
vars     == <<world, online, entries, books, disturbed>>

TypeOK ==
  /\ stage \in [Pid -> Stage] /\ forks \in 0..MaxForks /\ ghosts \subseteq Old
  /\ online \subseteq Core /\ 0 \in online
  /\ isUsed \in [Pid -> BOOLEAN] /\ importance \in [Pid -> 0..HIGH]
  /\ coreId \in [Pid -> Core]
  /\ numOfThreads \in [Core -> Int] /\ numOfMidThreads \in [Core -> Int]
  /\ sumOfImportance \in [Core -> Int]
  /\ disturbed \subseteq Core

Ahead(S, imp) == Cardinality({p \in S : imp[p] >= MID})
Total(S, imp) == MapThenSumSet(LAMBDA p : imp[p], S)
At0(value)    == [c \in Core |-> IF c = 0 THEN value ELSE 0]

\* The state at the subscription.  initialize_threads booked every process of /proc on
\* core 0.  A thread that is not the leader of its group was not listed there, and what
\* started later was not either: it has importance 0, or is one of the foreground's threads,
\* which initialize_activity has raised to mid, listed or not, without counting them.
Init ==
  /\ isUsed \in {[p \in Pid |-> p \in listed] : listed \in SUBSET Old}
  /\ ghosts \in SUBSET {p \in Old : isUsed[p]}
  /\ stage = [p \in Pid |-> IF p \in ghosts THEN "ghost"
                           ELSE IF p \in Old THEN "known" ELSE "free"]
  /\ forks = 0
  /\ online = Core
  /\ importance \in {imp \in [Pid -> 0..MID] : /\ \A p \in Pid \ Old : imp[p] = 0
                                               /\ \A p \in Old : isUsed[p] => imp[p] # 0
                                               /\ \A p \in Old : imp[p] = LOW => isUsed[p]}
  /\ coreId = [p \in Pid |-> 0]
  /\ numOfThreads = At0(Cardinality({p \in Old : isUsed[p]}))
  /\ \E n \in 0..Ahead({p \in Old : isUsed[p]}, importance) : numOfMidThreads = At0(n)
  /\ sumOfImportance = At0(Total(Old, importance))
  /\ disturbed = IF ghosts = {} THEN {} ELSE {0}

-----------------------------------------------------------------------------
(* Tasks come and go. *)

Start(p) ==
  /\ stage[p] \in {"free", "ghost"} /\ forks < MaxForks
  /\ stage' = [stage EXCEPT ![p] = "born"] /\ forks' = forks + 1
  /\ UNCHANGED <<ghosts, online, entries, books, disturbed>>

Die(p) ==
  /\ stage[p] \in {"born", "known"}
  /\ stage' = [stage EXCEPT ![p] = IF stage[p] = "born" THEN "lost" ELSE "gone"]
  /\ UNCHANGED <<forks, ghosts, online, entries, books, disturbed>>

-----------------------------------------------------------------------------
(* The daemon's handlers. *)

Add(f, c, k)         == [f EXCEPT ![c] = @ + k]
Move(f, from, to, k) == Add(Add(f, from, -k), to, k)
MidCount(imp)        == IF imp >= MID THEN 1 ELSE 0

\* A fork: initialize_thread clears the entry and, if the task is there, books it on
\* core 0 with the importance base of its kind.  change_importance then gives it its
\* parent's importance but adds the old one to the sum once more.  allocation moves
\* it, with the importance it has now, to core c.
Fork(p, base, inherited, c) ==
  LET there == stage[p] = "born"
      one   == IF there THEN 1 ELSE 0
      sum   == Add(sumOfImportance, 0, IF there THEN 2 * base ELSE 0)
      mid   == Add(numOfMidThreads, 0, IF there THEN MidCount(base) ELSE 0)
  IN  /\ stage[p] \in {"born", "lost"}
      /\ c \in online
      /\ stage' = [stage EXCEPT ![p] = IF there THEN "known" ELSE "gone"]
      /\ isUsed' = [isUsed EXCEPT ![p] = there]
      /\ importance' = [importance EXCEPT ![p] = inherited]
      /\ coreId' = [coreId EXCEPT ![p] = c]
      /\ numOfThreads' = Move(Add(numOfThreads, 0, one), 0, c, 1)
      /\ numOfMidThreads' = Move(mid, 0, c, MidCount(inherited))
      /\ sumOfImportance' = Move(sum, 0, c, inherited)
      /\ disturbed' = disturbed \cup {0}
      /\ UNCHANGED <<forks, ghosts, online>>

\* Mutation of Exit: destroy_thread does not take the importance off.
ExitKeepsSum(p) ==
  /\ stage[p] = "gone"
  /\ stage' = [stage EXCEPT ![p] = "free"]
  /\ isUsed' = [isUsed EXCEPT ![p] = FALSE]
  /\ numOfThreads' = Add(numOfThreads, coreId[p], -1)
  /\ numOfMidThreads' = Add(numOfMidThreads, coreId[p], -MidCount(importance[p]))
  /\ UNCHANGED <<forks, ghosts, online, importance, coreId, sumOfImportance, disturbed>>

\* Mutation of Exit: an entry that is not in use is left alone, so a task that was
\* gone before its fork was handled is counted for good.
ExitUsedOnly(p) ==
  /\ stage[p] = "gone"
  /\ stage' = [stage EXCEPT ![p] = "free"]
  /\ isUsed' = [isUsed EXCEPT ![p] = FALSE]
  /\ IF isUsed[p]
     THEN /\ numOfThreads' = Add(numOfThreads, coreId[p], -1)
          /\ numOfMidThreads' = Add(numOfMidThreads, coreId[p], -MidCount(importance[p]))
          /\ sumOfImportance' = Add(sumOfImportance, coreId[p], -importance[p])
     ELSE UNCHANGED books
  /\ UNCHANGED <<forks, ghosts, online, importance, coreId, disturbed>>

\* destroy_thread, whether the entry is in use or not.
Exit(p) ==
  /\ stage[p] = "gone"
  /\ stage' = [stage EXCEPT ![p] = "free"]
  /\ isUsed' = [isUsed EXCEPT ![p] = FALSE]
  /\ numOfThreads' = Add(numOfThreads, coreId[p], -1)
  /\ numOfMidThreads' = Add(numOfMidThreads, coreId[p], -MidCount(importance[p]))
  /\ sumOfImportance' = Add(sumOfImportance, coreId[p], -importance[p])
  /\ UNCHANGED <<forks, ghosts, online, importance, coreId, disturbed>>

\* A poll, a touch, the end of a boost, a screen event or aging: change_importance of a
\* thread that /proc lists, which may be one whose fork event is still to be handled, or
\* of an entry in use.  The count of mid threads is not changed.
ChangeImportance(p, imp) ==
  /\ stage[p] \in {"born", "known"} \/ isUsed[p]
  /\ importance' = [importance EXCEPT ![p] = imp]
  /\ sumOfImportance' = Add(sumOfImportance, coreId[p], imp - importance[p])
  /\ disturbed' = IF stage[p] = "born" THEN disturbed \cup {coreId[p]} ELSE disturbed
  /\ UNCHANGED <<world, online, isUsed, coreId, counts>>

\* setCore, for each core DPM switches to have those of on: it clears the books of a
\* switched core; the threads assigned to it stay so.
Switched(on) == (on \ online) \cup (online \ on)
Cleared(f, cores) == [c \in Core |-> IF c \in cores THEN 0 ELSE f[c]]

SetCores(on) ==
  /\ 0 \in on /\ (on \subseteq online \/ online \subseteq on)
  /\ online' = on
  /\ numOfThreads' = Cleared(numOfThreads, Switched(on))
  /\ numOfMidThreads' = Cleared(numOfMidThreads, Switched(on))
  /\ sumOfImportance' = Cleared(sumOfImportance, Switched(on))
  /\ disturbed' = disturbed \cup Switched(on)
  /\ UNCHANGED <<world, entries>>

-----------------------------------------------------------------------------
Tasks == \E p \in Pid : Start(p) \/ Die(p)

Handlers ==
  \/ \E p \in Pid : \/ \E base \in {LOW, MID}, imp \in Importance, c \in Core : Fork(p, base, imp, c)
                    \/ Exit(p)
                    \/ \E imp \in Importance : ChangeImportance(p, imp)
  \/ \E on \in SUBSET Core : SetCores(on)

Next == Tasks \/ Handlers

Spec == Init /\ [][Next]_vars

-----------------------------------------------------------------------------
(* Properties. *)

\* The threads an exit event will be taken off core c for.
Assigned(c) == {p \in Pid : coreId[p] = c /\ stage[p] \in {"known", "gone"}}

\* The processes that core 0 is booked with for good: their exit was not reported.
Unreported(c) == IF c = 0 THEN Cardinality(ghosts) ELSE 0

\* No core is booked with more threads than are assigned to it, though a child
\* may be gone before its fork is handled, and its exit is taken off all the same, and
\* though cores forget their threads when they are switched (thread.c:113-158,
\* core.c:302-339 and 667-698).  Only core 0 may be, by the processes that were listed and
\* gone before the subscription (importance.c:177-189), and by no more, whatever becomes of
\* their pids.
NeverOvercounted == \A c \in Core : numOfThreads[c] <= Cardinality(Assigned(c)) + Unreported(c)

\* "change importance of a thread, update thread and core information" (importance.c:206):
\* through every order of forks, exits and changes, the importance of a core is the sum
\* of that of its threads; but for core 0 once a fork has added something else to its
\* sum or when a listed process was gone before the subscription, a core that was
\* switched, and one booked through the entry of a thread whose fork was still to be
\* handled (core.c:302-343, thread.c:147-158).
SumIsOfThreads ==
  \A c \in Core \ disturbed : sumOfImportance[c] = Total(Assigned(c), importance)

=============================================================================
