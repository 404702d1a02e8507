# Verification of the event/importance scheduler daemon

The daemon under `src/` runs on an Android phone (Galaxy S3, four cores). It listens to the kernel's
process-event connector, decides how important each thread is (low, mid, high), gives threads the
matching nice values, and from the same data turns cores on and off, migrates threads and sets the
frequency. This directory holds TLA+ models of it, TLC configurations that check them on small
instances, and TLAPS proofs of their main invariants for every value of the constants.

## 1. The system

| Component (source) | State | Operations | Talks to |
|---|---|---|---|
| Event loop, shutdown (`importance.c` 167-203, 227-253, 277-329; `netlink.c`) | `needExit`, `cnprocMsg`, the socket's receive queue | `handle_proc_event`, `on_sigint`, `destruction` | everything: each event runs `produce_importance`, then `do_action` |
| Timers (`timer.c`) | two one-shot kernel timers in sysfs: 0 sampling, 1 end of a boost | `initialize_timer`, `destroy_timer`, `turn_on_*` | their expiries come back as events |
| Touch connector (`touch.c`) | `/proc/mms_ts_touch_happen` | `initialize_touch`, `reenable_touch` | silent after one report until re-enabled |
| Importance management (`importance.c` 366-669) | `threadSet[].importance`, `importanceChangeThrVec`, `agingIsOn`, `touchIsOn`, `lastAgingPid` | the cases of `produce_importance`, `aging`, `importance_*` | activity, thread table, timers |
| Foreground activity (`activity.c`) | `curActivityPid`, `curActivityThrs` | `check_activity_change` (polls `dumpsys`), `initialize_activity` | importance management |
| Thread table (`thread.c`) | `threadSet[]`, thread counts of each core | `initialize_thread(s)`, `destroy_thread`, `assign_core`, `allocation`, `prioritize` | `core.c`, `/proc` |
| Utilization sampling (`thread.c` 163-255) | `coreSet[].util`, `threadSet[].util`, pid lists | `calculate_utilization` | DPM, DVFS, aging |
| Core power management, DPM (`core.c` 217-293, 636-727, 798-825) | `online`, `numOfCoresOnline`, stored min/max core ids, ring of `procs_running` | `DPM`, `setCore`, `updateMinMaxCore`, `PourCoreImpUtil` | thread table |
| Migration (`core.c` 428-444, 735-791) | pid lists | `migration`, `balanceCore*` | `vector.c` |
| DVFS (`core.c` 375-402, 542-580) | current frequency, utilization history | `DVFS`, `getProperFreq`, `setFreq` | `touchIsOn` |
| Start-up (`importance.c` 167-203) | all of the above | the `initialize_*` calls, the subscription | kernel |
| Vector (`vector.c`) | `elems`, `num_elems`, `num_alloc_elems` | push, insert, pop, shift, remove, copy, ... | everything |
| `profile_sys` (`src/profile_sys`) | counters, `stopFlag` | `parse` in a SIGALRM handler, `main` | stands alone |
| Debug output, `parse.c` | none | logging, string helpers | - |
| Scripts and measurements (`src/sendevent`, `src/exp`) | none | - | - |

**How they interact.** The daemon is a single thread. Every event (fork, exit, screen, timer tick,
touch) is handled to its end before the next is read: `produce_importance` changes importance,
`do_action` then prioritizes, samples, and runs DPM, migration and DVFS. All concurrency is with the
kernel and the user: events queue up while a handler runs, tasks fork and die while events about them
wait, timers expire, the panel is touched, SIGINT comes in.

**What is hard.**

- Both timers are one-shot. The sampling tick is restarted only by `do_action` on that tick, and a
  boost is ended only by the other tick. One skipped restart stops the daemon's work for good.
- `struct proc_event` is a union and the screen case of `produce_importance` has no `break`: a screen
  event runs the timer case too, with `screen_on` read as `timer_no`, and so forges a tick.
- The touch connector says nothing until it is written to, which only the end of a boost does.
- `threadSet`, the foreground pid and the stored core ids are always older than the system they
  describe.
- Importance is written by forks, polls, aging, boosts and screen events, and only some cases of
  `do_action` hand it to the kernel.
- DPM's loops stop only if the counter, the flags and the target agree.
- `main` enables touches, lists `/proc` and starts the sampling timer before it subscribes to events: what
  is reported in between reaches nobody, and what starts or ends in between is not known to the daemon.
- The books of each core (thread counts, sums of importance) are changed a little at a time by every
  handler and never recomputed.
- `profile_sys` does its work in a signal handler that may interrupt `main` anywhere.

**What makes each component correct.**

- Event loop and timers: the sampling tick is never lost and never doubled; a boost always ends;
  SIGINT ends the loop.
- Touch: after each touch, touches are reported again.
- Importance: nice values follow importance; high importance is temporary; the foreground is not low
  while the screen is on, and is low while it is off.
- Thread table: it agrees with the live tasks once their events are read, but for what was never
  reported; no core is booked with more threads than it has; the per-core sums are the sums of the threads.
- DPM: the counter is the number of online cores; core 0 stays on; stored ids name online cores;
  the loops end; the victim is the least important core; no thread stays on a core that is off.
- DVFS: touch means the highest frequency; levels stay in the table; the frequency covers the average
  demand; an average that is no number does not slow the phone down.
- Vector: no cell outside the block is used; each call does what its callers count on, but for the
  removal of a range that reaches the end.
- `profile_sys`: its rows account for the work of each core; a `p` that it can see ends it; it leaves
  the terminal as it was.

`PROJECT.json` lists each hazard at its line with the property that is about it.

## 2. The modules

| Module | What it is |
|---|---|
| `EventLoop` | the loop, the netlink queue, both timers, the touch entry, SIGINT, every exit |
| `SamplingCycle` | the abstract promise: one sampling period at a time, each sampled once, until the daemon stops |
| `EventLoopSampling` | the refinement mapping from `EventLoop` to `SamplingCycle` |
| `Startup` | EXTENDS `EventLoopSampling`: `main` from its first line to the subscription, then the loop |
| `Foreground` | EXTENDS `EventLoop`: tasks, thread groups, nice values, screen; importance, aging, polling, inheritance, prioritize |
| `CorePower` | DPM, the choice of cores, the ring of process counts, the placement of threads, migration |
| `ThreadTable` | the counts and sums kept for each core |
| `Dvfs`, `MCDvfs` | the choice of a frequency; a table of three frequencies for TLC |
| `Vector` | `vector.c` on cells and blocks |
| `VectorContract` | the abstract promise of a vector: a list |
| `ProfileSys` | the sampler that runs beside the daemon |
| `EventLoopProofs`, `StartupProofs`, `ForegroundProofs`, `CorePowerProofs`, `DvfsProofs`, `ThreadTableProofs`, `VectorProofs`, `ProfileSysProofs` | the theorems |

`Foreground` composes with `EventLoop` by conjunction: each of its actions conjoins one of
`EventLoop`'s (`ProduceTick0` is `ProduceSample /\ ...`), so a step of `Foreground` is one of
`EventLoop`'s by the way the actions are written. The lemma `FgStepIsStep` says so and carries the facts
about the loop over to the daemon with its data; it is a tool of the proofs, and no run checks it.
`Startup` composes in time: its steps are `main`'s until `phase` is `"listening"`, and `EventLoop`'s
from then on.

`CorePower`, `ThreadTable` and `Dvfs` each model one part of what a handler does to the cores and leave
the others free within bounds: `CorePower` lets the books of a core be anything, `ThreadTable` lets DPM
switch any cores, `Dvfs` lets the weight be whatever drifted books can give. So what one of them shows
does not lean on the others.

### EventLoop

| Code | Model |
|---|---|
| `while(!needExit) { recv ...` (`importance.c` 293-327) | `pc`: `LoopTest`, `LoopExit`, `Recv`, `RecvError`, `RecvShutdown` |
| the receive buffer of the netlink socket | `queue` of at most `QueueCap` messages; `Deliver` drops one when it is full and sets `overrun`, which the next `recv` reports as ENOBUFS, and the loop ends on any error but EINTR |
| `produce_importance`, as far as timers and touch go | `ProduceProc`, `ProduceSample`, `ProduceBackToMid`, `ProduceTouch` |
| `do_action` | `ActSample` (restarts timer 0), `ActOther` |
| `destruction` and `exit` inside handlers | `HandlerExit`, through `Stop` |
| `on_sigint` | `Sigint`, which interrupts a blocked `recv` or arrives just before it |
| timer and touch files whose writes are unchecked | `destroy_timer` and `ReenableTouch`, which may have no effect when `SysfsFails` |

The kernel's timers and touch driver, which are not in the repository, are modelled from how the code
uses them: one-shot timers, and one touch report until the entry is cleared. Timer periods are left
out: an armed timer may expire at any time, so every order of expiries is covered.

### Startup

`phase` names the next call of `main`: `initialize_touch`, the threads and the activity (which take
their time and touch nothing of the loop), `initialize_timer`, `signal`, the socket, the subscription.
An earlier daemon may have left its timers counting and the touch entry set. `EarlyTouch`, `EarlyTick`
and `EarlySigint` are what can happen on the way. `missed` remembers which of the first tick and
touch were reported to nobody; a touch is made good when the entry is cleared, a tick never.
What tasks do during start-up is `Foreground`'s and `ThreadTable`'s matter: they start at the
subscription, from every state the window before it can have left.

### Foreground

The kernel's side is `alive`, `group` (the leader of each task), `parent` (that of each process, which the
connector names in the fork events of its threads too), `nice` and `screenOn`. A task that exits leaves its
children to another thread of its process or to the system. The daemon's side is `isUsed`, `importance` and
`ran` (nonzero utilization) of `threadSet`, `curActivityPid`, the poll counter, `agingIsOn`, `lastAgingPid`
and `importanceChangeThrVec`. `ThreadCreate`, `ProcessFork` and `TaskExit` change the kernel's side and
queue an event; the `Produce...` actions are the cases of `produce_importance`, and `ActPrioritize`,
`ActExit`, `ActTick0` those of `do_action`. `GiveUp` is each `exit(EXIT_FAILURE)` a handler can reach: a
touch when the foreground has no thread, an unknown importance in `prioritize`, and (with `"end"`) a file
that does not open. One handler reads `/proc` once in the model; the code reads it over a few system calls.

`FgInit` is the state when the subscription starts, after the listing of `/proc`, the first `dumpsys`
and the start of the timer (`importance.c` 177-189), and no event tells of what happened on the way.
`RunningTasks` says what may have: with `"early"`, listed processes may be gone, the foreground
among them, and their entries stay in use; and any of `Untracked` may be there although the listing
lacks them, be they threads that are no leaders (which `readdir` never shows) or processes and threads
that started later. `missed` remembers both kinds until the first event about the pid is handled.
`initialize_activity` raised the threads that the foreground had when it looked, listed or not, which
is any set of them with the leader in it.

The search of `aging` ends with its iterator equal to `lastAgingPid` whether it found a thread or not,
so the test after it always resets the cursor to 1. `AgingCursor` says exactly that.

### CorePower

One iteration of either DPM loop is one step. `BeginTick` is `calculate_utilization` and the head of
DPM on a sampling tick; `BeginScreen` is DPM on a screen event, with the stored ids as they are;
`TurnOn`, `TurnOff` are the loops, `Settle` the end. `balanceCoreImp` and `balanceCoreUtil`, one
after the other, are `migration`; which threads of a list move depends on importance and utilization
and is any subset here. Between runs of DPM `Book` lets the sums of a core become anything within the
bound, which stands for all other handlers, and `Allocate` puts a forked thread on a stored core.
The push at `thread.c` 244 uses an index that the loop before left at `CONFIG_NUM_OF_CORE`, so it writes
past the end of `pidListVec`. That is undefined: if what lies there is a vector the pids go to it
(`ListPids`, an entry of its own), and anything else may end the process (`Die`). No core's list is
ever filled, so migration and `PourCoreImpUtil` find empty lists. That is the defect of section 6, 4,
and no property of the model. `PourCoreImpUtil` would take the words of the vector itself for pids
(`core.c` 818); with a list that is not empty, any threads would be moved.

### ThreadTable

Events reach the daemon in order, so of the queue the model keeps only the `stage` of each pid: born or
known, lost (gone before its fork event was handled) or gone. `Init` is the state at the subscription. A
process that was listed and ended before it is a ghost: no exit event will ever take it off core 0, even
if its pid is used again. What started in that window is known and not listed, as are threads
that are no leaders. `Fork` is all that a fork event does to
the books: `initialize_thread`, the inheritance by `change_importance` and the move by `allocation`.
`SetCores` is what a run of DPM leaves. `disturbed` remembers the cores whose sum of importance is
known to go astray: core 0 with the first fork or with a ghost, a core that is switched, and a core that
was booked through the entry of a thread whose fork event is still to be handled. `SumIsOfThreads` says
nothing of these: it shows that there is no other way astray.

### Dvfs

`Sample`, `Screen` and `BoostEnd` are the three callers, `DPM` may switch the busiest core in between.
Of the cores only the busiest is kept. Utilizations are integers and the average is kept doubled, so
that nothing is rounded. `curUtil` is the set of values that `midUtil * weight` can take by the signs of
the weight's numerator and denominator, both of which drift (see `ThreadTable`): less, more, zero,
negative, infinite and `NaN`. The word before `midUtilHistory` (`core.c` 549) compares either way.

### Vector

Memory is an array of cells that reaches past the block, so an access outside the block shows. Each call
notes the cells it touches. `Contents` is the refinement mapping to `VectorContract`. The calls are the
legal ones, named at the head of `VectorContract`, whose rules are those the callers in `core.c` and
`importance.c` count on; the one the code does not keep is named `RemovesToEnd`. `qsort` of the C library
leaves any ascending arrangement of the cells: the model says so with a bijection between places, and not
with a sorting function of the libraries, of which the provers know nothing.

### ProfileSys

`parse` takes three steps (the list of cores, `/proc/stat`, the row), between which cores come and go
and work; `main` is interrupted anywhere and runs only while no handler does. Keys pass through two
queues: `keys` at descriptor 0, which is all that `kbhit` selects on, and `stdinBuf`, which `fgetc` fills
with everything that waits. An alarm that interrupts `select` leaves the set of descriptors as `FD_SET`
made it, and `kbhit`, which looks at nothing else, then reports a key: `TakeAlarm` may take `main` to
`fgetc`, which waits if there is none. The loop
`while(stopFlag != 2)` takes no step at all: `stopFlag` is not volatile, so the loop may have no end, and
the properties hold without it.

## 3. The runs

| Run | Module, specification | Bounds | What it shows |
|---|---|---|---|
| `EventLoop` | `Startup`, StartFairSpec | queue 3, one pid | the safety of timers and touch from `main`'s first line on, the refinement of `SamplingCycle` with its liveness, `TouchServedUnlessMissed`, `SigintHonouredByTicks` |
| `CorePower` | `CorePower`, FairSpec | 3 cores, one thread, procs_running 4 or unreadable, sums in -1..1 | counter, ring, ids, loops, victim, placement; each DPM ends |
| `Foreground` | `Foreground`, FgSpec | 3 pids, one app, one task that may be missing from the listing, queue 2 | forks, exits, what came and went before the subscription, touches, aging, failures, SIGINT: table, boosts, starvation, known importance |
| `ForegroundLive` | `Foreground`, FgFairSpec | the same, with the screen and without exits | nice values; every thread's high importance ends; boosts across screen events |
| `Dvfs` | `MCDvfs`, Spec | frequencies 2, 3, 6; utilizations to 6, products down to -1 | touch, demand, NaN, levels |
| `ThreadTable` | `ThreadTable`, Spec | 2 cores, 2 pids, 2 forks | where counts and sums are right, ghosts included |
| `Vector` | `Vector`, Spec | lists of 4, first sizes 0, 1, 2 | no overrun; implements `VectorContract` but for `RemovesToEnd` |
| `ProfileSys` | `ProfileSys`, FairSpec | 3 cores, two of them with one unit of work, two waiting keys | rows, count of cores, end, terminal |
| `CorePowerPour`, `ForegroundAging`, `ForegroundScreenOff`, `ForegroundUntracked` | | small | the disagreements of section 6 |

**Why the bounds suffice.**

- *Queue.* Two slots hold two events whose order matters and let a third overrun it; `EventLoop` has
  three, so both ticks and a touch can wait together, or a forged screen tick between two real ones.
- *Pids.* Pid 1 stands for the system, 2 is the app the daemon starts with, 3 is a thread of it, a
  second process or, after an exit, the same pid again. The foreground can move away and die. What
  needs more pids than that is covered by the proofs, which have no bound.
- *Polling.* `CheckActivityTime` is 1. A poll may answer "nothing", which is what a sample without a
  poll does, so longer periods are included.
- *Happens* names which occurrences the world brings about in a run. The runs choose
  overlapping subsets, since all at once is out of reach; the proofs range over every subset
  (three of them over each without `"appfork"`, see 4 and 6).
- *Cores.* Three cores are the fewest with a real choice of victim besides core 0. `procs_running` is
  4 or unreadable, which counts as 1, so the average of the ring takes each value 1 to 4, on either
  side of every core count.
- *Sums.* What matters is which is smaller: three values of importance order any two
  cores in all ways and let a sum be negative, which the code's bookkeeping allows. Utilization is 0 in
  the run, to make room for the thread: the id of least utilization is then the first online core. The
  proofs have no bound on either.
- *ThreadTable.* Core 0 and one other show the two kinds there are. A pid in use from the start and a
  fresh one, two starts: a pid is used again, a child is lost while the other pid is booked. More of
  both only add up.
- *Dvfs.* The table has a narrow gap and a wide one, so the search takes a level, the one after it or
  the highest; `MCLeast` makes a product negative. The proofs are for every table.
- *Vector.* Blocks start at 1, 2 and (for 0) 4 cells, so growth by doubling, growth to a size and the
  shrinking of `remove_all` meet in lists of up to 4.
- *ProfileSys.* Three cores give every shape of the list of ranges: `0`, `0-1`, `0,2`, `0-2`. Two of
  them work, core 0 that is always on and one that comes and goes (`Worker`). Two keys not yet handed to
  `main` are the fewest that let a `p` follow another key into the buffer of stdio.

**Fairness.** The daemon's steps are weakly fair: the process runs at nice -20 (`prioritize_self`)
and its handlers are straight-line code. Armed timers expire: a weakly fair `Timer0Fire` and
`Timer1Fire`. `main`'s steps up to the subscription are weakly fair for the same reason. Nothing is
assumed of users, touches, forks, SIGINT, failures or a socket shutdown. In `CorePower`, the loops of
DPM and migration are weakly fair because nothing can happen between their iterations but the daemon's
own exit. In `ProfileSys` an armed timer expires and its handler runs (weak), and `main` gets to run
again and again between two alarms, whose period is longer than one handler (strong).

**Deadlock** is checked in every run; a process that has ended stutters (`Terminated`, `StartEnded`,
`Disposed`).

## 4. What is proved

For every value of the constants that the named assumptions allow.

*EventLoop* (`EventLoopProofs`). `HeartbeatInv` is the two heartbeat properties with the types: they
are inductive together. Its proof follows the one token from the timer to the queue to the daemon's
hand and back; lemmas about `Append` and `Tail` say what a delivery and a `recv` do to what is queued.
`BoostInv` and `TouchInv` do the same for the tick that ends a boost and for a touch.
`TouchReenabledLater` is proved for `SysfsFails = FALSE`: when the unchecked write that clears the touch
entry fails, the daemon does go deaf. The other theorems hold with failing writes too.
`ImplementsSafeCycle` follows from `HeartbeatInv`: every step maps to a step of `SamplingCycle` or to a
stutter.

*Startup* (`StartupProofs`). The theorems of the loop, from `main`'s first line on. Until `main`
listens the loop is at rest (`AtRest`); `TickKnown` says that the tick of a started timer is on its way,
or that it was missed and then there is none and never will be. From the subscription on, the lemmas of
`EventLoopProofs` carry each step. `StartsSafeCycle` maps the whole life of the daemon to
`SamplingCycle`, a missed first tick to its last stage.

*CorePower* (`CorePowerProofs`). The state properties are inductive only together: `NeverStuck` needs
`CountMatches` (the target comes from the counter, the loops search the flags), `CoreZeroStays` and
`HistorySum` (an average below 1 would ask for no core at all), and `CachedCoresOnline` needs
`CoreZeroStays`. `VictimFresh` is added to them: on a tick, while cores are still to be turned off, the
stored id of least importance is the one the current sums give. `TickVictimIsLeast` follows from it.
`LoopsAlwaysAdvance` is the part of `DPMTerminates` that needs no fairness: from a plan on, each step leaves
fewer of at most `NumCore + 2`. `PlanAlwaysKept` says that the loops end with the planned number of cores
on.

*Foreground* (`ForegroundProofs`). Every step is a step of `EventLoop` (`FgStepIsStep`), so what is known of
the loop can be used. `TrackedMatchesAlive` rests on `ExitsAreDead` (an exit that is queued or in hand names
a dead pid) and speaks only of pids with nothing pending, since a fork and an exit of one pid may both wait;
what a fork handled late reads in `/proc` closes the gap. Pids in `missed` are excepted, and the first event
about one takes it out of there for good. `HighIsTemporary` is proved for every choice of occurrences
without `"appfork"`. `SystemInv` says that every process and every waiting fork event then has the system as
parent, which stays mid, so no child inherits high; `HighsAreBoosted` that a high thread with nothing
pending is one of the foreground process with the end of the boost on its way.

`ForegroundNotStarved` and `NiceFollowsImportance` are inductive together (`NiceInv`): aging raises a low
thread without prioritizing it, which the second property excuses in the background only, so it needs the
first. Between `produce_importance` and `do_action` a thread may still wait in `importanceChangeThrVec` for
its nice value, and `AwaitsPriority` says which. They too are proved for every choice of occurrences without
`"appfork"`, and the hypothesis is needed: with it TLC finds both violated (see 6). `ImportanceKnown` is
proved where either the listing lacks no task at the subscription (`Untracked = {}`) or apps do not fork;
without that it is false, which is the run `ForegroundUntracked`. `KnownInv` orders the queue: a fork event
never comes ahead of the fork event of the parent it names (`ParentsComeFirst`); every parent is alive, and
is the system unless apps fork (`ParentsInv`); and every live thread that may fork is known once the queue
is handled.

*Dvfs* (`DvfsProofs`), for every table of frequencies. The inductive invariant joins the types with
`TouchMeansMax`, `NaNStaysFast`, `AverageInv` (while it is a number, the running average is that of
the two entries) and `SampledNow` (a tick's sample was taken at the frequency of now). The last two
are what `CoversDemand` needs when the shortcut up is told the truth: the newer entry is at most the
frequency chosen last and above the older one, so their average is below that frequency, and halfway up
to the highest is no lower.

*ThreadTable* (`ThreadTableProofs`), for every number of cores and finite set of pids.
`NeverOvercounted` is inductive with the types; the lemmas say what a step does to the set of pids
assigned to a core and so to its cardinality. `SumIsOfThreads` needs one fact more (`SumInv`): an entry
in use is that of a thread whose fork was handled and whose exit was not (`UsedIsAssigned`), so what a
change of importance adds to the sum of a core is the change of a thread assigned to it.

The sum is a fold, a recursion over subsets, and what it computes would be shown by induction. The
theorems of the library that do induction take an operator and cannot be used; the minimum of a
well-founded relation takes none. So `TotalIsWeight` first names the sum without recursion (importance
being at most 3, it is that of three cardinalities), shows that this solves the recursion, and then that
there is no smallest set on which another solution differs. That a thread more adds its importance
(`TotalAdds`), one less takes it (`TotalTakes`) and a change adds the difference (`TotalChanges`) follows
from what is known of cardinalities.

*Vector* (`VectorProofs`), for every bound on lengths, first sizes and elements. `VecInv` joins the types
and `NoOverrun` with `InUse` (each cell in use holds an element): `num_elems <= num_alloc_elems` is what
growing before a push and shrinking after `remove_all` have to keep, and pop, shift and `cmp_all` hand back
an element only because the cells below `num_elems` were written. `VectorImplementsContract` is proved call
by call: what `memmove` and `realloc` do to cells, and then that this is the change of the list, or that the
call is a removal up to the end, which changes nothing. It includes the safety of every sequence of calls
and no fairness, for the contract has none.

*ProfileSys* (`ProfileSysProofs`). `WorkInv` relates the four counters of each core at each point of the
handler: between rows the last row is the last sample (`Settled`), between a sample and its row the rows
with that one will have all of it (`Due`), and a core that was off has 0 or the counter last read in the
sample. `CpuOnCounts` is proved for each set of up to ten cores: two ranges of the list have no core in
common (`RangesApart`), every core is in one (`RangesCover`), and the widths add up by the argument used for
`Total`. `StopInv` says where `main` is when the flag is set, from which `TerminalRestored` follows.

## 5. What is only model-checked

Liveness: `TouchServedUnlessMissed`, `SigintHonouredByTicks`, `HighEnds`, `DPMTerminates`,
`PEndsSampling`, and the fairness part of `StartsSamplingCycle`. Fairness and ENABLED are out of the
prover's reach. Of `StartsSamplingCycle` the safety part is proved (`StartsSafeCycleAlways`), and of
`DPMTerminates` that the steps run out (`LoopsAlwaysAdvance`). `HeartbeatOnceListening`,
`TouchReenabledUnlessMissed` and `HighIsTemporary` show that what `SigintHonouredByTicks`,
`TouchServedUnlessMissed` and `HighEnds` wait for is on its way. Every other property of a passing run is
a theorem.

## 6. Where code and comments disagree

Each has a run with the counterexample.

1. `ForegroundAging`: "prioritize threads based on their importance" (`thread.c` 281). Importance
   changed by aging is never prioritized: the sampling case of `do_action` does not call it, and the
   next event empties the vector.
2. `ForegroundScreenOff`: with the screen off the foreground should be low (`importance.c` 602). The
   missing `break` (416) makes screen-off poll, and the poll raises the new foreground to mid; so does
   the end of an earlier boost.
3. `ForegroundUntracked`: "find all threads in /proc" (`thread.c` 74) finds group leaders only. What
   another thread forks has importance 0, and `prioritize` ends the daemon. So does the fork of a task that
   started between that listing and the subscription.
4. `CorePowerPour`: "when a core turn off, migrate all threads on this core to other cores"
   (`core.c` 794). The pid lists are always empty (`thread.c` 244), so nothing is migrated.

What follows contradicts nothing the repository says; the models and the statements of the properties
show it, and a maintainer would want to know.

- A process forked by a boosted app thread inherits high and is in no thread group that the end of the
  boost visits. `HighIsTemporary` is false with `"appfork"`.
- A process forked by a background app may be found in front by the poll before its fork event is read. The
  poll raises it to mid; the fork event then gives it the low importance of its parent, and the foreground
  is low until aging reaches it, which raises the importance and leaves the nice value.
  `ForegroundNotStarved` and `NiceFollowsImportance` are false with `"appfork"`.
- A tick between `initialize_timer` and the subscription is lost and with it all sampling, for good; then
  SIGINT too waits for some other event to wake `recv`. A touch between `initialize_touch` and the
  subscription makes the daemon deaf to touches until the screen is turned on or an old timer 1 expires.
- When the socket or the subscription fails, `main` exits without `destruction`: timer 0 goes on
  counting and the governor stays at userspace.
- An average that is not a number stays so. `getProperFreq` then finds no level above it and the
  frequency is the highest for good.
- The shortcut up starts halfway from `lastFreqLevel`, which a touch does not update, and every second
  time it is decided by the word before `midUtilHistory`.
- A process that was listed and ends before the subscription is in use and booked on core 0 until its pid
  is used again, and on core 0's count for good. One that starts in that window is not tracked.
- Core 0 is never booked right after the first fork: `change_importance` adds a new thread's importance
  to its sum a second time; a child that is gone early is taken off without having been added.
- `vector_remove_some` removes nothing when the range reaches the end (`vector.c` 177), where migration's
  `balanceCore*` (`core.c` 757, 789) expect the threads they have moved to be gone. `VectorContract` is what
  those callers expect; `ImplementsContract` exempts this one call (`RemovesToEnd`), and without the exemption
  it is false. The lists of pids being empty, the daemon does not get there.
- "continue until user pressed 'p'" (`profile_sys.c` 284): a `p` typed right behind another key is read into
  the buffer of stdio with it, where `kbhit` does not look, and ends nothing until a further key is typed.
  `PEndsSampling` excepts just that, and is false without the exception.
- `profile_sys` leaves the terminal raw if an alarm comes between the key and `reset_terminal_mode`, as
  the `atexit` call is commented out (line 87).

## 7. What is not modelled, and the plan

- `check_screen_touch` (polling for touches): `CONFIG_POLLING_TOUCH_STATUS` is 0.
- The arithmetic of `calculate_utilization` on the counters of `/proc/stat` and on execution times
  (`thread.c` 201-216, 246): only what it can come to. Whether a counter ever goes back is the
  kernel's doing.
- The utilization figure, frequency and context switches in the rows of `profile_sys`, and the C
  library's locks that its handler may find held.
- Logging, string parsing (`parse.c`, which the daemon does not call), scripts, measurements.

What is left, in order of importance:

1. The safety cores of the remaining liveness properties, as action properties: which step may take away what
   `TouchServedUnlessMissed`, `SigintHonouredByTicks` and `HighEnds` wait for.
2. That `NeverOvercounted` becomes an equation for a core that was never switched and is not core 0, by the
   argument of `SumIsOfThreads`.
3. What holds of nice values and of the foreground with `"appfork"`, stated with the window it opens.
