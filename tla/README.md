# Specifications of the RP6502 multitasking system

TLA+ modules for the program in `src/`: a cooperative scheduler for the 6502
with a stack-copying context switch, a publish/subscribe bus with an optional
MQTT bridge, a B-tree, and a test application in which producer tasks send items
over the bus to consumers that store them in the tree. TLC checks every module
on small instances, and the composed program with the constants it ships with;
TLAPS proves the safety of every component for all sizes: scheduler, accounting,
context switch, bus, application, the composed program, and the B-tree: its shape,
its memory, its search order and that it is a map, the latter two as far as they are true.

## 1. Inventory

| Component | Source | State | Operations |
|---|---|---|---|
| Scheduler | `src/src/scheduler.c`, `.h` | `tasks[]` (fn, in_use, started, wake_tick, saved stack), `current`, `ticks`, `idle_task_id`, CPU counters | add, add_once, remove, sleep, yield, task_return, set_idle_task, run; queries |
| Context switch | `src/src/ctxswitch.s`, `scheduler_copy_stacks` | page 1 of memory, `tasks[].stack`, `saved_sp`, registers | ctx_switch, trampoline |
| Publish/subscribe bus | `src/src/pubsub.c`, `.h` | topics with a 64-entry ring each, 32 subscriber slots, spin locks, MQTT adapter | create_topic, publish, subscribe, unsubscribe, process_topic, process_all, clear_queue, poll_mqtt, set_mqtt_adapter; queries |
| B-tree | `src/src/btree.c`, `.h` | nodes of up to 9 keys (order 10) | create, insert, get, update, delete, count, free; print |
| Test application | `src/src/main.c` | pool index, pending items, counters, validator phase, flags | producer, monitor + consumer callback, validator, cleanup and idle tasks |
| Helpers, start-up, tools | `string_helpers.c`, `main.s`, `vectors.s`, `tools/`, CMake | none that matters | formatting, entry, upload |

**How they interact.** Tasks are C functions that call `scheduler_sleep` and
`scheduler_yield`; nothing is pre-empted. Those calls advance the tick, pick the
next task and enter `ctx_switch`, which exchanges the contents of the one
hardware stack page. The application's tasks share the bus and the tree through
globals: producers call `pubsub_publish`, the monitor calls `pubsub_process_all`,
which calls the consumer callback, which calls `btree_insert`. Validator and
cleanup poll counters and flags between sleeps.

**What is hard.** Which task runs next, for how long one is passed over and when
a sleep ends, over a 16-bit counter that wraps; slots that are freed and taken
again by their own or other tasks; the copier that runs on the stack it
overwrites; rings that are processed with the lock released, so that anything
can happen between two callbacks; tables compared with counts that are not what
they seem; a B-tree's cases; items that meet full queues and tasks that wait for
each other's counters. `PROJECT.json` lists these hazards line by line, each
with the properties that cover it or the reason why none does.

**What makes each component correct.** *Scheduler*: no ready task is passed over
more than a table's length, no sleep ends early or late, a function is entered
once, the processor is never lost. *Context switch*: a task resumes where it
left off. *Bus*: each topic is a bounded queue, each message reaches each
subscriber once and in order. *B-tree*: it is a map, sorted and balanced.
*Application*: no item is lost or sent twice, the verdict is right, the machine
halts.

## 2. Modules

| Module | What it is |
|---|---|
| `Scheduler` | scheduler.c; one action per API function |
| `CpuUsage` | `Scheduler` with its tick counters and the percentage made of them |
| `ContextSwitch` | the stack page and the buffers, as sequences of return addresses, and the depth of the compiler's stack |
| `PubSub` | pubsub.c; the processing loop step by step |
| `MessageQueues` | abstract: named bounded FIFO queues, implemented by `PubSub` |
| `BTreeNode` | btree.c's nodes: scans, split, insertion into a leaf, merge, borrowing |
| `BTree` | `BTreeNode`'s nodes in memory, and the calls that go down the tree, node by node |
| `Dictionary` | abstract: a map with the results of its calls, implemented by `BTree` |
| `WorkQueue` | the tasks of main.c over bounded queues and a set of stored keys; implemented by `Program` |
| `Report` | how the validator's summary judges its two clocks |
| `Program` | main(): `WorkQueue`'s tasks in `Scheduler`'s slots, with their pauses and time stamps |
| `MC...` | the constants of the TLC instances |
| `...Proofs` | TLAPS proofs about `Scheduler` and `CpuUsage`, `ContextSwitch`, `PubSub`, `WorkQueue`, `BTreeNode`, `BTree` and `Program` |
| `CommonLemmas` | numbers on a circle, least elements, functions that are sequences |

The modules meet at their abstractions. `WorkQueue` uses topics as bounded
queues (`PubSub!IsQueues`), the tree as what it holds (`BTree!IsMap`) and the
scheduler as "any task may be next, none starves". `Program` puts the tasks on
the real scheduler and shows that it implements `WorkQueue` with that fairness.
`ContextSwitch` lets any task be next.

Operators such as `FindFromZero`, `AddKeepsStarted` or `TakeKeepsTail`, which no
specification uses, are faulty versions of the definition after them. Put in its
place, each makes a run fail, which shows that the properties can tell.

### Scheduler

Variables follow `task_t` and the file's statics. `running` says whose code has
the processor: `main` before `scheduler_run`, a worker, the idle task,
`exited` when `scheduler_run` found nothing, `lost` when `scheduler_task_return`
came back to a function that has ended. `orphan` is history: the running code
has removed its own slot, so what happens to the slot is no longer its affair.
`entered`, `left` and `waited` are history too, written next to what the code
does and never read by it.

`Reschedule` is `scheduler_yield` from the tick to the next task's first
instruction; `Sleep` and `TaskReturn` change the table first and are one action
with it, because nothing runs in between. `find_next_task`'s three scans are
`FindNext`: when there is no ready task but the idle one, the second and third
give the same. `KeepsIdle` says that nobody takes the idle task out of the
table, or makes another one the idle task. `SetIdle` is `scheduler_set_idle_task`: main.c marks the idle
task with it (`MaySetIdle`), and with "setAny" among `Calls` main() and the workers mark any slot, in use or not,
or none. `Calls` restricts what workers do, to what main.c's tasks do or to anything the interface allows.

### CpuUsage

`Account` goes with every step of `Scheduler`: a call that advances the tick adds
one to `cpuTotal`, and one to `cpuActive` if the slot it switches to is not the one that
`idle_task_id` names. `elapsed` and `busy` are history, counts without a width; `steady` remembers that
the mark on the idle task has not been moved since the first tick, without which the percentage has no meaning
one could state.
`Percent` is `scheduler_cpu_usage_percent` with its products modulo `CounterMod`.

### ContextSwitch

The stack is a sequence of return addresses; only their number and order
matter, as `scheduler_copy_stacks` is itself a function on the page it fills.
With the running task's stack saved at depth *d*, its return address is at
*d* + 1. Restoring a stack of up to *d* addresses leaves it alone. One of *d* + 1
puts the stack's own top there, so that the copier returns straight to where
`ctx_switch` would have. Beyond that the processor goes astray (`Restore`).
`Waits` says where tasks wait. `TailCalls` is about `scheduler_task_return`,
which ends in a call and has no locals, so that cc65 with `-O` turns the call into
a jump; `scheduler_yield` and `scheduler_sleep` have something to clean up and do not.
The build calls cc65 with `-O` (`CMakeLists.txt:124`), so every run has `TailCalls = TRUE`: a task
that returns is then three addresses deep in `ctx_switch`, one that waits in `scheduler_sleep` five, and the
switch from one to the other goes astray (`CtxReturn`). Every other switch of main.c's tasks goes where it should
(`OnlyReturnsGoAstray`). After a switch that went astray nothing is said of the processor
any more (`Lost`). The other modules, as the C code does, take it that a switch resumes the task it
picks; what they show of the application is shown of the C code, and of the machine as
far as its tasks do not return.

cc65 keeps arguments and locals on a second stack in memory. `soft` is its depth in
words: what a function pushes when it is entered it pops when it returns, whoever
has been running in between, because the switch leaves the pointer alone. `Kept` is the
set of calls that have words there, with how many, and `WordsOf` their number. `base` remembers
how deep it was when a task was entered, which tells where the task has its
variables. `Measure` is the query that keeps the high-water marks; nothing
else updates them, and `scheduler_add` does not reset them.

### PubSub

A call that does not call back is one action: tasks are cooperative and no
function waits with a lock held, so the locks are never seen taken. Between
`Take`, each `CallBack` and `Passed` of a processing activation anything may
happen, which covers callbacks that call the bus, callbacks that sleep, and
other tasks. Messages are numbered as they are accepted; `sent` remembers what
topic they went to. A name is cut by `Stored`.

### BTree

A node is a record of entries and children; functions that change nodes in place
are operators that return the changed node. Those that look at a node and its children only
are in `BTreeNode`, where children are nodes. In `BTree` nodes lie in memory (`mem`) and children
are addresses; `View` puts a node's children in their place, and `Rewrite` puts what has become of them back.

The functions that go down the tree end in the call for the child, so a call in progress is the node it
has come to (`call.at`) and what it is about to do there (`call.job`), and each node on its way is one step:
"search" (`btree_get`, `btree_update`, the first search of `btree_delete`), "grow" and "split"
(`btree_insert` at the root), "insert" (`node_insert_non_full`), "remove" (`node_remove`),
"shrink" and "verify" (the rest of `btree_delete`). `call.seek` is the key `node_remove`
looks for, which changes where an entry has been replaced by its neighbour. Nothing else happens during a call,
as nobody calls the tree in a callback or yields in it; the steps are there
so that no operator is recursive and each node's step can be reasoned about by itself.
`Under` and `Height`, for the properties and `btree_free`, are recursive functions over the memory.

The `BTree` block, which holds the order and the root, is no node; `block` says whether it is allocated.
`btree_create` is two steps, the block (`CreateTree`) and the root (`CreateRoot`), and when there is no memory for
the root it gives the block back (`FreeTree`).

An insertion keeps its hands off keys that are there unless `Reinsert` says otherwise, as main.c's consumer
does. `LeafInsert` keeps what the code does when a leaf turns out to hold the key: the shift that
was under way is not undone. `build` is the order, the keys and the kind of caller
an instance looks at; it never changes. `Malloc` says whether malloc delivers; once it has
refused a node, it refuses all of them until the call ends (`call.short`). An insertion
without memory for a new root is dropped; one that finds none for a
split further down goes on into the full child, and may end in an entry written past a
node's arrays or a pointer that was never set. So may a merge at an odd order (`MergeFits`). Such a call
never returns (`Unsound`), and nothing is said of the tree thereafter.

### WorkQueue

A task runs from one sleep to the next without interruption, so that stretch is
one action. Tasks that find nothing to do sleep and try again: a stutter. The monitor's round lets
`pubsub_process_all` empty every topic (`MonitorRound`); `Consume` is what the callback makes of all of it.
`InsertMayFail` lets `btree_insert` run out of memory, in which case it drops the
item without a word; `lost` remembers which. `CreateMayFail` lets `btree_create`
fail: what the monitor takes off the topics before there is a tree is `thrown`
away uncounted. `config` is the number of producers, consumers and items, which
the test scripts vary.

### Program

`current` of `Scheduler` says whose turn it is, and each task's round (an action of
`WorkQueue`) is one step with the call to `scheduler_sleep`, `scheduler_yield` or
`scheduler_task_return` that ends it and the duration that main.c passes. `Boot` is
main(): it fills the slots in order and starts the scheduler. `Record` sets the
time stamps, 16-bit ticks, and `since` remembers the same moments in ticks
that do not wrap; `Difference` is the subtraction of two stamps as `unsigned`, which the summary prints. Memory is not short here, and a round of the validator that
finds nothing to do, or of a producer after the pool is empty, is a step of the
scheduler alone. Two assumptions state how main() uses its parts: `BuildsAssumption`
(at least one producer, consumer and item, and a place in each topic) and
`MainAssumption` (it registers an idle task, and the tasks call nothing of the
scheduler but `scheduler_sleep` and the return). Nothing in it is random: given the build, the program has one behaviour,
which TLC follows to the halt.

## 3. Runs

Runs that pass:

| Run | Instance | Shows |
|---|---|---|
| `SchedSleepers` | 3 slots, counter of 8 ticks, durations 0-3; workers sleep, return, add, remove; idle task; fairness | round robin fair and free of starvation, single entry, no lost processor, sleeps early only at tick 0, due tasks stay due, the idle task stays runnable |
| `SchedAnyCall` | 3 slots, counter of 4 ticks, every call at any time, idle task registered or not and taken out, any slot or none marked as idle; 6 ticks | the inductive invariant; wake ticks exact across wraps; the CPU percentage right up to the overflow of its product, which occurs |
| `CtxBuilt` | as built with `-O`: 3 tasks that call functions of their own, sleep or yield in their outermost one, and return (twice in all) | only a return that goes on with a sleeper leaves the processor astray, slots are reused, buffers stay intact, the compiler's stack does not drift |
| `BusOne` | 2 topics, rings of 3, one processing task, MQTT adapter, 3 messages; fairness | order kept, messages get off the ring |
| `BusTwo` | 2 topics whose names are cut to the same one, 2 subscribers, rings of 3, two activations, clearing | no loss, no duplicates, every subscription counted, rings refine `MessageQueues` |
| `TreeOrders` | order 10 with 10 keys; order 4 with 5 keys and 2 values, and with 8 keys and short memory; order 3 with 6 keys, not deleted | balanced, sorted, no leak of a node or the tree's block, no entry out of bounds, refines `Dictionary` |
| `WorkDone` | 5 or 6 items, up to 3 producers and consumers, queues of 1, failing creation and insertions; fairness | conservation, counters, verdict, termination |
| `Program` | main.c's constants (15 slots, 16-bit ticks, topics of 63, its pauses) with 2 producers, 2 consumers and 250 items, and three builds like the scripts' | refines `WorkQueue` with its fairness; topics never fill; time stamps right and the clock judged right; tasks have returned before the halt |

Bounds. The scheduler's behaviour depends on the order of ticks, so a counter of
8 values with sleeps shorter than half of it has every wrap, tie and early wake
that 65536 have; three slots are two tasks that compete and the idle one, or
three that compete; the proofs remove both bounds. `MaxElapsed` and `CounterMod`
stop `SchedAnyCall` after 6 ticks, one more than the percentage takes to overflow there. Rings of three entries are full with two
messages and wrap within three. Six items over three producers and queues of one
fill the queues while producers hold pending items. Three bounds cut behaviour off. `MaxAccepted` is
the number of messages a run of the bus accepts; it is larger than what a ring
holds, so rings fill and wrap. `MaxReturns` is the number of tasks that return in
`CtxBuilt`, two, so that a slot is used again and again. `MaxElapsed` is the number of
ticks; in `Program` it lies beyond the halt of the longest build (at tick 14404), so there it cuts
nothing off. No build of the run reaches the end of the tick counter. That the differences of stamps are right across it is
proved (`TimesRight`), and checked with `Configs <- LongBuild` and `MaxElapsed = 70000` in `Program.cfg`, a run of
minutes. Five keys at order 4 reach splits of root and leaves, both borrowings, merges and
the root's collapse in trees of height 2; eight fill an internal root, so that one that has no
memory to be split occurs and is lived with; order 10 splits with ten. The two
activations of `BusTwo` are interchangeable, so they are a symmetry set; nothing
but safety is checked there. Deadlock is checked everywhere: even where no
message is accepted any more, processing and subscriptions go on, and the states
in which the system stops (`Stopped`, `Halted`) stutter by name.

Runs that exhibit a disagreement between the code and a comment or document;
each is described under "findings" in `PROJECT.json`:

| Run | Violates | What the code does |
|---|---|---|
| `CtxReturn` | "will not return here", "return to saved PC by RTS" | as built, a task that returns into a sleeper copies a stack over the copier's own return address |
| `CtxLocals` | "will switch contexts and return when resumed" | a resumed task addresses its local variables relative to another task's |
| `TreeReinsert` | "Check for duplicate" | a leaf that holds the key stores the next entry twice and loses the greatest |
| `TreeDeep` | "choose predecessor" | taken from the child, not the leaf below it |

The first two concern the application as it stands. `CtxReturn`: producers, monitor and
validator return while others sleep. `CtxLocals`: monitor, cleanup and idle task
use nothing after a sleep that they set before it, and the validator's variables are static,
but the producers keep `pending_ptr` and `producer_id` on that stack. The others need a key
inserted twice, and deletion in a tree of height 3.

Other limits. The models also made visible what follows. It has no run of its own; it is part of
the modelled behaviour under which every property is checked, and listed as hazards. Where an
instance or a theorem shows it, that is named.

* A run of 65.5 seconds or more has its milliseconds cut to 16 bits and may be blamed on the clock. That concerns
  main.c, whose own build takes 72 seconds at the 200 ticks a second it calls well tuned, and whose comment
  reports a run of 108; `ClockTrusted` leaves such runs out.
* The tree deletes correctly at even orders only: at odd ones, the 3 that btree.h names included, a merge makes a
  node one entry larger than its arrays (`OddMergeOverflows`; with `Builds <- Odd` in `TreeOrders.cfg`
  `StaysInside` is violated). A key that the split of a full child moves up is inserted below it
  again (`SplitHidesMedian`; with `Builds <- Rising` `Sorted` is violated).
* A worker that yields in a loop after a sleep counts as asleep again when half the counter's range has passed
  (with `Calls <- YieldCalls` in `SchedSleepers.cfg` `DueStaysDue` is violated).
* The mark outlives an idle task that is removed: a worker that gets its slot does not run while
  others are ready (with `Calls <- StaleIdleCalls`, `KeepsIdle = FALSE` and `CHECK_DEADLOCK FALSE` there
  `NoStarvation` is violated).
* A task that removes itself, adds another in its place and returns takes that one out of the table. Without
  an idle task a returning task may find no successor.
* Once the last subscriber slot has been used nobody can subscribe, though slots are free; a full ring holds 63 messages; a
  name longer than 31 characters is not found again; MQTT messages for a full ring are dropped.

## 4. Fairness

* `Scheduler!FairSpec`: `main()` registers the idle task and reaches
  `scheduler_run`, and whoever has the processor gives it up again (`GiveUp`):
  each task of main.c is a loop around a sleep or a yield. Nothing is assumed of *who* gets it
  next; that is what `NoStarvation` checks.
* `PubSub!FairSpec`: a processing activation goes on. The monitor calls
  `pubsub_process_all` in an endless loop and callbacks return.
* `WorkQueue!FairSpec`: every task takes its next round. That is what the
  scheduler gives with finite sleeps, and `Program` checks it (`ImplementsWorkQueue`).
  Cleanup's final endless loop is the end of all tasks (`Halted`).
* `Program!ProgramSpec`: the processor executes the next instruction, whatever it is.

## 5. Proofs

Every theorem holds for all values of its module's constants that satisfy the
module's named assumptions, and the conditions the table gives. `PROJECT.json` says
of each which property of a run it states. In each module one invariant, `IndInv`, is
shown to hold initially and to be kept by every action, one lemma each; the
rest follows from it.

### Scheduler and CpuUsage

`SchedulerProofs`, for every table size `N`, counter range `2 * Half`, set of called
functions and set of durations up to `Half`:

| Theorem | States |
|---|---|
| `InductiveInvariant` | `Spec => []IndInv` |
| `TypeCorrect`, `EnteredExactlyOnce`, `SleepIsExact` | its parts `TypeOK`, `EnteredOnce`, `SleepMatches` |
| `WaitIsBounded` | `Spec => []BoundedWait` |
| `IdleTaskSuffices` | with an idle task, `Spec => []NeverLost` |
| `SleepersWakeOnTime` | with an idle task, `Spec => EarlyOnlyAtTickZero` |
| `IdleTaskStays` | with an idle task, `Spec => []IdleInv` |
| `DueTasksStayDue` | with an idle task, no worker that yields, and `N <= Half`, `Spec => DueStaysDue` |

The same module, for every width of `CpuUsage`'s counters and every bound on its ticks:

| Theorem | States |
|---|---|
| `UsageIsRight` | `UsageSpec => []PercentIsRight` |
| `AccountingIsPassive` | `UsageSpec => Spec`: counting disturbs nothing |

`BoundedWait` (a task is passed over fewer than `N` times) is not inductive: it does
not say where the scan stands. `WaitInv` does, in that the number of times a task has been
passed over and its distance from the current slot add up to at most `N`. A switch to a nearer
task shortens the distance by one at least (`Nearer`), and the scan takes the
nearest (`FirstAfterNearest`, from the well-ordering of the naturals).
`ControlInv` ties the control state to the table, so that for instance a
yielding task always has a slot. `SleepMatches` needs arithmetic modulo the
counter's range, which `TickRange` to `TickStep` state once.

`NeverLost`, `EarlyOnlyAtTickZero` and `IdleInv` need a second invariant, `IdleInv`, relative to the first: the
idle task stays in the table with wake tick 0. From it a switch
always finds a task, and the task found is due; a task with time left of its
sleep is not due, unless its wake tick is 0 (`NotDueBefore`). `DueStaysDue` needs a third,
`OverdueInv`: a task is late by no more ticks than it has been passed over,
which round robin bounds by `N`, so that its wake tick is never half the range behind.
Workers that yield may be (section 3, other limits).

The assumption on `Deltas` is the code's own limit: a sleep of more than half
the range ends at once.

### WorkQueue

`WorkQueueProofs`, for any number of producers, consumers and items, queues of any size,
and every failure of memory:

| Theorem | States |
|---|---|
| `InductiveInvariant`, `TypeCorrect` | `Spec => []IndInv`, `Spec => []TypeOK` |
| `ItemsAreConserved` | `Spec => []Conservation` |
| `CountersAreRight` | `Spec => []CountersMatch` |
| `VerdictIsHonest` | `Spec => []HonestVerdict` |
| `WithMemoryAllPass` | if insertions find memory, a complete validation has passed all items |

`Conservation` adds up how many items are where. The sum says nothing of *which*, so
it does not survive a step; `Whereabouts` does: the sets of items that are held, waiting,
arrived and thrown away are disjoint, no two producers hold and no two places of the topics have the
same item, and together they are all that was taken from the pool. The sums follow, since the sizes of
disjoint sets add up. `VerdictInv` says where the validator stands, and that it does not begin before all items have
arrived, which is why what it does not find is lost.

### PubSub

`PubSubProofs`, for tables and rings of every size, every set of names and way of
cutting them, and any number of activations that process topics:

| Theorem | States |
|---|---|
| `InductiveInvariant`, `TypeCorrect` | `Spec => []IndInv`, `Spec => []TypeOK` |
| `SlotsAreCounted` | `Spec => []SlotsCounted` |
| `NothingTwice`, `NothingMissed` | `Spec => []NoDuplicate`, `Spec => []NoLoss` |
| `TopicsNeverMove` | no step removes, renames or hides a topic |
| `DeliveredInOrder` | with one activation, `Spec => []InOrder` |
| `RingsAreQueues` | `Spec => IsQueues`: the rings implement `MessageQueues` |

`NoDuplicate` and `NoLoss` speak of what has arrived, and are kept by a callback only because
of where the message was before: `MailInv` says that what waits in a ring was accepted for that
topic, in order and at one place only, `FramesInv` that what an activation passes on waits nowhere any more and
is in no other's hands, `GotInv` that what a subscriber has is not on its way to it again. `InOrder` needs that
what has arrived is older than what is on its way, and that older than what waits
(`OrderInv`); with two activations it is false, because the second may overtake the
first. The refinement is a simulation, one lemma for accepting, taking and clearing each; that a ring is the queue of its
`(head - tail) % QueueSize` messages after the tail rests on arithmetic on a circle
(`Circle`, `StretchGrows`, `StretchShrinks` in `CommonLemmas`).

### ContextSwitch

`ContextSwitchProofs`, for any number of tasks that wait anywhere:

| Theorem | States |
|---|---|
| `InductiveInvariant`, `TypeCorrect` | `Spec => []IndInv`, `Spec => []TypeOK` |
| `BuffersStayIntact` | `Spec => []BuffersIntact` |
| `SoftIsBalanced` | `Spec => []SoftBalanced` |
| `OnlyReturnsDo` | if tasks wait in their outermost functions (`WaitsOfMain`), as main.c's do, `Spec => OnlyReturnsGoAstray` |
| `EndlessTasksResume` | if moreover no task function ends, `Spec => []ResumesWhereItLeft` |

`ChainInv` relates the stack page and the buffers to the calls in progress:
whoever waits has saved its own calls, which end in `ctx_switch` and begin with its entry. It holds
even after the copier has gone astray, since that ends all. `SoftBalanced` counts the calls that keep
words as a finite set. `ResumesWhereItLeft` is false of the program as it is built (`CtxReturn`).
What is true of it, whether or not the compiler makes the jump, is that every wait, and every return that goes
on with a task that has yielded or is new, finds its task again. `DepthInv` gives the two depths of the stacks that wait
(five addresses in `scheduler_sleep`, four in `scheduler_yield`), which differ by one, and
that is what the copier stands (`AstrayStep`); a return is up to two shallower than a sleep.

### BTreeNode

`BTreeNodeProofs`, for every order, with anything below a node's children. `Gaps` is an in-order
walk of a node and its children as a set: for every place between two
entries, the entry before, the subtree there and the entry after. When keys are distinct it tells the
order of everything in and below the node.

| Theorem | States |
|---|---|
| `SplitKeepsWalk`, `MergeKeepsWalk`, `RefillKeepsWalk` | splitting a full child, merging two, and whatever is done before a deletion goes down keep `Gaps` and the node's shape; the deletion goes on with a child that has all that was below the one it was to go to |
| `SplitKeepsBounds` | even order: both halves of a split are just large enough, all children stay in bounds |
| `RefillLeavesRoom` | even order: the child the deletion goes on with can spare an entry, all children stay in bounds, the node loses one entry at most |
| `OddSplitUnderflows`, `OddMergeOverflows` | odd order: every split leaves a node one entry too small, and two smallest children do not fit into one node |
| `ScanFindsKey` | in a node with increasing keys the scan finds the key, or the child to look in |
| `LeafInsertKeepsOrder` | a new key goes to its place in a leaf |
| `ReinsertDuplicates` | one that is there, with two greater ones after it, leaves a key twice |
| `SplitHidesMedian` | an insertion of the key that a split moves up goes on into the half with smaller keys |

One notion carries these: `IsSplit(n, m, i, u)`, *m* is *n* with the child at *i* split at
its entry *u*. Merging is splitting read backwards (`MergeIs`), and borrowing is merging and
splitting one entry further on (`BorrowLeftIs`, `BorrowRightIs`), so that `SplitGaps`, which follows
the places of the walk, is needed once. `RefillKeepsWalk` and `RefillLeavesRoom` are about
the descent; with the entry taken from a child in place of the deleted one, which is wrong
in trees of height 3 (`TreeDeep`), they have nothing to do.

### BTree

`BTreeProofs`, for every order that btree.h allows, trees of every height, and memory short or not:

| Theorem | States |
|---|---|
| `InductiveInvariant` | `Spec => []Inv` |
| `BalancedHolds` | `Spec => []Balanced` |
| `NoLeakHolds` | `Spec => []NoLeak` |
| `StaysInsideHolds` | if builds of odd order do not delete, `Spec => []StaysInside` |
| `SortedHolds`, `IsMapHolds` | if no key is inserted that is in the tree, `Spec /\ []FromLeaves` implies `[]Sorted` and `IsMap` |
| `SortedWithoutDeletions`, `IsMapWithoutDeletions` | if moreover nothing is deleted, `Spec` does |
| `SortedOfFew`, `IsMapOfFew` | if instead few keys are used, at an even order, `Spec` does |

A tree in memory is said without recursion: `Tree(h, r, p)` labels each address with its distance
from the leaves, its parent and which child of it it is. Labels are unique, so no node
has two parents, and every node but the root `r` has one, which is what `NoLeak` comes to by an induction
over levels (`UnderAll`, `HeightIs`); `BlockInv` says that the block is allocated just when there is a root,
but while `btree_create` runs. `Splits(h, g, a, i, u, b)` is `IsSplit` for memories: *g* is *h*
with the *i*-th child of the node at *a* split at its entry *u*. As for nodes, merging is splitting read
backwards and borrowing is merging and splitting elsewhere, so the labels of the tree are followed once
in each direction (`SplitTree`, `MergeTree`), and `RewriteIs` carries the node operators, with the lemmas
of `BTreeNodeProofs`, over to addresses. `Inv` adds the sizes of all nodes and what holds at the node a call
has come to: an insertion has room there, a deletion has an entry to spare, unless it is the root. That is what
splitting and refilling on the way down are for, and why nothing is written outside a node
(`EvenFits`: at an even order refilling always finds room).

The search order and the map are not true of all calls, and the provisos are what the two errors
leave of them. `~b.reinsert`: `node_insert_non_full` shifts the entries of a leaf before it knows
that the key is new (`TreeReinsert`). `FromLeaves`: the entry that replaces a deleted one is the
last or first of a *child*, and no neighbour of it unless the child is a leaf (`TreeDeep`).
`FromLeaves` is about the steps of a deletion at an internal node alone; it holds where nothing is
deleted, as in the application, which stores an item only after a `btree_get` that misses, so that
by the theorems `...WithoutDeletions` its tree is proved to be a map. It holds too in trees of an
even order that are used with fewer than `LeastDeep` keys (`Few`), 54 for the order 10 that is built
and 9 for order 4: for a deletion to meet a child that is no leaf and has an entry to spare the tree
must have three levels, and `ManyKeys` counts the entries they have at the least. The runs of
`TreeOrders` that delete are such (10 and 8 keys at the most); `TreeDeep` needs 10 at order 4.

`Sorted` is not inductive: it speaks of all keys below a child, which no step sees, it is false
while an entry is removed, and it does not say that a search has come to the right node. `OrderInv`
does. `Labels` gives every node a range of keys, which goes down the tree as `Tree`'s labels do: the
child between two entries has the range between their keys (`Between`). `Ascends` says that in the
leaves keys increase from one end of the range to the other, and as every other entry bounds the
range of a leaf, that orders all of them (`Orders`, `Unique`, `InvSorted`). A split, a merge and a
borrowed entry only move the ends of ranges (`LastUp`, `RemoveGaps` and others of `BTreeNodeProofs`,
and the `Order...` lemmas, one for each action). `Sought` says that the key of a call is in the
range of the node it has come to, so that at a leaf the key is there or nowhere (`ScanShows`);
`Told` what is known of the key by then, so that an insertion goes on only with a key that is not
stored and the second search of a deletion finds nothing. For the steps between the replacement of
an entry and the removal of the one that has replaced it, which is in the tree twice, `OrderInv`
speaks of the tree that will be (`Cleared`, `Twice`).

For `IsMap` every step is mapped to one of `Dictionary` or to none (`StepsOfMap`). What is found
under a key is a `CHOOSE` among the stored entries, so that the lemmas need `Single`, that a key is
stored once, of the state before the step, and what each step does to the set of entries, which the
`Order...` lemmas conclude along with the invariant.

### Program

`ProgramProofs`, for every build and all pauses the conditions allow:

| Theorem | States |
|---|---|
| `ProgramDoesTheWork` | `ProgramSpec => W!Spec`: `ImplementsWorkQueue` without its fairness |
| `ProgramIsScheduled` | `ProgramSpec => UsageSpec`, so that the theorems above hold here |
| `StampsAreFaithful` | differences of 16-bit stamps are the times between the events, short of a range |
| `TimesRight` | while no two successive events are a range apart (`InRange`), `TimesAreRight`, in runs of any length |
| `ShortRunsAreTimed` | if `MaxElapsed < TickMod`, `ProgramSpec => []TimesAreRight` |
| `ProgramTypeCorrect` | `ProgramSpec => []ProgramTypeOK` |
| `EndIsClean` | if `Patient`, `NoWrap` and `N <= Half`, `ProgramSpec => []CleanExit` |
| `TopicsHaveRoom` | if also `Paced`, `ProgramSpec => []BacklogBounded` |
| `ClockIsTrusted` | in runs of 2005 ticks or more, short of a range, with a system clock of 100 a second, `ClockTrusted`: at every rate from 200 to 500 ticks a second |

The proofs reuse the invariants of the parts (`Parts`). `StampInv` relates each stamp to the moment
it was taken. `CourseInv` is the timetable: `SlotsInv` says who is in which slot, `TimelyInv` that
a task is late by as many ticks as it has been passed over, which a round of the slots
bounds, `EndInv` that while cleanup takes its last pause everybody else is to wake more than a round before it does.
`QueueInv` accounts for what waits in a topic: each message is the work of a round of a producer
that it could have taken since the monitor's last one (`Accounted`), and there are
few of these (`Span`).

The conditions are those under which main.c's constants work, as a change to them
could break: `Patient`, cleanup's last pause exceeds every other by more than the table's
length (500 > 200 + 15); `NoWrap`, the counter does not reach its end in it (14500 + 500 < 65536), needed
because a pause that ends at tick 0 is none; `Paced`, the monitor's pause is a multiple of a
producer's but for ticks that make up for no other round (0 + 4 + 2 < 10), and what
it lets through fits into a topic (4 * 6 = 24 < 63). `Program.cfg` satisfies all of them.

### Model-checked only

Liveness (`NoStarvation`, `EventuallyTaken`, `Halts`, and the fairness in
`ImplementsWorkQueue`), which the prover does not reach. `ClockTrusted` for runs of less than 2005 ticks,
where it is false in general: 2004 ticks at 500 a second are 400 hundredths, which the summary
makes 501 ticks a second of and blames on the clock.

## 6. Not modelled

`one_shot`, which nothing reads; registers and processor flags, which cc65 code does
not expect to survive calls; the contents of the compiler's stack, of which
only the depth is; what a tree is after an entry has been written behind a node, as at odd orders; printing; test
data, the rates of the summary and console output; subscriber identifiers kept by
callers; callbacks that publish for ever; a callback's own logic beyond what it may call; `itoa_new`, whose only
caller nothing calls; the hello-world `main.s`, the vectors and the host tools.

## 7. Plan

Done: `Scheduler` and `CpuUsage`; `ContextSwitch`; `PubSub` over `MessageQueues`; `BTree`,
with its node operations apart, over `Dictionary`; `WorkQueue` and `Program` over it; and proofs of
the safety of each, with the refinements.

Next, models: stale subscriber identifiers held by callers, and callbacks that publish
without end.
