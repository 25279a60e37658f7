------------------------------ MODULE Scheduler ------------------------------
(***************************************************************************)
(* The cooperative scheduler of src/src/scheduler.c: a table of N task     *)
(* slots scanned round robin, a tick counter that advances once per yield  *)
(* and wraps, sleeping by wake tick, and removal of a task by another task *)
(* or by its own return.                                                   *)
(*                                                                         *)
(* One action per API function.  A call of scheduler_yield, scheduler_sleep*)
(* or scheduler_task_return runs until the next task has the processor, so *)
(* it is one action; between two such calls the running code may call      *)
(* scheduler_add and scheduler_remove as often as it likes.  What the      *)
(* tasks compute is left out: Calls says which functions they call.        *)
(***************************************************************************)
EXTENDS Integers, FiniteSets

CONSTANTS
    N,        \* SCHED_MAX_TASKS
    Half,     \* half of the tick counter's range: 0x8000 in the code
    Fns,      \* which task functions main() may register: workers, the idle task
    KeepsIdle,\* main() registers the idle task, and nobody removes it or marks another
    Calls,    \* the scheduler functions that worker tasks call
    Deltas    \* the durations they pass to scheduler_sleep

ASSUME NAssumption == N \in Nat \ {0}
ASSUME HalfAssumption == Half \in Nat \ {0}
ASSUME FnsAssumption == Fns \subseteq {"worker", "idle"}
ASSUME KeepsIdleAssumption ==
    KeepsIdle \in BOOLEAN
        /\ (KeepsIdle => "idle" \in Fns /\ Calls \cap {"removeIdle", "setAny"} = {})
ASSUME DeltasAssumption == Deltas \subseteq 0 .. Half

Slots   == 0 .. N - 1
TickMod == 2 * Half
Ticks   == 0 .. TickMod - 1
NoTask  == -1

VARIABLES
    fn,        \* fn[i]: what tasks[i].fn points at
    inUse,     \* inUse[i]: tasks[i].in_use
    started,   \* started[i]: tasks[i].started, set by ctx_switch
    wakeTick,  \* wakeTick[i]: tasks[i].wake_tick
    ticks,     \* the tick counter
    current,   \* the slot of the running task, NoTask in main()
    idleTask,  \* idle_task_id
    running,   \* whose code has the processor
    orphan,    \* history: the running code called scheduler_remove on its slot
    entered,   \* history: how often fn was entered since scheduler_add
    left,      \* history: ticks of the requested sleep not yet elapsed
    waited     \* history: switches in a row that passed the runnable task over

table   == <<fn, inUse, started, wakeTick>>
history == <<orphan, entered, left, waited>>
vars    == <<fn, inUse, started, wakeTick, ticks, current, idleTask, running,
             orphan, entered, left, waited>>

TypeOK ==
    /\ fn \in [Slots -> {"none", "worker", "idle"}]
    /\ inUse \in [Slots -> BOOLEAN]
    /\ started \in [Slots -> BOOLEAN]
    /\ wakeTick \in [Slots -> Ticks]
    /\ ticks \in Ticks
    /\ current \in Slots \cup {NoTask}
    /\ idleTask \in Slots \cup {NoTask}
    /\ running \in {"main", "worker", "idle", "exited", "lost"}
    /\ orphan \in BOOLEAN
    /\ entered \in [Slots -> Nat]
    /\ left \in [Slots -> 0 .. Half]
    /\ waited \in [Slots -> Nat]

-----------------------------------------------------------------------------
(* find_next_task *)

\* Is a task whose wake_tick is w runnable at tick t?  Zero stands for "not
\* sleeping"; the half-range test makes the comparison survive a wrap.
DueEarly(t, w) == w = 0 \/ (t + 1 - w) % TickMod < Half
DueExact(t, w) == w = 0 \/ t = w
Due(t, w)      == w = 0 \/ (t - w) % TickMod < Half

Ready(use, wake, t) == {i \in Slots : use[i] /\ Due(t, wake[i])}

\* How many places after `from` the circular scan reaches i: 1 .. N.
Dist(from, i) == IF i > from THEN i - from ELSE i - from + N

\* The first member of S the scan meets.
FirstAfter(from, S) == IF S = {} THEN NoTask
                       ELSE CHOOSE i \in S : \A j \in S : Dist(from, i) <= Dist(from, j)

\* Non-idle tasks first.  When no such task is ready, `ready` holds the idle
\* task at most, and the second and third scans come to the same.
FindNoIdle(from, ready)   == FirstAfter(from, ready \ {idleTask})
FindFromZero(from, ready) ==
    IF ready \ {idleTask} # {} THEN FirstAfter(NoTask, ready \ {idleTask})
                               ELSE FirstAfter(NoTask, ready)
FindNext(from, ready) ==
    IF ready \ {idleTask} # {} THEN FirstAfter(from, ready \ {idleTask})
                               ELSE FirstAfter(from, ready)

-----------------------------------------------------------------------------
(* scheduler_yield and the functions that end in it *)

\* ctx_switch hands the processor to `next`: it resumes, or enters fn.
SwitchTo(next) ==
    /\ current' = next
    /\ running' = fn[next]
    /\ orphan' = FALSE
    /\ started' = [started EXCEPT ![next] = TRUE]
    /\ entered' = [entered EXCEPT ![next] = IF started[next] THEN @ ELSE @ + 1]

\* scheduler_yield, called with in_use = use and wake_tick = wake.  `stay` is
\* whose code goes on when there is no task to switch to; slept is left after
\* the caller's request and before this tick.
Reschedule(use, wake, slept, stay) ==
    LET t     == (ticks + 1) % TickMod
        ready == Ready(use, wake, t)
        next  == FindNext(current, ready)
    IN  /\ ticks' = t
        /\ inUse' = use
        /\ wakeTick' = wake
        /\ left' = [i \in Slots |-> IF slept[i] > 0 THEN slept[i] - 1 ELSE 0]
        /\ waited' = [i \in Slots |->
                        IF i \in ready \ {idleTask, next} THEN waited[i] + 1 ELSE 0]
        /\ IF next = NoTask
             THEN running' = stay /\ UNCHANGED <<current, started, orphan, entered>>
             ELSE SwitchTo(next)
        /\ UNCHANGED <<fn, idleTask>>

\* The idle task's loop does nothing but yield (main.c:81).
Yield ==
    /\ \/ running = "idle"
       \/ running = "worker" /\ "yield" \in Calls
    /\ Reschedule(inUse, wakeTick, left, running)

\* scheduler_sleep; what the request means for the orphan's own slot is not
\* recorded, because the sleeper is no longer the task in it.
SleepUnwrapped(d) ==
    /\ running = "worker" /\ "sleep" \in Calls
    /\ Reschedule(inUse, [wakeTick EXCEPT ![current] = ticks + d],
                  IF orphan THEN left ELSE [left EXCEPT ![current] = d], running)
Sleep(d) ==
    LET delta == IF d = 0 THEN 1 ELSE d
    IN  /\ running = "worker" /\ "sleep" \in Calls
        /\ Reschedule(inUse, [wakeTick EXCEPT ![current] = (ticks + delta) % TickMod],
                      IF orphan THEN left ELSE [left EXCEPT ![current] = delta],
                      running)

\* scheduler_task_return: when scheduler_yield comes back, start_task returns
\* into the trampoline, whose RTS finds no caller.
TaskReturn ==
    /\ running = "worker" /\ "return" \in Calls
    /\ Reschedule([inUse EXCEPT ![current] = FALSE], wakeTick, left, "lost")

-----------------------------------------------------------------------------
(* The functions that change the table only *)

\* scheduler_add takes the lowest free slot; it returns -1 when there is none.
\* Tasks add workers; main() adds the idle task too, once, and
\* keeps a slot for it (main.c:630-639).
FreeSlot(i) == i \in Slots /\ ~inUse[i] /\ \A j \in Slots : j < i => inUse[j]
HasIdle == \E i \in Slots : inUse[i] /\ fn[i] = "idle"
MayAdd(f) ==
    \/ /\ running = "main" /\ f \in Fns
       /\ IF f = "idle" THEN ~HasIdle
          ELSE KeepsIdle /\ ~HasIdle => Cardinality({i \in Slots : ~inUse[i]}) > 1
    \/ running = "worker" /\ "add" \in Calls /\ f = "worker"
AddKeepsStarted(f) ==
    /\ MayAdd(f)
    /\ \E i \in Slots :
          /\ FreeSlot(i)
          /\ fn' = [fn EXCEPT ![i] = f]
          /\ inUse' = [inUse EXCEPT ![i] = TRUE]
          /\ wakeTick' = [wakeTick EXCEPT ![i] = 0]
          /\ entered' = [entered EXCEPT ![i] = 0]
          /\ left' = [left EXCEPT ![i] = 0]
          /\ waited' = [waited EXCEPT ![i] = 0]
    /\ UNCHANGED <<started, ticks, current, idleTask, running, orphan>>
Add(f) ==
    /\ MayAdd(f)
    /\ \E i \in Slots :
          /\ FreeSlot(i)
          /\ fn' = [fn EXCEPT ![i] = f]
          /\ inUse' = [inUse EXCEPT ![i] = TRUE]
          /\ started' = [started EXCEPT ![i] = FALSE]
          /\ wakeTick' = [wakeTick EXCEPT ![i] = 0]
          /\ entered' = [entered EXCEPT ![i] = 0]
          /\ left' = [left EXCEPT ![i] = 0]
          /\ waited' = [waited EXCEPT ![i] = 0]
    /\ UNCHANGED <<ticks, current, idleTask, running, orphan>>

\* scheduler_remove.  wake_tick and idle_task_id stay as they are.
MayRemove(id) ==
    /\ running = "worker" /\ inUse[id]
    /\ IF id = current THEN "removeSelf" \in Calls
       ELSE (IF fn[id] = "idle" THEN "removeIdle" ELSE "remove") \in Calls
Remove(id) ==
    /\ MayRemove(id)
    /\ inUse' = [inUse EXCEPT ![id] = FALSE]
    /\ fn' = [fn EXCEPT ![id] = "none"]
    /\ started' = [started EXCEPT ![id] = FALSE]
    /\ orphan' = (orphan \/ id = current)
    /\ entered' = [entered EXCEPT ![id] = 0]
    /\ left' = [left EXCEPT ![id] = 0]
    /\ waited' = [waited EXCEPT ![id] = 0]
    /\ UNCHANGED <<wakeTick, ticks, current, idleTask, running>>

\* scheduler_set_idle_task: "setIdle" if main() calls it on its idle task,
\* "setAny" if main() and the workers call it with whatever id, also of a free
\* slot or none (any number outside the table).
MaySetIdle(id) ==
    \/ running = "main" /\ "setIdle" \in Calls /\ id # NoTask /\ inUse[id] /\ fn[id] = "idle"
    \/ running \in {"main", "worker"} /\ "setAny" \in Calls
SetIdle(id) ==
    /\ MaySetIdle(id) /\ idleTask # id
    /\ idleTask' = id
    /\ UNCHANGED <<table, ticks, current, running, history>>

\* scheduler_run: main() has registered the idle task if it has one
\* (main.c:639).  Nothing to run: it returns, and so does main(); "exited" and
\* "lost" are the ends of a behaviour.
Run ==
    /\ running = "main"
    /\ (KeepsIdle => HasIdle)
    /\ LET first == FindNext(NoTask, Ready(inUse, wakeTick, ticks))
       IN  IF first = NoTask
             THEN running' = "exited" /\ UNCHANGED <<current, started, orphan, entered>>
             ELSE SwitchTo(first)
    /\ UNCHANGED <<fn, inUse, wakeTick, ticks, idleTask, left, waited>>

-----------------------------------------------------------------------------
Init ==
    /\ fn = [i \in Slots |-> "none"]
    /\ inUse = [i \in Slots |-> FALSE]
    /\ started = [i \in Slots |-> FALSE]
    /\ wakeTick = [i \in Slots |-> 0]
    /\ ticks = 0
    /\ current = NoTask
    /\ idleTask = NoTask
    /\ running = "main"
    /\ orphan = FALSE
    /\ entered = [i \in Slots |-> 0]
    /\ left = [i \in Slots |-> 0]
    /\ waited = [i \in Slots |-> 0]

\* A call that ends with the processor given away, if anyone can take it.
GiveUp == Yield \/ (\E d \in Deltas : Sleep(d)) \/ TaskReturn

Next ==
    \/ \E f \in Fns : Add(f)
    \/ \E id \in Slots : Remove(id)
    \/ \E id \in Slots \cup {NoTask} : SetIdle(id)
    \/ Run
    \/ Yield
    \/ \E d \in Deltas : Sleep(d)
    \/ TaskReturn

Spec == Init /\ [][Next]_vars

\* Tasks are cooperative: the running one gives the processor up in the end,
\* and main() registers the idle task and gets to scheduler_run.
FairSpec == Spec /\ WF_vars(Add("idle")) /\ WF_vars(Run) /\ WF_vars(GiveUp)

-----------------------------------------------------------------------------
(* Properties *)

\* Round robin is fair: a runnable task other than the idle one is passed
\* over by fewer than N switches in a row (find_next_task's scan from
\* current + 1), whatever is added, removed or sleeping meanwhile.
BoundedWait == \A i \in Slots : inUse[i] => waited[i] < N

\* scheduler_add gives a slot a life of its own: the function registered last
\* is entered at its first switch and at no later one, though the slot's
\* earlier occupant may have been started and left it at any point.
EnteredOnce ==
    \A i \in Slots : inUse[i] => entered[i] = IF started[i] THEN 1 ELSE 0

\* The requested sleep and the wake tick agree across the counter's wrap.
SleepMatches ==
    \A i \in Slots : inUse[i] /\ left[i] > 0 => (ticks + left[i]) % TickMod = wakeTick[i]

\* A worker gets out of scheduler_sleep early only when its wake tick is 0,
\* the value find_next_task takes for "not sleeping".
EarlyOnlyAtTickZero ==
    [][ticks' # ticks /\ running' = "worker" /\ ~orphan'
          => left'[current'] = 0 \/ wakeTick'[current'] = 0]_vars

\* A task in the table that is due stays due until it is given the processor:
\* the half-range comparison never takes an old wake tick for a future one.
DueStaysDue ==
    [][\A i \in Slots :
          /\ ticks' # ticks /\ i # current /\ i # current'
          /\ inUse[i] /\ inUse'[i] /\ Due(ticks, wakeTick[i])
          => Due(ticks', wakeTick'[i])]_vars

\* scheduler_task_return never comes back ("will not return here").
NeverLost == running # "lost"

\* No starvation: a worker in the table gets the processor or is removed.
NoStarvation ==
    \A i \in Slots : (inUse[i] /\ fn[i] = "worker") ~> (current = i \/ ~inUse[i])

-----------------------------------------------------------------------------
(* The inductive invariant behind the first three: what the scan has left to *)
(* do bounds the wait, and the control state fits the table.                 *)

WaitInv == \A i \in Slots : waited[i] + Dist(current, i) <= N

ControlInv ==
    /\ running \in {"worker", "idle"} => current \in Slots
    /\ running = "main" => current = NoTask /\ \A i \in Slots : waited[i] = 0
    /\ \A i \in Slots : inUse[i] => fn[i] \in {"worker", "idle"}
    /\ current \in Slots => (orphan /\ inUse[current] => left[current] = 0)

\* The whole of it, preserved by every action.
IndInv == TypeOK /\ WaitInv /\ ControlInv /\ EnteredOnce /\ SleepMatches

\* Where main() registers an idle task for good, it stays in the table and runnable:
\* the task that runs as a worker never occupies its slot.
IdleInv ==
    KeepsIdle =>
        /\ running \notin {"exited", "lost"}
        /\ running # "main" => HasIdle
        /\ \A i \in Slots : inUse[i] /\ fn[i] = "idle" => wakeTick[i] = 0
        /\ running = "worker" /\ inUse[current] => fn[current] = "worker"

=============================================================================
