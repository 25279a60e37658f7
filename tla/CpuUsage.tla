------------------------------ MODULE CpuUsage ------------------------------
(***************************************************************************)
(* CPU accounting in scheduler_yield: how many ticks there have been, how  *)
(* many of them switched to a task other than the idle one, and the        *)
(* percentage scheduler_cpu_usage_percent makes of the two.  The counters  *)
(* are as wide as the code's unsigned long, and so is the product it       *)
(* divides.  The counters follow Scheduler, which does not read them.      *)
(***************************************************************************)
EXTENDS Scheduler

CONSTANTS
    CounterMod,   \* 2^32: the range of cpu_active_ticks and cpu_total_ticks
    MaxElapsed    \* bound: how many ticks a behaviour has

ASSUME CounterAssumption == CounterMod \in Nat /\ CounterMod > 100
ASSUME ElapsedAssumption == MaxElapsed \in Nat

VARIABLES
    cpuTotal,   \* cpu_total_ticks
    cpuActive,  \* cpu_active_ticks
    elapsed,    \* history: the ticks there have been
    busy,       \* history: those after which a worker had the processor
    steady      \* history: idle_task_id is what it was before the first tick

usage     == <<cpuTotal, cpuActive, elapsed, busy>>
usageVars == <<vars, usage, steady>>

-----------------------------------------------------------------------------
\* Does a tick that switches to `next` count as active?
CountsIdle(next)   == next # NoTask
CountsActive(next) == next \notin {NoTask, idleTask}

\* The lines of scheduler_yield that Scheduler leaves out, with the task that
\* find_next_task has found in the table as it is after the call.
Account ==
    /\ steady' = (steady /\ (idleTask' = idleTask \/ elapsed = 0))
    /\ IF ticks' = ticks THEN UNCHANGED usage
       ELSE LET next == FindNext(current, Ready(inUse', wakeTick', ticks'))
            IN  /\ elapsed < MaxElapsed
                /\ cpuTotal' = (cpuTotal + 1) % CounterMod
                /\ cpuActive' = IF CountsActive(next) THEN (cpuActive + 1) % CounterMod
                                                      ELSE cpuActive
                /\ elapsed' = elapsed + 1
                /\ busy' = IF running' = "worker" THEN busy + 1 ELSE busy

\* main() has returned, or the processor runs on from a return address that
\* nobody pushed; or the bound on ticks is reached.
Stopped ==
    /\ running \in {"exited", "lost"} \/ elapsed = MaxElapsed
    /\ UNCHANGED usageVars

UsageInit == Init /\ cpuTotal = 0 /\ cpuActive = 0 /\ elapsed = 0 /\ busy = 0 /\ steady = TRUE
UsageNext == (Next /\ Account) \/ Stopped
UsageSpec == UsageInit /\ [][UsageNext]_usageVars

\* scheduler_cpu_usage_percent.
Percent ==
    IF cpuTotal = 0 THEN 0
    ELSE LET pct == ((cpuActive * 100) % CounterMod) \div cpuTotal
         IN  IF pct > 100 THEN 100 ELSE pct

-----------------------------------------------------------------------------
(* Properties *)

\* The idle task is in the table.  Has main() told the scheduler which it is?
Marked   == \E i \in Slots : inUse[i] /\ fn[i] = "idle" /\ idleTask = i
Unmarked == HasIdle /\ idleTask = NoTask

\* Until the 32-bit product overflows (scheduler.c:294) the percentage says how
\* much of the time a worker had the processor, if the idle task is marked
\* as such; if main() does not mark it (main.c:639), it is 100 from the
\* first tick on, whatever the tasks do.  What it says after the mark has been
\* moved during the run is nothing one could give a name.
PercentIsRight ==
    0 < elapsed /\ elapsed * 100 < CounterMod /\ steady =>
        /\ Marked   => Percent = (busy * 100) \div elapsed
        /\ Unmarked => Percent = 100

=============================================================================
