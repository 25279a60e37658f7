---------------------------- MODULE MCScheduler ----------------------------
(* Instances of Scheduler for TLC: which functions the workers call.        *)
EXTENDS Scheduler

\* All durations up to 3 ticks of a counter that wraps after 8.
MCDeltas == 0 .. 3

WorkersAndIdle == {"worker", "idle"}

\* main.c's tasks only sleep, and return; the rest of the interface is the
\* scheduler's own.
SleepCalls == {"add", "remove", "sleep", "return", "setIdle"}
YieldCalls == {"add", "remove", "yield", "sleep", "return", "setIdle"}

\* An idle task that main() marks and a worker removes, and workers that never
\* sleep.  In SchedSleepers, without KeepsIdle, they starve the worker that
\* gets the idle task's slot.
StaleIdleCalls == {"add", "removeIdle", "yield", "setIdle"}
=============================================================================
