------------------------------- MODULE Program -------------------------------
(***************************************************************************)
(* The program as main() starts it: the tasks of WorkQueue in the slots of *)
(* Scheduler's table, each step of a task ending in the scheduler's call   *)
(* that the code makes there, with the pause the code asks for.            *)
(*                                                                         *)
(* What WorkQueue takes for granted, that no task is starved, is here a    *)
(* consequence of the ticks; and how many messages wait, and when things   *)
(* happened according to the 16-bit time stamps, can be told.              *)
(***************************************************************************)
EXTENDS CpuUsage, Report, Sequences

CONSTANTS
    Configs, Capacity,   \* as in WorkQueue
    MonitorPause,   \* how long the monitor sleeps between two rounds
    ProducePause,   \* a producer, after taking or publishing an item
    RetryPause,     \* a producer whose topic was full again
    PoolPause,      \* a producer that found the pool empty
    WaitPause,      \* the validator, while items are missing
    CheckPause,     \* the validator, between two items
    LeavePause,     \* the validator, before it returns
    PollPause,      \* cleanup, before the validation is complete
    HaltPause       \* cleanup, after it

ASSUME PauseAssumption ==
    {MonitorPause, ProducePause, RetryPause, PoolPause, WaitPause,
     CheckPause, LeavePause, PollPause, HaltPause} \subseteq Deltas
ASSUME BuildsAssumption ==
    /\ Configs \subseteq [producers : Nat \ {0}, consumers : Nat \ {0}, items : Nat \ {0}]
    /\ Capacity \in Nat \ {0}

\* main() registers the tasks and, last, an idle task (main.c:639); the tasks
\* call no function of the scheduler but scheduler_sleep, and return.
ASSUME MainAssumption ==
    Fns = {"worker", "idle"} /\ KeepsIdle /\ Calls = {"sleep", "return"}

VARIABLES config, producerIndex, pending, queue, tree, stored, lost, thrown, produced,
          consumed, phase, index, passed, failed, complete, task   \* as in WorkQueue

VARIABLES
    timeFirstProduced, timeAllProduced, timeAllConsumed, timeValidated,
               \* the time stamps, NoTime before they are recorded
    since      \* history: the value of elapsed when each event happened

W == INSTANCE WorkQueue WITH CreateMayFail <- FALSE, InsertMayFail <- FALSE

app    == <<config, producerIndex, pending, queue, tree, stored, lost, thrown, produced,
            consumed, phase, index, passed, failed, complete, task>>
stamps == <<timeFirstProduced, timeAllProduced, timeAllConsumed, timeValidated, since>>
programVars == <<usageVars, app, stamps>>

NoTime == -1
Events == {"first", "produced", "consumed", "validated"}

\* The slots main() fills, in this order.
MonitorSlot     == 0
ProducerSlot(p) == p
ValidatorSlot   == W!NumProducers + 1
CleanupSlot     == W!NumProducers + 2
IdleSlot        == W!NumProducers + 3

ProgramTypeOK ==
    /\ TypeOK /\ W!TypeOK
    /\ {timeFirstProduced, timeAllProduced, timeAllConsumed, timeValidated}
           \subseteq Ticks \cup {NoTime}
    /\ since \in [Events -> -1 .. MaxElapsed]

-----------------------------------------------------------------------------
\* What happens in a step of the application.
Happens == {e \in Events :
    CASE e = "first"     -> produced' > produced
      [] e = "produced"  -> produced' >= W!ItemCount
      [] e = "consumed"  -> consumed' >= W!ItemCount
      [] e = "validated" -> complete'}

\* A time stamp is the tick counter when its event first happens.
Restamped(time, now) == IF now THEN ticks ELSE time
Stamped(time, now)   == IF time = NoTime /\ now THEN ticks ELSE time

\* What the summary makes of two of them: unsigned ints, subtracted as such.
Difference(to, from) == (to - from) % TickMod

Record ==
    /\ timeFirstProduced' = Stamped(timeFirstProduced, "first" \in Happens)
    /\ timeAllProduced'   = Stamped(timeAllProduced, "produced" \in Happens)
    /\ timeAllConsumed'   = Stamped(timeAllConsumed, "consumed" \in Happens)
    /\ timeValidated'     = Stamped(timeValidated, "validated" \in Happens)
    /\ since' = [e \in Events |-> IF since[e] = NoTime /\ e \in Happens THEN elapsed ELSE since[e]]

\* What a task does between two calls of the scheduler, and the second call.
Step(work, call) == work /\ Record /\ call /\ Account
Nothing == UNCHANGED app

\* main(): registers the tasks, and starts the scheduler.
Registered == Cardinality({i \in Slots : inUse[i]})
Boot ==
    /\ \/ Registered < IdleSlot /\ Add("worker")
       \/ Registered = IdleSlot /\ Add("idle")
       \/ HasIdle /\ Run
    /\ Account /\ Nothing /\ UNCHANGED stamps

-----------------------------------------------------------------------------
(* The tasks *)

MonitorOnce == current = MonitorSlot /\ Step(W!MonitorRound, TaskReturn)
Monitor ==
    /\ current = MonitorSlot
    /\ \/ complete  /\ Step(W!MonitorRound, TaskReturn)
       \/ ~complete /\ Step(W!MonitorRound, Sleep(MonitorPause))

\* Does the producer try an item again, and find the topic still full?
Retried(p) ==
    pending[p] # W!NoItem /\ Len(queue[pending[p] % W!NumConsumers]) = Capacity
Producer(p) ==
    /\ p \in W!Producers /\ current = ProducerSlot(p)
    /\ \/ complete /\ Step(Nothing, TaskReturn)
       \/ /\ ~complete /\ W!Candidate(p) = W!NoItem
          /\ Step(Nothing, Sleep(PoolPause))
       \/ /\ Retried(p)
          /\ Step(W!ProducerRound(p), Sleep(RetryPause))
       \/ /\ ~Retried(p)
          /\ Step(W!ProducerRound(p), Sleep(ProducePause))

ValidatorOnce ==
    /\ current = ValidatorSlot
    /\ \/ phase = 0 /\ ~W!Consumption /\ Step(Nothing, TaskReturn)
       \/ Step(W!ValidatorStart \/ W!ValidatorRound, Sleep(CheckPause))
       \/ Step(W!ValidatorComplete, Sleep(LeavePause))
       \/ Step(W!ValidatorReturn, TaskReturn)

\* The validator goes from its last item to the summary in one stretch.
Validator ==
    /\ current = ValidatorSlot
    /\ \/ phase = 0 /\ ~W!Consumption /\ Step(Nothing, Sleep(WaitPause))
       \/ Step(W!ValidatorStart \/ W!ValidatorRound, Sleep(CheckPause))
       \/ Step(W!ValidatorComplete, Sleep(LeavePause))
       \/ Step(W!ValidatorReturn, TaskReturn)

CleanupImpatient ==
    /\ current = CleanupSlot
    /\ \/ ~complete /\ Step(Nothing, Sleep(PollPause))
       \/ Step(W!CleanupLeave, Sleep(ProducePause))
       \/ W!CleanupHalt /\ UNCHANGED <<usageVars, stamps>>
Cleanup ==
    /\ current = CleanupSlot
    /\ \/ ~complete /\ Step(Nothing, Sleep(PollPause))
       \/ Step(W!CleanupLeave, Sleep(HaltPause))
       \/ W!CleanupHalt /\ UNCHANGED <<usageVars, stamps>>

Idle == current = IdleSlot /\ Step(Nothing, Yield)

Halted == (W!Halted \/ elapsed = MaxElapsed) /\ UNCHANGED programVars

-----------------------------------------------------------------------------
ProgramInit ==
    /\ UsageInit /\ W!Init
    /\ timeFirstProduced = NoTime /\ timeAllProduced = NoTime
    /\ timeAllConsumed = NoTime /\ timeValidated = NoTime
    /\ since = [e \in Events |-> NoTime]

ProgramNext ==
    \/ Boot
    \/ Monitor
    \/ \E p \in W!AnyProducer : Producer(p)
    \/ Validator
    \/ Cleanup
    \/ Idle
    \/ Halted

\* The processor goes on as long as there is something to execute.
ProgramSpec == ProgramInit /\ [][ProgramNext]_programVars /\ WF_programVars(ProgramNext)

-----------------------------------------------------------------------------
(* Properties *)

\* The scheduler's ticks give the tasks the fairness WorkQueue assumes: every
\* producer, the monitor, the validator and cleanup take their rounds.
ImplementsWorkQueue == W!FairSpec

\* The monitor comes round before a topic is full (its pause is "reduced", it
\* says at main.c:559, "to ensure frequent message processing"): what the
\* producers publish between two of its rounds is bounded by the ratio of the
\* pauses, and no producer ever has to keep an item.
BacklogBounded ==
    /\ \A c \in W!Consumers :
          Len(queue[c]) <= W!NumProducers * (MonitorPause \div ProducePause + 1)
    /\ \A p \in W!Producers : pending[p] = W!NoItem

\* The differences of 16-bit stamps that the summary prints are the ticks that
\* have passed, wherever the counter wraps between them: no two events it
\* reports lie a whole range of the counter apart, and they come in the order in
\* which it subtracts them.  So is the time since the start, if the counter has
\* not wrapped by the end.
Between(from, to, fromTime, toTime) ==
    toTime # NoTime =>
        fromTime # NoTime /\ Difference(toTime, fromTime) = since[to] - since[from]
TimesAreRight ==
    /\ Between("first", "produced", timeFirstProduced, timeAllProduced)
    /\ Between("produced", "consumed", timeAllProduced, timeAllConsumed)
    /\ Between("consumed", "validated", timeAllConsumed, timeValidated)
    /\ timeValidated # NoTime /\ since["validated"] < TickMod => timeValidated = since["validated"]

\* A "well-tuned scheduler" makes 200 to 500 ticks in a second (main.c:454).
\* Whichever of these it makes, the summary gives the time that has passed and
\* does not blame the system clock, for runs of less than 2^16 milliseconds.
TunedRates   == 200 .. 500
Clocks(rate) == (since["validated"] * ClocksPerSec) \div rate
MsAt(rate)   == (Clocks(rate) * 1000) \div ClocksPerSec
Blames(rate) == Miscalibrated(Clocks(rate), timeValidated)
ClockTrusted ==
    timeValidated # NoTime =>
        \A rate \in TunedRates : MsAt(rate) < WordMod =>
            Milliseconds(Clocks(rate)) = MsAt(rate) /\ ~Blames(rate)

\* "All tests finished" (main.c:513): when cleanup halts the machine its last
\* pause has been long enough for every task that ends to have returned.
CleanExit ==
    task["cleanup"] = "halted" =>
        /\ task["monitor"] = "returned" /\ task["validator"] = "returned"
        /\ \A i \in Slots \ {CleanupSlot, IdleSlot} : ~inUse[i]

=============================================================================
