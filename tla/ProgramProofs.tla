---------------------------- MODULE ProgramProofs ----------------------------
(***************************************************************************)
(* Theorems about Program: what is proved of its parts holds of the whole, *)
(* and what only the whole has, that its time stamps are right and that it *)
(* ends with every task returned.                                          *)
(***************************************************************************)
EXTENDS Program, SchedulerProofs, FiniteSetTheorems

WP == INSTANCE WorkQueueProofs WITH CreateMayFail <- FALSE, InsertMayFail <- FALSE

-----------------------------------------------------------------------------
(* Every step of the program is a step of the application, and one of the    *)
(* scheduler with its accounting                                             *)

LEMMA StepOfWorkQueue == [ProgramNext]_programVars => [W!Next]_W!vars
<1> SUFFICES ASSUME [ProgramNext]_programVars PROVE [W!Next]_W!vars
  OBVIOUS
<1>0. UNCHANGED app => UNCHANGED W!vars
  BY DEF app, W!vars
<1>1. CASE Boot
  BY <1>0, <1>1 DEF Boot, Nothing
<1>2. CASE Monitor
  BY <1>2 DEF Monitor, Step, W!Next
<1>3. ASSUME NEW p \in W!AnyProducer, Producer(p) PROVE [W!Next]_W!vars
  BY <1>0, <1>3 DEF Producer, Step, Nothing, W!Next
<1>4. CASE Validator
  BY <1>0, <1>4 DEF Validator, Step, Nothing, W!Next, W!Validator
<1>5. CASE Cleanup
  BY <1>0, <1>5 DEF Cleanup, Step, Nothing, W!Next, W!Cleanup
<1>6. CASE Idle
  BY <1>0, <1>6 DEF Idle, Step, Nothing
<1>7. CASE Halted \/ UNCHANGED programVars
  BY <1>0, <1>7 DEF Halted, programVars
<1> QED  BY <1>1, <1>2, <1>3, <1>4, <1>5, <1>6, <1>7 DEF ProgramNext

LEMMA StepOfScheduler == [ProgramNext]_programVars => [UsageNext]_usageVars
<1> SUFFICES ASSUME [ProgramNext]_programVars PROVE [UsageNext]_usageVars
  OBVIOUS
<1>0. ASSUME Account,
             \/ \E f \in {"worker", "idle"} : Add(f)
             \/ Run \/ Yield \/ TaskReturn
             \/ \E d \in {MonitorPause, ProducePause, RetryPause, PoolPause, WaitPause,
                          CheckPause, LeavePause, PollPause, HaltPause} : Sleep(d)
      PROVE  UsageNext
  BY <1>0, MainAssumption, PauseAssumption DEF UsageNext, Next
<1>1. CASE Boot
  BY <1>0, <1>1 DEF Boot
<1>2. CASE Monitor
  BY <1>0, <1>2 DEF Monitor, Step
<1>3. ASSUME NEW p, Producer(p) PROVE UsageNext
  BY <1>0, <1>3 DEF Producer, Step
<1>4. CASE Validator
  BY <1>0, <1>4 DEF Validator, Step
<1>5. CASE Cleanup
  BY <1>0, <1>5 DEF Cleanup, Step
<1>6. CASE Idle
  BY <1>0, <1>6 DEF Idle, Step
<1>7. CASE Halted \/ UNCHANGED programVars
  BY <1>7 DEF Halted, programVars
<1> QED  BY <1>1, <1>2, <1>3, <1>4, <1>5, <1>6, <1>7 DEF ProgramNext

-----------------------------------------------------------------------------
(* The instances W and WP are of the same state machine                      *)

LEMMA WorkConstants ==
    /\ Configs \subseteq [producers : WP!Positive, consumers : WP!Positive, items : WP!Positive]
    /\ Capacity \in WP!Positive /\ FALSE \in BOOLEAN
BY BuildsAssumption DEF WP!Positive

LEMMA SameSets ==
    /\ W!Items = WP!Items /\ W!Producers = WP!Producers /\ W!Consumers = WP!Consumers
    /\ W!AnyProducer = WP!AnyProducer /\ W!NoItem = WP!NoItem
    /\ W!ItemCount = WP!ItemCount /\ W!NumConsumers = WP!NumConsumers
    /\ W!NumProducers = WP!NumProducers
BY DEF W!Items, WP!Items, W!Producers, WP!Producers, W!Consumers, WP!Consumers,
       W!AnyProducer, WP!AnyProducer, W!NoItem, WP!NoItem, W!ItemCount, WP!ItemCount,
       W!NumConsumers, WP!NumConsumers, W!NumProducers, WP!NumProducers

LEMMA SameType == W!TypeOK = WP!TypeOK
BY SameSets DEF W!TypeOK, WP!TypeOK

LEMMA SameInit == W!Init => WP!Init
BY SameSets DEF W!Init, WP!Init

LEMMA SameProducer == ASSUME NEW p, W!ProducerRound(p) PROVE WP!ProducerRound(p)
BY SameSets DEF W!ProducerRound, WP!ProducerRound, W!Candidate, WP!Candidate, W!TakeNext,
       WP!TakeNext, W!Running, WP!Running, W!validator, WP!validator

LEMMA SameMonitor == W!MonitorRound => WP!MonitorRound
<1>1. \A S : W!Range(S) = WP!Range(S) /\ W!CountFresh(S) = WP!CountFresh(S)
  BY DEF W!Range, WP!Range, W!CountFresh, WP!CountFresh, W!Cardinality, WP!Cardinality
<1>2. \A c, j : W!Before(c, j) = WP!Before(c, j) /\ W!After(c, j) = WP!After(c, j)
  BY <1>1, SameSets DEF W!Before, WP!Before, W!After, WP!After, W!Contents, WP!Contents
<1> SUFFICES ASSUME W!MonitorRound PROVE WP!MonitorRound
  OBVIOUS
<1>3. PICK c \in W!Consumers : \E j \in 0 .. Len(queue[c]) :
        LET fresh == W!After(c, j) \ stored
        IN  /\ c = 0 /\ j = 0
            /\ thrown' = thrown \cup W!Before(c, j)
            /\ tree' = (tree \/ W!After(c, j) # {})
            /\ consumed' = consumed + W!CountFresh(fresh)
            /\ stored' = stored \cup (fresh \ {}) /\ lost' = lost \cup {}
  BY DEF W!MonitorRound, W!Consume
<1>4. \E j \in 0 .. Len(queue[c]) :
        LET fresh == WP!After(c, j) \ stored
        IN  /\ c = 0 /\ j = 0
            /\ thrown' = thrown \cup WP!Before(c, j)
            /\ tree' = (tree \/ WP!After(c, j) # {})
            /\ consumed' = consumed + WP!CountFresh(fresh)
            /\ stored' = stored \cup (fresh \ {}) /\ lost' = lost \cup {}
  BY <1>1, <1>2, <1>3
<1>5. /\ WP!Running /\ task["monitor"] = "running"
      /\ queue' = [d \in WP!Consumers |-> <<>>]
      /\ task' = IF complete THEN [task EXCEPT !["monitor"] = "returned"] ELSE task
      /\ UNCHANGED <<config, producerIndex, pending, produced, WP!validator>>
  BY SameSets DEF W!MonitorRound, W!Running, WP!Running, W!validator, WP!validator
<1>6. c \in WP!Consumers
  BY SameSets
<1> QED  BY <1>4, <1>5, <1>6 DEF WP!MonitorRound, WP!Consume

LEMMA SameValidator == W!Validator => WP!Validator
BY SameSets DEF W!Validator, WP!Validator, W!ValidatorStart, WP!ValidatorStart, W!ValidatorRound,
       WP!ValidatorRound, W!ValidatorComplete, WP!ValidatorComplete, W!ValidatorReturn,
       WP!ValidatorReturn, W!Check, WP!Check, W!Consumption, WP!Consumption, W!Running,
       WP!Running, W!validator, WP!validator, W!items, WP!items

LEMMA SameCleanup == W!Cleanup => WP!Cleanup
BY DEF W!Cleanup, WP!Cleanup, W!CleanupLeave, WP!CleanupLeave, W!CleanupHalt, WP!CleanupHalt,
       W!validator, WP!validator, W!items, WP!items

LEMMA SameNext == [W!Next]_W!vars => [WP!Next]_WP!vars
<1>1. UNCHANGED W!vars => UNCHANGED WP!vars
  BY DEF W!vars, WP!vars
<1>2. W!Halted => UNCHANGED W!vars
  BY DEF W!Halted
<1> QED
  BY <1>1, <1>2, SameSets, SameProducer, SameMonitor, SameValidator, SameCleanup
     DEF W!Next, WP!Next

-----------------------------------------------------------------------------
(* What the parts' invariants say of the whole                               *)

\* The invariants proved of the parts.
Parts == UsageInv /\ WP!IndInv

LEMMA InitParts == ProgramInit => Parts
<1> SUFFICES ASSUME ProgramInit PROVE Parts
  OBVIOUS
<1>1. WP!IndInv
  BY WorkConstants, SameInit, WP!InitIndInv DEF ProgramInit
<1>2. UsageInv
  BY InitUsageInv DEF ProgramInit
<1> QED  BY <1>1, <1>2 DEF Parts

LEMMA NextParts == Parts /\ [ProgramNext]_programVars => Parts'
<1> SUFFICES ASSUME Parts, [ProgramNext]_programVars PROVE Parts'
  OBVIOUS
<1>1. WP!IndInv'
  BY WorkConstants, StepOfWorkQueue, SameNext, WP!NextIndInv DEF Parts
<1>2. UsageInv'
  BY StepOfScheduler, NextUsageInv DEF Parts
<1> QED  BY <1>1, <1>2 DEF Parts

\* The slots come in the order in which main() fills them.
LEMMA SlotOrder ==
    ASSUME W!TypeOK
    PROVE  /\ W!ItemCount \in Nat \ {0} /\ W!NumProducers \in Nat \ {0}
           /\ W!NumConsumers \in Nat \ {0}
           /\ W!Producers = 1 .. W!NumProducers
           /\ ValidatorSlot = W!NumProducers + 1
           /\ CleanupSlot = ValidatorSlot + 1 /\ IdleSlot = CleanupSlot + 1
           /\ ValidatorSlot \in Nat /\ CleanupSlot \in Nat /\ IdleSlot \in Nat
<1>1. config \in [producers : Nat \ {0}, consumers : Nat \ {0}, items : Nat \ {0}]
  BY BuildsAssumption DEF W!TypeOK
<1>2. /\ config.producers \in Nat \ {0} /\ config.consumers \in Nat \ {0}
      /\ config.items \in Nat \ {0}
  BY <1>1
<1> QED
  BY <1>2 DEF W!ItemCount, W!NumProducers, W!NumConsumers, W!Producers, ValidatorSlot,
              CleanupSlot, IdleSlot

\* The counters the program compares, and where the validator is.
LEMMA WorkFacts ==
    ASSUME WP!IndInv
    PROVE  /\ W!TypeOK
           /\ consumed <= produced
           /\ complete => consumed = W!ItemCount /\ phase = 3
           /\ phase = 1 => ~complete
           /\ phase = 0 => ~complete
<1>1. WP!TypeOK /\ WP!CountersMatch /\ WP!VerdictInv
  BY DEF WP!IndInv
<1>2. W!TypeOK
  BY <1>1, SameType
<1>3. /\ WP!IsFiniteSet(WP!Waiting) /\ WP!IsFiniteSet(thrown)
      /\ WP!Cardinality(WP!Items) = WP!ItemCount
  BY <1>1, WorkConstants, WP!PlacesFinite, WP!Sizes
<1>4. WP!Cardinality(WP!Waiting) \in Nat /\ WP!Cardinality(thrown) \in Nat
  BY <1>3, FS_CardinalityType DEF WP!IsFiniteSet, WP!Cardinality, IsFiniteSet, Cardinality
<1>5. produced = consumed + WP!Cardinality(WP!Waiting) + WP!Cardinality(thrown)
  BY <1>1 DEF WP!CountersMatch
<1>6. consumed \in Int
  BY <1>2 DEF W!TypeOK
<1>7. consumed <= produced
  BY <1>4, <1>5, <1>6
<1>8. phase = 1 => ~complete
  BY <1>1 DEF WP!VerdictInv
<1>9. phase = 0 => ~complete
  BY <1>1 DEF WP!VerdictInv
<1>10. ASSUME complete PROVE consumed = W!ItemCount /\ phase = 3
  <2>1. phase = 3
    BY <1>1, <1>10 DEF WP!VerdictInv
  <2>2. stored \cup lost = WP!Items
    BY <1>1, <2>1 DEF WP!VerdictInv, WP!HonestVerdict
  <2>3. consumed = WP!Cardinality(stored \cup lost)
    BY <1>1 DEF WP!CountersMatch
  <2> QED  BY <1>3, <2>1, <2>2, <2>3, SameSets
<1> QED  BY <1>2, <1>7, <1>8, <1>9, <1>10

\* The build does not change while it runs, and the validation is not taken back.
LEMMA WorkSteps ==
    ASSUME [ProgramNext]_programVars
    PROVE  /\ config' = config
           /\ complete => complete'
<1>1. [W!Next]_W!vars
  BY StepOfWorkQueue
<1>2. \A p : W!ProducerRound(p) => UNCHANGED <<config, complete>>
  BY DEF W!ProducerRound, W!validator
<1>3. W!MonitorRound => UNCHANGED <<config, complete>>
  BY DEF W!MonitorRound, W!validator
<1>4. W!Validator => config' = config /\ (complete => complete')
  BY DEF W!Validator, W!ValidatorStart, W!ValidatorRound, W!ValidatorComplete,
         W!ValidatorReturn, W!validator
<1>5. W!Cleanup => UNCHANGED <<config, complete>>
  BY DEF W!Cleanup, W!CleanupLeave, W!CleanupHalt, W!validator
<1>6. W!Halted \/ UNCHANGED W!vars => UNCHANGED <<config, complete>>
  BY DEF W!Halted, W!vars
<1> QED  BY <1>1, <1>2, <1>3, <1>4, <1>5, <1>6 DEF W!Next

LEMMA SameSlots ==
    ASSUME config' = config
    PROVE  /\ ValidatorSlot' = ValidatorSlot /\ CleanupSlot' = CleanupSlot
           /\ IdleSlot' = IdleSlot /\ W!ItemCount' = W!ItemCount
BY DEF ValidatorSlot, CleanupSlot, IdleSlot, W!NumProducers, W!ItemCount

-----------------------------------------------------------------------------
(* Time                                                                      *)

\* A step costs one tick, which the accounting counts, or none.
LEMMA TimeStep ==
    ASSUME [ProgramNext]_programVars
    PROVE  \/ UNCHANGED <<ticks, elapsed>>
           \/ elapsed < MaxElapsed /\ elapsed' = elapsed + 1 /\ ticks' = (ticks + 1) % TickMod
<1>1. [UsageNext]_usageVars
  BY StepOfScheduler
<1>2. ASSUME Next PROVE ticks' = ticks \/ ticks' = (ticks + 1) % TickMod
  <2>1. Yield \/ (\E d \in Deltas : Sleep(d)) \/ TaskReturn => ticks' = (ticks + 1) % TickMod
    BY DEF Yield, Sleep, TaskReturn, Reschedule
  <2>2. (\E f \in Fns : Add(f)) \/ (\E id \in Slots : Remove(id))
        \/ (\E id \in Slots \cup {NoTask} : SetIdle(id))
           \/ Run => ticks' = ticks
    BY DEF Add, Remove, SetIdle, Run
  <2> QED  BY <1>2, <2>1, <2>2 DEF Next
<1>3. Account => IF ticks' = ticks THEN elapsed' = elapsed
                 ELSE elapsed < MaxElapsed /\ elapsed' = elapsed + 1
  BY DEF Account, usage
<1> QED  BY <1>1, <1>2, <1>3 DEF UsageNext, Stopped, usageVars, usage, vars

\* The history of the ticks bounds the time stamps: until the counter has gone
\* round it is the number of ticks, and an age is exact until it has gone round
\* since.
Stamp == [first |-> timeFirstProduced, produced |-> timeAllProduced,
          consumed |-> timeAllConsumed, validated |-> timeValidated]

\* What has happened by now.
Past == {e \in Events : \/ e = "first" /\ produced > 0
                        \/ e = "produced" /\ produced >= W!ItemCount
                        \/ e = "consumed" /\ consumed >= W!ItemCount
                        \/ e = "validated" /\ complete}

\* The summary subtracts the second of a pair from the first.
Pairs == {<<"first", "produced">>, <<"produced", "consumed">>, <<"consumed", "validated">>}

ClockInv == elapsed \in 0 .. MaxElapsed /\ (elapsed < TickMod => ticks = elapsed)

\* A stamp tells how long ago its event was, and a pair how far apart they are,
\* unless that is a range of the counter or more.
Faithful(e) ==
    /\ Stamp[e] \in Ticks /\ since[e] \in 0 .. elapsed
    /\ elapsed - since[e] < TickMod => (ticks - Stamp[e]) % TickMod = elapsed - since[e]
    /\ since[e] < TickMod => Stamp[e] = since[e]
Apart(from, to) ==
    /\ since[from] # NoTime /\ since[from] <= since[to]
    /\ since[to] - since[from] < TickMod =>
          (Stamp[to] - Stamp[from]) % TickMod = since[to] - since[from]
StampInv ==
    /\ ClockInv
    /\ DOMAIN since = Events /\ since = [e \in Events |-> since[e]]
    /\ \A e \in Events : IF since[e] = NoTime THEN Stamp[e] = NoTime ELSE Faithful(e)
    /\ \A e \in Events : e \in Past => since[e] # NoTime
    /\ \A pair \in Pairs : since[pair[2]] # NoTime => Apart(pair[1], pair[2])

LEMMA InitStampInv == ProgramInit => StampInv
<1> SUFFICES ASSUME ProgramInit PROVE StampInv
  OBVIOUS
<1>1. W!ItemCount \in Nat \ {0}
  BY InitParts, WorkFacts, SlotOrder DEF Parts
<1>2. elapsed = 0 /\ ticks = 0 /\ produced = 0 /\ consumed = 0 /\ complete = FALSE
  BY DEF ProgramInit, UsageInit, Init, W!Init
<1>3. /\ Stamp = [first |-> NoTime, produced |-> NoTime, consumed |-> NoTime, validated |-> NoTime]
      /\ since = [e \in Events |-> NoTime]
  BY DEF ProgramInit, Stamp
<1>4. ClockInv
  BY <1>2, ElapsedAssumption DEF ClockInv
<1>5. \A e \in Events : since[e] = NoTime /\ Stamp[e] = NoTime
  BY <1>3 DEF Events
<1>6. Past = {}
  BY <1>1, <1>2 DEF Past, Events
<1>7. \A pair \in Pairs : since[pair[2]] = NoTime
  BY <1>5 DEF Pairs, Events
<1> QED  BY <1>3, <1>4, <1>5, <1>6, <1>7 DEF StampInv

\* Whatever comes before another thing in the summary has happened before it.
LEMMA PastInOrder ==
    ASSUME WP!IndInv
    PROVE  \A pair \in Pairs : pair[2] \in Past => pair[1] \in Past
<1>1. /\ W!ItemCount \in Nat \ {0} /\ produced \in Int /\ consumed \in Int
      /\ consumed <= produced /\ (complete => consumed = W!ItemCount)
  BY WorkFacts, SlotOrder DEF W!TypeOK
<1> QED  BY <1>1 DEF Past, Pairs, Events

\* Time goes on: what a stamp tells stays right.
LEMMA FaithfulStays ==
    ASSUME NEW e \in Events, Faithful(e), ticks \in Ticks, elapsed \in Nat,
           UNCHANGED <<Stamp[e], since[e]>>,
           \/ UNCHANGED <<ticks, elapsed>>
           \/ elapsed' = elapsed + 1 /\ ticks' = (ticks + 1) % TickMod
    PROVE  Faithful(e)'
<1>1. CASE UNCHANGED <<ticks, elapsed>>
  BY <1>1 DEF Faithful, TickMod, Ticks
<1>2. CASE elapsed' = elapsed + 1 /\ ticks' = (ticks + 1) % TickMod
  <2>1. PICK w \in Ticks : w = Stamp[e]
    BY DEF Faithful
  <2>2. PICK s \in 0 .. elapsed : s = since[e]
    BY DEF Faithful
  <2>3. PICK a \in Ticks : a = (ticks - w) % TickMod
    BY <2>1, AgeStep
  <2>4. (ticks' - w) % TickMod = IF a + 1 = TickMod THEN 0 ELSE a + 1
    BY <1>2, <2>3, AgeStep
  <2>5. elapsed - s < TickMod => a = elapsed - s
    BY <2>1, <2>2, <2>3 DEF Faithful
  <2>6. (elapsed + 1) - s < TickMod => (ticks' - w) % TickMod = (elapsed + 1) - s
    BY <2>3, <2>4, <2>5, HalfAssumption DEF Ticks, TickMod
  <2>7. s < TickMod => w = s
    BY <2>1, <2>2 DEF Faithful
  <2>8. Stamp'[e] = w /\ since'[e] = s /\ s \in 0 .. elapsed'
    BY <1>2, <2>1, <2>2
  <2> QED  BY <1>2, <2>1, <2>2, <2>6, <2>7, <2>8 DEF Faithful, TickMod, Ticks
<1> QED  BY <1>1, <1>2

PastOrdered == \A pair \in Pairs : pair[2] \in Past => pair[1] \in Past

LEMMA HappensThen ==
    ASSUME config' = config, produced \in Int, produced' \in Int
    PROVE  /\ Past' \subseteq Past \cup Happens
           /\ Happens \subseteq Past' \cup {"first"}
           /\ produced \in Nat => Happens \subseteq Past'
<1>1. W!ItemCount' = W!ItemCount
  BY SameSlots
<1>2. /\ "first" \in Happens <=> produced' > produced
      /\ "produced" \in Happens <=> produced' >= W!ItemCount
      /\ "consumed" \in Happens <=> consumed' >= W!ItemCount
      /\ "validated" \in Happens <=> complete'
      /\ Happens \subseteq Events
  BY DEF Happens, Events
<1>3. /\ "first" \in Past' <=> produced' > 0
      /\ "produced" \in Past' <=> produced' >= W!ItemCount
      /\ "consumed" \in Past' <=> consumed' >= W!ItemCount
      /\ "validated" \in Past' <=> complete'
      /\ Past' \subseteq Events
  BY <1>1 DEF Past, Events
<1>4. "first" \in Past <=> produced > 0
  BY DEF Past, Events
<1> QED  BY <1>2, <1>3, <1>4 DEF Events

\* What a call records before it costs its tick.
LEMMA RecordKeepsStamps ==
    ASSUME StampInv, PastOrdered', config' = config, ticks \in Ticks,
           produced \in Nat, produced' \in Nat, Record,
           \/ UNCHANGED <<ticks, elapsed>>
           \/ elapsed < MaxElapsed /\ elapsed' = elapsed + 1 /\ ticks' = (ticks + 1) % TickMod
    PROVE  StampInv'
<1>0. /\ elapsed \in 0 .. MaxElapsed /\ MaxElapsed \in Nat /\ elapsed \in Nat /\ TickMod \in Nat
      /\ 2 <= TickMod /\ (elapsed < TickMod => ticks = elapsed) /\ ticks \in Int
      /\ 0 <= ticks /\ ticks < TickMod
  BY ElapsedAssumption, HalfAssumption DEF StampInv, ClockInv, TickMod, Ticks
<1>1. /\ Happens \subseteq Past' /\ Past' \subseteq Past \cup Happens
      /\ Past' \subseteq Events
  BY HappensThen DEF Past
<1>2. ASSUME NEW e \in Events
      PROVE  /\ Stamp'[e] = IF Stamp[e] = NoTime /\ e \in Happens THEN ticks ELSE Stamp[e]
             /\ since'[e] = IF since[e] = NoTime /\ e \in Happens THEN elapsed ELSE since[e]
             /\ since[e] = NoTime => Stamp[e] = NoTime
             /\ since[e] # NoTime => Stamp[e] # NoTime /\ Faithful(e)
  <2>1. since'[e] = IF since[e] = NoTime /\ e \in Happens THEN elapsed ELSE since[e]
    BY DEF Record
  <2>2. Stamp'[e] = IF Stamp[e] = NoTime /\ e \in Happens THEN ticks ELSE Stamp[e]
    BY DEF Record, Stamp, Stamped, Events
  <2>3. IF since[e] = NoTime THEN Stamp[e] = NoTime ELSE Faithful(e)
    BY DEF StampInv
  <2>4. Faithful(e) => Stamp[e] # NoTime
    BY DEF Faithful, Ticks, NoTime
  <2> QED  BY <2>1, <2>2, <2>3, <2>4
<1>3. ClockInv'
  BY <1>0, ModSmall DEF ClockInv, TickMod
<1>4. since' = [e \in Events |-> since'[e]] /\ DOMAIN since' = Events
  BY DEF Record
<1>5. ASSUME NEW e \in Events
      PROVE  IF since'[e] = NoTime THEN Stamp'[e] = NoTime ELSE Faithful(e)'
  <2>1. CASE since[e] = NoTime /\ e \notin Happens
    BY <1>2, <2>1
  <2>2. CASE since[e] # NoTime
    BY <1>0, <1>2, <2>2, FaithfulStays
  <2>3. CASE since[e] = NoTime /\ e \in Happens
    <3>1. Stamp'[e] = ticks /\ since'[e] = elapsed
      BY <1>2, <2>3
    <3>2. ticks - ticks = 0 /\ 0 % TickMod = 0
      BY <1>0, ModSmall
    <3>3. elapsed' - elapsed < TickMod => (ticks' - ticks) % TickMod = elapsed' - elapsed
      <4>1. CASE UNCHANGED <<ticks, elapsed>>
        BY <1>0, <3>2, <4>1
      <4>2. CASE elapsed' = elapsed + 1 /\ ticks' = (ticks + 1) % TickMod
        <5>1. (ticks' - ticks) % TickMod = IF 0 + 1 = TickMod THEN 0 ELSE 0 + 1
          BY <3>2, <4>2, AgeStep
        <5> QED  BY <1>0, <4>2, <5>1
      <4> QED  BY <4>1, <4>2
    <3>4. elapsed \in 0 .. elapsed'
      BY <1>0
    <3>5. elapsed < TickMod => ticks = elapsed
      BY <1>0
    <3>6. Faithful(e)'
      BY <3>1, <3>3, <3>4, <3>5 DEF Faithful, TickMod, Ticks
    <3>7. since'[e] # NoTime
      BY <1>0, <3>1 DEF NoTime
    <3> QED  BY <3>6, <3>7
  <2> QED  BY <2>1, <2>2, <2>3
<1>6. ASSUME NEW e \in Events, e \in Past' PROVE since'[e] # NoTime
  BY <1>0, <1>1, <1>2, <1>6 DEF StampInv, NoTime
<1>7. ASSUME NEW pair \in Pairs, since'[pair[2]] # NoTime PROVE Apart(pair[1], pair[2])'
  <2>0. PICK f \in Events, t \in Events : f = pair[1] /\ t = pair[2]
    BY DEF Pairs, Events
  <2>1. CASE since[t] # NoTime
    <3>1. Apart(f, t)
      BY <2>0, <2>1 DEF StampInv
    <3>2. since'[f] = since[f] /\ since'[t] = since[t] /\ Stamp'[f] = Stamp[f] /\ Stamp'[t] = Stamp[t]
      BY <1>2, <2>1, <3>1 DEF Apart
    <3> QED  BY <2>0, <3>1, <3>2 DEF Apart, TickMod
  <2>2. CASE since[t] = NoTime
    <3>1. t \in Happens /\ since'[t] = elapsed /\ Stamp'[t] = ticks
      BY <1>2, <1>7, <2>0, <2>2
    <3>2. f \in Past' /\ since'[f] # NoTime
      BY <1>1, <1>6, <2>0, <3>1 DEF PastOrdered
    <3>3. CASE since[f] = NoTime
      <4>1. since'[f] = elapsed /\ Stamp'[f] = ticks
        BY <1>2, <3>2, <3>3
      <4>2. ticks - ticks = 0 /\ 0 % TickMod = 0 /\ elapsed - elapsed = 0
        BY <1>0, ModSmall
      <4> QED  BY <1>0, <2>0, <3>1, <3>2, <4>1, <4>2 DEF Apart, TickMod
    <3>4. CASE since[f] # NoTime
      <4>1. since'[f] = since[f] /\ Stamp'[f] = Stamp[f] /\ Faithful(f)
        BY <1>2, <3>4
      <4>2. since[f] <= elapsed
        BY <4>1, <1>0 DEF Faithful
      <4> QED  BY <2>0, <3>1, <3>2, <4>1, <4>2 DEF Apart, Faithful, TickMod
    <3> QED  BY <3>3, <3>4
  <2> QED  BY <2>1, <2>2
<1> QED  BY <1>3, <1>4, <1>5, <1>6, <1>7 DEF StampInv

LEMMA StampsStay ==
    ASSUME StampInv,
           UNCHANGED <<stamps, ticks, elapsed, config, produced, consumed, complete>>
    PROVE  StampInv'
<1>1. Stamp' = Stamp /\ since' = since
  BY DEF stamps, Stamp
<1>2. Past' = Past
  BY SameSlots DEF Past
<1>3. \A e \in Events : Faithful(e)' = Faithful(e)
  BY <1>1 DEF Faithful, Ticks, TickMod
<1>4. \A pair \in Pairs : Apart(pair[1], pair[2])' = Apart(pair[1], pair[2])
  BY <1>1 DEF Apart, TickMod
<1>5. ClockInv'
  BY DEF StampInv, ClockInv, TickMod
<1>6. \A e \in Events : IF since'[e] = NoTime THEN Stamp'[e] = NoTime ELSE Faithful(e)'
  BY <1>1, <1>3 DEF StampInv
<1>7. \A e \in Events : e \in Past' => since'[e] # NoTime
  BY <1>1, <1>2 DEF StampInv
<1>8. \A pair \in Pairs : since'[pair[2]] # NoTime => Apart(pair[1], pair[2])'
  BY <1>1, <1>4 DEF StampInv
<1> QED  BY <1>1, <1>5, <1>6, <1>7, <1>8 DEF StampInv

\* What every step of a task records, whatever else it does.
LEMMA Records ==
    ASSUME ProgramNext, ~Record
    PROVE  UNCHANGED <<stamps, ticks, elapsed, produced, consumed, complete>>
<1>1. CASE Boot
  <2>1. ticks' = ticks
    BY <1>1 DEF Boot, Add, Run
  <2> QED  BY <1>1, <2>1 DEF Boot, Account, usage, Nothing, app
<1>2. ASSUME NEW p, Producer(p) PROVE Record
  BY <1>2 DEF Producer, Step
<1>3. Monitor \/ Validator \/ Idle => Record
  BY DEF Monitor, Validator, Idle, Step
<1>4. CASE Cleanup
  <2>1. W!CleanupHalt /\ UNCHANGED <<usageVars, stamps>>
    BY <1>4 DEF Cleanup, Step
  <2> QED  BY <2>1 DEF W!CleanupHalt, W!items, W!validator, usageVars, usage, vars
<1>5. CASE Halted
  BY <1>5 DEF Halted, programVars, usageVars, usage, vars, app
<1> QED  BY <1>1, <1>2, <1>3, <1>4, <1>5 DEF ProgramNext

LEMMA NextStampInv ==
    ASSUME Parts, Parts', PastOrdered', StampInv, [ProgramNext]_programVars
    PROVE  StampInv'
<1>0. config' = config
  BY WorkSteps
<1>1. CASE UNCHANGED programVars
  BY <1>0, <1>1, StampsStay DEF programVars, usageVars, usage, vars, app
<1>2. CASE ProgramNext /\ ~Record
  BY <1>0, <1>2, Records, StampsStay
<1>3. CASE ProgramNext /\ Record
  <2>1. ticks \in Ticks
    BY DEF Parts, UsageInv, IndInv, TypeOK
  <2>2. produced \in Nat /\ produced' \in Nat
    <3>1. WP!TypeOK /\ WP!TypeOK'
      BY DEF Parts, WP!IndInv
    <3> QED  BY <3>1 DEF WP!TypeOK
  <2> QED  BY <1>0, <1>3, <2>1, <2>2, TimeStep, RecordKeepsStamps
<1> QED  BY <1>1, <1>2, <1>3

LEMMA PartsOrdered == Parts => PastOrdered
BY PastInOrder DEF Parts, PastOrdered

-----------------------------------------------------------------------------
(* The end of the program                                                    *)

Pauses == {MonitorPause, ProducePause, RetryPause, PoolPause, WaitPause, CheckPause,
           LeavePause, PollPause}

\* cleanup's last pause is longer than any other, by more than a round of the
\* slots, and no run is so long that the counter wraps during that pause.
Patient == \A pause \in Pauses : pause + N < HaltPause
NoWrap  == MaxElapsed + HaltPause < TickMod

Others == Slots \ {CleanupSlot, IdleSlot}

\* Who is in which slot.  main() fills them from the first; later they can only
\* become free, all but the idle task's.
Filled(n) ==
    \A i \in Slots : /\ inUse[i] <=> i < n
                     /\ inUse[i] => fn[i] = IF i = IdleSlot THEN "idle" ELSE "worker"
SlotsInv ==
    /\ idleTask = NoTask
    /\ running = "main" =>
          /\ elapsed = 0
          /\ \A i \in Slots : wakeTick[i] = 0
          /\ \E n \in 0 .. IdleSlot + 1 : n <= N /\ Filled(n)
    /\ running # "main" =>
          /\ current \in Slots /\ inUse[current] /\ running = fn[current]
          /\ IdleSlot \in Slots /\ inUse[IdleSlot]
          /\ \A i \in Slots : inUse[i] =>
                i <= IdleSlot /\ fn[i] = IF i = IdleSlot THEN "idle" ELSE "worker"

\* No task runs before its wake tick, and how long it has been passed over since
\* says how late it is.
Late(i) == IF wakeTick[i] > elapsed THEN 0
           ELSE IF wakeTick[i] = 0 THEN elapsed ELSE elapsed - wakeTick[i] + 1

\* Only the slots that main() filled are ever found: the scan's round is shorter
\* than the table.
Around(from, i) == IF i > from THEN i - from ELSE i - from + IdleSlot + 1
RoundInv == \A i \in 0 .. IdleSlot : waited[i] + Around(current, i) <= IdleSlot + 1

TimelyInv ==
    running # "main" =>
        /\ wakeTick[IdleSlot] = 0
        /\ wakeTick[current] <= elapsed /\ waited[current] = 0
        /\ \A i \in Slots : wakeTick[i] <= elapsed + Half
        /\ \A i \in Slots \ {current, IdleSlot} : inUse[i] => waited[i] = Late(i)
        /\ RoundInv


\* While cleanup takes its last pause, all others wake more than a round of the
\* slots before it does, and find the validation complete: they return.
EndInv ==
    /\ \A i \in Others : wakeTick[i] + N < elapsed + HaltPause
    /\ running # "main" =>
          /\ inUse[CleanupSlot]
          /\ inUse[MonitorSlot] \/ task["monitor"] = "returned"
          /\ inUse[ValidatorSlot] \/ task["validator"] = "returned"
    /\ task["cleanup"] # "running" => complete /\ running # "main"
    /\ task["cleanup"] = "leaving" =>
          \A i \in Others : inUse[i] => wakeTick[i] + N < wakeTick[CleanupSlot]
    /\ task["cleanup"] = "halted" =>
          current = CleanupSlot /\ \A i \in Others : ~inUse[i]

\* A wake tick at most half the range ahead is not due; one that has come, and is
\* not half the range behind, is.
LEMMA DueWhen ==
    ASSUME NEW t \in Ticks, NEW w \in Ticks
    PROVE  /\ w > t /\ w <= t + Half => ~Due(t, w)
           /\ w <= t /\ t - w < Half => Due(t, w)
<1>0. /\ t \in Int /\ 0 <= t /\ w \in Int /\ 0 <= w /\ w < TickMod /\ t < TickMod
      /\ Half \in Nat /\ TickMod \in Nat
  BY HalfAssumption DEF Ticks, TickMod
<1>1. ASSUME w > t, w <= t + Half PROVE ~Due(t, w)
  <2>1. PICK l \in 1 .. Half : w = t + l
    <3>1. w - t \in 1 .. Half /\ w = t + (w - t)
      BY <1>0, <1>1
    <3> QED  BY <3>1
  <2>2. (t + l) % TickMod = w
    BY <1>0, <2>1, ModSmall
  <2>3. ~((t - w) % TickMod < Half)
    BY <2>2, NotDueBefore
  <2> QED  BY <1>0, <1>1, <2>3 DEF Due
<1>2. ASSUME w <= t, t - w < Half PROVE Due(t, w)
  <2>1. (t - w) % TickMod = t - w
    BY <1>0, <1>2, ModSmall
  <2> QED  BY <1>2, <2>1 DEF Due
<1> QED  BY <1>1, <1>2

\* No task is more than a round of the slots late.
LEMMA NeverLate ==
    ASSUME IndInv, TimelyInv, running # "main", ClockInv,
           NEW i \in Slots, i # current, i # IdleSlot, inUse[i]
    PROVE  waited[i] = Late(i) /\ waited[i] < N /\ elapsed < wakeTick[i] + N
<1>1. waited[i] = Late(i)
  BY DEF TimelyInv
<1>2. waited[i] + Dist(current, i) <= N /\ Dist(current, i) \in 1 .. N /\ waited[i] \in Nat
  BY DistBounds DEF IndInv, WaitInv, TypeOK
<1>3. elapsed \in Nat /\ wakeTick[i] \in Nat
  BY ElapsedAssumption, HalfAssumption DEF ClockInv, IndInv, TypeOK, Ticks, TickMod
<1> QED  BY <1>1, <1>2, <1>3, NAssumption DEF Late

\* scheduler_yield lets no one wait unnoticed: a caller that sleeps asks for a
\* tick to come, and the others have waited as long as they have been due.
LEMMA RescheduleTimely ==
    ASSUME UsageInv, SlotsInv, TimelyInv, ClockInv, N <= Half, running # "main",
           config' = config, elapsed' = elapsed + 1, elapsed + 1 < TickMod,
           NEW use \in [Slots -> BOOLEAN], NEW wake \in [Slots -> Ticks], NEW slept, NEW stay,
           use[IdleSlot], wake[IdleSlot] = 0, use[current] => inUse[current],
           \A i \in Slots : i # current => use[i] = inUse[i] /\ wake[i] = wakeTick[i],
           current # IdleSlot /\ use[current] =>
              wake[current] > elapsed,
           wake[current] <= elapsed + Half,
           Reschedule(use, wake, slept, stay)
    PROVE  SlotsInv' /\ TimelyInv' /\ inUse' = use /\ wakeTick' = wake /\ running' # "main"
<1> DEFINE t     == (ticks + 1) % TickMod
           ready == Ready(use, wake, t)
           next  == FindNext(current, ready)
<1>1. /\ IndInv /\ current \in Slots /\ IdleSlot \in Slots /\ idleTask = NoTask
      /\ NoTask \notin Slots /\ elapsed \in Nat /\ ticks = elapsed /\ Half \in Nat
      /\ waited \in [Slots -> Nat] /\ \A i \in Slots : wakeTick[i] \in Nat /\ wake[i] \in Nat
  <2>1. IndInv /\ current \in Slots /\ IdleSlot \in Slots /\ idleTask = NoTask
    BY DEF UsageInv, SlotsInv
  <2>2. elapsed \in Nat /\ ticks = elapsed /\ Half \in Nat
    BY ElapsedAssumption, HalfAssumption DEF ClockInv, TickMod
  <2>3. waited \in [Slots -> Nat] /\ \A i \in Slots : wakeTick[i] \in Nat /\ wake[i] \in Nat
    BY <2>1, HalfAssumption DEF IndInv, TypeOK, Ticks, TickMod
  <2> QED  BY <2>1, <2>2, <2>3 DEF NoTask, Slots
<1>2. t = elapsed + 1 /\ t \in Ticks
  BY <1>1, ModSmall DEF Ticks, TickMod
<1>3. ready \in SUBSET Slots /\ IdleSlot \in ready /\ \A i \in Slots : i \in ready <=> use[i] /\ Due(t, wake[i])
  BY <1>1 DEF Ready, Due
<1>4. next \in ready /\ next # NoTask
  BY <1>1, <1>3, FindNextSound
<1>5. SwitchTo(next)
  BY <1>4 DEF Reschedule
<1>6. /\ inUse' = use /\ wakeTick' = wake /\ current' = next /\ running' = fn[next]
      /\ UNCHANGED <<fn, idleTask>>
      /\ waited' = [i \in Slots |-> IF i \in ready \ {idleTask, next}
                                    THEN waited[i] + 1 ELSE 0]
  BY <1>5 DEF Reschedule, SwitchTo
<1> HIDE DEF ready, next, t
<1>7. next \in Slots /\ use[next] /\ Due(t, wake[next])
  BY <1>3, <1>4
<1>8. IdleSlot' = IdleSlot
  BY SameSlots
<1>9. \A i \in Slots : use[i] => inUse[i]
  BY <1>1 DEF SlotsInv
<1>10. SlotsInv' /\ running' # "main"
  <2>1. \A i \in Slots : inUse'[i] =>
           i <= IdleSlot /\ fn'[i] = IF i = IdleSlot THEN "idle" ELSE "worker"
    BY <1>6, <1>9 DEF SlotsInv
  <2>2. running' # "main"
    BY <1>6, <1>7, <2>1
  <2> QED  BY <1>1, <1>6, <1>7, <1>8, <2>1, <2>2 DEF SlotsInv
<1>11. \A i \in Slots : wake[i] <= elapsed + Half
  BY <1>1 DEF TimelyInv
<1>12. wake[next] <= elapsed + 1
  BY <1>1, <1>2, <1>7, <1>11, DueWhen
<1>13. ASSUME NEW i \in Slots \ {next, IdleSlot}, use[i]
       PROVE  waited'[i] = IF wake[i] > elapsed + 1 THEN 0
                           ELSE IF wake[i] = 0 THEN elapsed + 1 ELSE (elapsed + 1) - wake[i] + 1
  <2>1. waited'[i] = IF Due(t, wake[i]) THEN waited[i] + 1 ELSE 0
    BY <1>1, <1>3, <1>6, <1>13
  <2>2. CASE wake[i] > elapsed + 1
    BY <1>1, <1>2, <1>11, <2>1, <2>2, DueWhen
  <2>3. CASE wake[i] = elapsed + 1
    <3>1. Due(t, wake[i])
      BY <1>2, <2>3, DueWhen, HalfAssumption
    <3>2. waited[i] = 0
      <4>1. CASE i = current
        BY <4>1 DEF TimelyInv
      <4>2. CASE i # current
        BY <1>1, <1>13, <2>3, <4>2 DEF TimelyInv, Late
      <4> QED  BY <4>1, <4>2
    <3> QED  BY <1>1, <2>1, <2>3, <3>1, <3>2
  <2>4. CASE wake[i] <= elapsed
    <3>1. i # current /\ wake[i] = wakeTick[i] /\ inUse[i]
      BY <1>1, <1>13, <2>4
    <3>2. waited[i] = Late(i) /\ waited[i] < N
      BY <1>1, <1>13, <3>1, NeverLate
    <3>3. waited[i] = IF wake[i] = 0 THEN elapsed ELSE elapsed - wake[i] + 1
      BY <1>1, <2>4, <3>1, <3>2 DEF Late
    <3>4. Due(t, wake[i])
      <4>1. CASE wake[i] = 0
        BY <4>1 DEF Due
      <4>2. CASE wake[i] # 0
        <5>1. t - wake[i] < Half
          BY <1>1, <1>2, <3>2, <3>3, <4>2, NAssumption
        <5> QED  BY <1>1, <1>2, <2>4, <5>1, DueWhen
      <4> QED  BY <4>1, <4>2
    <3> QED  BY <1>1, <2>1, <2>4, <3>3, <3>4
  <2> QED  BY <1>1, <2>2, <2>3, <2>4
<1>14. \A i \in Slots \ {current', IdleSlot'} : inUse'[i] => waited'[i] = Late(i)'
  BY <1>6, <1>8, <1>13 DEF Late
<1>15. wakeTick'[IdleSlot'] = 0 /\ wakeTick'[current'] <= elapsed' /\ waited'[current'] = 0
  BY <1>6, <1>7, <1>8, <1>12
<1>16. \A i \in Slots : wakeTick'[i] <= elapsed' + Half
  BY <1>1, <1>6, <1>11
<1>17. RoundInv'
  <2>1. \A i \in ready : i \in 0 .. IdleSlot
    BY <1>1, <1>3, <1>9 DEF SlotsInv, Slots
  <2>2. current \in 0 .. IdleSlot /\ next \in 0 .. IdleSlot
    BY <1>1, <1>4, <2>1 DEF SlotsInv, Slots
  <2>3. RoundInv /\ IdleSlot \in Nat /\ IdleSlot < N /\ N \in Nat
    BY <1>1, NAssumption DEF TimelyInv, Slots
  <2> SUFFICES ASSUME NEW i \in 0 .. IdleSlot
               PROVE  waited'[i] + Around(next, i) <= IdleSlot + 1
    BY <1>6, <1>8 DEF RoundInv, Around
  <2>4. i \in Slots
    BY <2>3 DEF Slots
  <2>5. waited[i] \in Nat /\ waited[i] + Around(current, i) <= IdleSlot + 1
    BY <1>1, <2>3, <2>4 DEF RoundInv
  <2>6. CASE i \in ready \ {next}
    <3>1. Dist(current, next) <= Dist(current, i)
      BY <1>1, <1>3, <2>6, FindNextSound DEF next
    <3>2. waited'[i] = waited[i] + 1
      BY <1>1, <1>6, <2>4, <2>6
    <3>3. Around(next, i) + 1 <= Around(current, i)
      BY <2>2, <2>3, <2>6, <3>1 DEF Around, Dist
    <3>4. Around(next, i) \in Int /\ Around(current, i) \in Int
      BY <2>2, <2>3 DEF Around
    <3> QED  BY <2>3, <2>5, <3>2, <3>3, <3>4
  <2>7. CASE i \notin ready \ {next}
    <3>1. waited'[i] = 0
      BY <1>6, <2>4, <2>7
    <3> QED  BY <2>2, <2>3, <3>1 DEF Around
  <2> QED  BY <2>6, <2>7
<1> QED  BY <1>6, <1>10, <1>14, <1>15, <1>16, <1>17 DEF TimelyInv

\* The calls the tasks make, and what has become of the application by then.
WorkerReturns == /\ current \notin {CleanupSlot, IdleSlot} /\ TaskReturn
                 /\ current = MonitorSlot => task'["monitor"] = "returned"
                 /\ current = ValidatorSlot => task'["validator"] = "returned"
                 /\ task'["cleanup"] = task["cleanup"]
WorkerSleeps  == /\ current \notin {CleanupSlot, IdleSlot} /\ ~complete
                 /\ task'["cleanup"] = task["cleanup"]
                 /\ \E pause \in Pauses : Sleep(pause)
CleanupPolls  == current = CleanupSlot /\ ~complete /\ Sleep(PollPause) /\ UNCHANGED app
CleanupLeaves == current = CleanupSlot /\ W!CleanupLeave /\ Sleep(HaltPause)
CleanupHalts  == current = CleanupSlot /\ W!CleanupHalt /\ UNCHANGED usageVars
IdleYields    == current = IdleSlot /\ Yield /\ UNCHANGED app

LEMMA Calling ==
    ASSUME Parts, [ProgramNext]_programVars
    PROVE  \/ Boot
           \/ /\ Account
              /\ WorkerReturns \/ WorkerSleeps \/ CleanupPolls \/ CleanupLeaves \/ IdleYields
           \/ CleanupHalts
           \/ UNCHANGED programVars
<1>0. /\ W!NumProducers \in Nat \ {0} /\ W!Producers = 1 .. W!NumProducers
      /\ ValidatorSlot = W!NumProducers + 1
      /\ CleanupSlot = ValidatorSlot + 1 /\ IdleSlot = CleanupSlot + 1
      /\ MonitorSlot = 0
  BY WorkFacts, SlotOrder DEF Parts, MonitorSlot
<1>1. /\ phase = 1 => ~complete
      /\ phase = 0 => ~complete
      /\ task \in [{"monitor", "validator", "cleanup"} ->
                      {"running", "leaving", "returned", "halted"}]
  BY WorkFacts DEF Parts, W!TypeOK
<1>2. CASE Monitor
  <2>1. current = 0 /\ Account /\ W!MonitorRound
    BY <1>2 DEF Monitor, Step, MonitorSlot
  <2>2. CASE complete
    <3>1. TaskReturn
      BY <1>2, <2>2 DEF Monitor, Step
    <3>2. task' = [task EXCEPT !["monitor"] = "returned"]
      BY <2>1, <2>2 DEF W!MonitorRound
    <3> QED  BY <1>0, <1>1, <2>1, <3>1, <3>2 DEF WorkerReturns
  <2>3. CASE ~complete
    <3>1. Sleep(MonitorPause) /\ task' = task
      BY <1>2, <2>3 DEF Monitor, Step, W!MonitorRound
    <3> QED  BY <1>0, <2>1, <2>3, <3>1 DEF WorkerSleeps, Pauses
  <2> QED  BY <2>2, <2>3
<1>3. ASSUME NEW p \in W!AnyProducer, Producer(p)
      PROVE  Account /\ (WorkerReturns \/ WorkerSleeps)
  <2>1. current = p /\ p \in 1 .. W!NumProducers /\ Account
    BY <1>0, <1>3 DEF Producer, Step, ProducerSlot
  <2>2. CASE complete
    <3>1. TaskReturn /\ UNCHANGED app
      BY <1>3, <2>2 DEF Producer, Step, Nothing, W!ProducerRound
    <3> QED  BY <1>0, <2>1, <3>1 DEF WorkerReturns, app
  <2>3. CASE ~complete
    <3>1. /\ \E pause \in {PoolPause, RetryPause, ProducePause} : Sleep(pause)
          /\ W!ProducerRound(p) \/ UNCHANGED app
      BY <1>3, <2>3 DEF Producer, Step, Nothing
    <3>2. task' = task
      BY <3>1 DEF W!ProducerRound, app
    <3> QED  BY <1>0, <2>1, <2>3, <3>1, <3>2 DEF WorkerSleeps, Pauses
  <2> QED  BY <2>2, <2>3
<1>4. CASE Validator
  <2>1. current = ValidatorSlot /\ Account
    BY <1>4 DEF Validator, Step
  <2>2. CASE W!ValidatorReturn /\ TaskReturn
    <3>1. task' = [task EXCEPT !["validator"] = "returned"]
      BY <2>2 DEF W!ValidatorReturn
    <3> QED  BY <1>0, <1>1, <2>1, <2>2, <3>1 DEF WorkerReturns
  <2>3. CASE phase \in {0, 1} /\ task' = task /\ \E pause \in Pauses : Sleep(pause)
    BY <1>0, <1>1, <2>1, <2>3 DEF WorkerSleeps
  <2>4. \/ phase = 0 /\ UNCHANGED app /\ Sleep(WaitPause)
        \/ (W!ValidatorStart \/ W!ValidatorRound) /\ Sleep(CheckPause)
        \/ W!ValidatorComplete /\ Sleep(LeavePause)
        \/ W!ValidatorReturn /\ TaskReturn
    BY <1>4 DEF Validator, Step, Nothing
  <2>5. W!ValidatorStart \/ W!ValidatorRound \/ W!ValidatorComplete =>
          phase \in {0, 1} /\ task' = task
    BY DEF W!ValidatorStart, W!ValidatorRound, W!ValidatorComplete
  <2>6. UNCHANGED app => task' = task
    BY DEF app
  <2>7. {WaitPause, CheckPause, LeavePause} \subseteq Pauses
    BY DEF Pauses
  <2> QED  BY <2>2, <2>3, <2>4, <2>5, <2>6, <2>7
<1>5. CASE Cleanup
  BY <1>5 DEF Cleanup, Step, Nothing, CleanupPolls, CleanupLeaves, CleanupHalts
<1>6. CASE Idle
  BY <1>6 DEF Idle, Step, Nothing, IdleYields
<1> QED  BY <1>2, <1>3, <1>4, <1>5, <1>6 DEF ProgramNext, Halted

\* A task that has returned stays so.
LEMMA TaskSteps ==
    ASSUME Parts, [ProgramNext]_programVars
    PROVE  \A k \in {"monitor", "validator"} : task[k] = "returned" => task'[k] = "returned"
<1>1. task \in [{"monitor", "validator", "cleanup"} ->
                   {"running", "leaving", "returned", "halted"}]
  BY WorkFacts DEF Parts, W!TypeOK
<1>2. [W!Next]_W!vars
  BY StepOfWorkQueue
<1>3. \A p : W!ProducerRound(p) => task' = task
  BY DEF W!ProducerRound
<1>4. W!MonitorRound \/ W!Validator =>
        \/ task' = task
        \/ task' = [task EXCEPT !["monitor"] = "returned"]
        \/ task' = [task EXCEPT !["validator"] = "returned"]
  BY DEF W!MonitorRound, W!Validator, W!ValidatorStart, W!ValidatorRound,
         W!ValidatorComplete, W!ValidatorReturn
<1>5. W!Cleanup => \/ task' = [task EXCEPT !["cleanup"] = "leaving"]
                   \/ task' = [task EXCEPT !["cleanup"] = "halted"]
  BY DEF W!Cleanup, W!CleanupLeave, W!CleanupHalt
<1>6. W!Halted \/ UNCHANGED W!vars => task' = task
  BY DEF W!Halted, W!vars
<1> QED  BY <1>1, <1>2, <1>3, <1>4, <1>5, <1>6 DEF W!Next

CourseInv == ClockInv /\ SlotsInv /\ TimelyInv /\ EndInv
Bounds    == Patient /\ NoWrap /\ N <= Half

\* The slots of the tasks, and how long their pauses are.
LEMMA SlotsOfTasks ==
    ASSUME Parts, IdleSlot \in Slots
    PROVE  /\ MonitorSlot \in Others /\ ValidatorSlot \in Others /\ CleanupSlot \in Slots
           /\ MonitorSlot \in Slots /\ ValidatorSlot \in Slots
           /\ CleanupSlot # IdleSlot
<1>1. /\ W!NumProducers \in Nat \ {0} /\ ValidatorSlot = W!NumProducers + 1
      /\ CleanupSlot = ValidatorSlot + 1 /\ IdleSlot = CleanupSlot + 1
      /\ MonitorSlot = 0
  BY WorkFacts, SlotOrder DEF Parts, MonitorSlot
<1>2. IdleSlot \in 0 .. N - 1 /\ N \in Nat
  BY NAssumption DEF Slots
<1>3. /\ MonitorSlot \in 0 .. N - 1 /\ ValidatorSlot \in 0 .. N - 1
      /\ CleanupSlot \in 0 .. N - 1 /\ CleanupSlot # IdleSlot
      /\ MonitorSlot \notin {CleanupSlot, IdleSlot}
      /\ ValidatorSlot \notin {CleanupSlot, IdleSlot}
  BY <1>1, <1>2
<1> QED  BY <1>3 DEF Others, Slots

LEMMA PauseRanges ==
    ASSUME Bounds
    PROVE  /\ HaltPause \in 1 .. Half /\ HaltPause \in Nat
           /\ \A pause \in Pauses : pause \in 0 .. Half /\ pause + N < HaltPause
<1>1. HaltPause \in 0 .. Half /\ \A pause \in Pauses : pause \in 0 .. Half
  BY PauseAssumption, DeltasAssumption DEF Pauses
<1>2. \A pause \in Pauses : pause + N < HaltPause
  BY DEF Bounds, Patient
<1>3. MonitorPause \in Pauses
  BY DEF Pauses
<1> QED  BY <1>1, <1>2, <1>3, NAssumption, HalfAssumption

LEMMA TickCosts ==
    ASSUME UsageInv, ClockInv, Bounds, Account, NEW use, NEW wake, NEW slept, NEW stay,
           Reschedule(use, wake, slept, stay)
    PROVE  /\ elapsed' = elapsed + 1 /\ elapsed < MaxElapsed /\ elapsed + HaltPause < TickMod
           /\ HaltPause \in 1 .. Half /\ elapsed + 1 < TickMod /\ ticks = elapsed
           /\ elapsed \in Nat
<1>1. ticks \in Ticks /\ ticks' = (ticks + 1) % TickMod
  BY DEF UsageInv, IndInv, TypeOK, Reschedule
<1>2. ticks' # ticks
  BY <1>1, TickMoves
<1>3. elapsed' = elapsed + 1 /\ elapsed < MaxElapsed
  BY <1>2 DEF Account
<1>4. HaltPause \in 1 .. Half
  BY PauseRanges
<1> QED
  BY <1>3, <1>4, ElapsedAssumption, HalfAssumption DEF ClockInv, Bounds, NoWrap, TickMod

\* What a call that ends with scheduler_yield has to leave to be one of the program.
LEMMA CallKeepsCourse ==
    ASSUME Parts, CourseInv, Bounds, config' = config, running # "main", Account,
           NEW use \in [Slots -> BOOLEAN], NEW wake \in [Slots -> Ticks], NEW slept, NEW stay,
           Reschedule(use, wake, slept, stay),
           use[IdleSlot], wake[IdleSlot] = 0, use[current] => inUse[current],
           \A i \in Slots : i # current => use[i] = inUse[i] /\ wake[i] = wakeTick[i],
           current # IdleSlot /\ use[current] => wake[current] > elapsed,
           wake[current] <= elapsed + Half,
           \A i \in Others : wake[i] + N < elapsed + 1 + HaltPause,
           use[CleanupSlot],
           use[MonitorSlot] \/ task'["monitor"] = "returned",
           use[ValidatorSlot] \/ task'["validator"] = "returned",
           task'["cleanup"] # "running" => complete',
           task'["cleanup"] # "halted",
           task'["cleanup"] = "leaving" =>
              \A i \in Others : use[i] => wake[i] + N < wake[CleanupSlot]
    PROVE  SlotsInv' /\ TimelyInv' /\ EndInv'
<1>1. UsageInv /\ ClockInv /\ SlotsInv /\ TimelyInv /\ EndInv /\ N <= Half
  BY DEF Parts, CourseInv, Bounds
<1>2. elapsed' = elapsed + 1 /\ elapsed + 1 < TickMod
  BY <1>1, TickCosts
<1>3. SlotsInv' /\ TimelyInv' /\ inUse' = use /\ wakeTick' = wake /\ running' # "main"
  BY <1>1, <1>2, RescheduleTimely
<1>4. /\ Others' = Others /\ CleanupSlot' = CleanupSlot /\ ValidatorSlot' = ValidatorSlot
      /\ MonitorSlot' = MonitorSlot
  BY SameSlots DEF Others, MonitorSlot, Slots
<1> QED  BY <1>2, <1>3, <1>4 DEF EndInv

LEMMA ReturnKeepsCourse ==
    ASSUME Parts, CourseInv, Bounds, [ProgramNext]_programVars, Account, WorkerReturns
    PROVE  SlotsInv' /\ TimelyInv' /\ EndInv'
<1> DEFINE use == [inUse EXCEPT ![current] = FALSE]
<1>1. /\ running = "worker" /\ current \notin {CleanupSlot, IdleSlot}
      /\ Reschedule(use, wakeTick, left, "lost")
      /\ current = MonitorSlot => task'["monitor"] = "returned"
      /\ current = ValidatorSlot => task'["validator"] = "returned"
      /\ task'["cleanup"] = task["cleanup"]
  BY DEF WorkerReturns, TaskReturn
<1>2. /\ SlotsInv /\ TimelyInv /\ EndInv /\ UsageInv /\ ClockInv
      /\ inUse \in [Slots -> BOOLEAN] /\ wakeTick \in [Slots -> Ticks]
      /\ current \in Slots /\ IdleSlot \in Slots /\ inUse[IdleSlot]
  BY <1>1 DEF CourseInv, Parts, UsageInv, IndInv, TypeOK, SlotsInv
<1>3. use \in [Slots -> BOOLEAN] /\ ~use[current] /\ \A i \in Slots : i # current => use[i] = inUse[i]
  BY <1>2
<1> HIDE DEF use
<1>4. config' = config /\ (complete => complete')
  BY WorkSteps
<1>5. MonitorSlot \in Slots /\ ValidatorSlot \in Slots /\ CleanupSlot \in Slots
  BY <1>2, SlotsOfTasks
<1>6. use[CleanupSlot]
  BY <1>1, <1>2, <1>3, <1>5 DEF EndInv
<1>7. use[MonitorSlot] \/ task'["monitor"] = "returned"
  BY <1>1, <1>2, <1>3, <1>5, TaskSteps DEF EndInv
<1>8. use[ValidatorSlot] \/ task'["validator"] = "returned"
  BY <1>1, <1>2, <1>3, <1>5, TaskSteps DEF EndInv
<1>9. task'["cleanup"] # "running" => complete'
  BY <1>1, <1>2, <1>4 DEF EndInv
<1>10. task'["cleanup"] # "halted"
  BY <1>1, <1>2 DEF EndInv
<1>11. task'["cleanup"] = "leaving" =>
          \A i \in Others : use[i] => wakeTick[i] + N < wakeTick[CleanupSlot]
  BY <1>1, <1>2, <1>3 DEF EndInv, Others
<1>12. \A i \in Slots : wakeTick[i] \in Nat
  BY <1>2, HalfAssumption DEF Ticks, TickMod
<1>13. elapsed \in Nat
  BY <1>2, ElapsedAssumption DEF ClockInv
<1>14. \A i \in Others : wakeTick[i] + N < elapsed + 1 + HaltPause
  <2>1. HaltPause \in Int
    BY <1>2, PauseRanges
  <2> QED  BY <1>2, <1>12, <1>13, <2>1, NAssumption DEF EndInv, Others
<1>15. wakeTick[current] <= elapsed + Half /\ wakeTick[IdleSlot] = 0 /\ use[IdleSlot]
  BY <1>1, <1>2, <1>3 DEF TimelyInv
<1> QED
  BY <1>1, <1>2, <1>3, <1>4, <1>6, <1>7, <1>8, <1>9, <1>10, <1>11, <1>14, <1>15, CallKeepsCourse
\* A sleeper wakes after all the others that could wake before its last pause.
LEMMA SleepKeepsCourse ==
    ASSUME Parts, CourseInv, Bounds, [ProgramNext]_programVars, Account,
           NEW d \in 0 .. HaltPause, Sleep(d),
           current # IdleSlot, current # CleanupSlot => d \in Pauses,
           task'["cleanup"] = "running" \/
              (task'["cleanup"] = "leaving" /\ complete /\ current = CleanupSlot /\ d = HaltPause)
    PROVE  SlotsInv' /\ TimelyInv' /\ EndInv'
<1> DEFINE delta == IF d = 0 THEN 1 ELSE d
           wake  == [wakeTick EXCEPT ![current] = (ticks + delta) % TickMod]
           slept == IF orphan THEN left ELSE [left EXCEPT ![current] = delta]
<1>1. running = "worker" /\ Reschedule(inUse, wake, slept, running)
  BY DEF Sleep
<1>2. /\ SlotsInv /\ TimelyInv /\ EndInv /\ UsageInv /\ ClockInv
      /\ inUse \in [Slots -> BOOLEAN] /\ wakeTick \in [Slots -> Ticks]
      /\ current \in Slots /\ IdleSlot \in Slots /\ inUse[IdleSlot] /\ inUse[current]
      /\ inUse[CleanupSlot] /\ wakeTick[IdleSlot] = 0
  BY <1>1 DEF CourseInv, Parts, UsageInv, IndInv, TypeOK, SlotsInv, TimelyInv, EndInv
<1>3. /\ elapsed \in Nat /\ ticks = elapsed /\ elapsed + HaltPause < TickMod
      /\ HaltPause \in 1 .. Half /\ HaltPause \in Nat /\ N \in Nat
      /\ \A pause \in Pauses : pause \in 0 .. Half /\ pause + N < HaltPause
  <2> HIDE DEF wake, slept
  <2> QED  BY <1>1, <1>2, TickCosts, PauseRanges, NAssumption
<1>4. /\ delta \in 1 .. HaltPause
      /\ current # CleanupSlot => delta + N <= HaltPause
  BY <1>3
<1>5. (ticks + delta) % TickMod = elapsed + delta /\ elapsed + delta \in Ticks
  <2>1. elapsed + delta \in 0 .. TickMod - 1 /\ TickMod \in Nat \ {0}
    BY <1>3, <1>4, HalfAssumption DEF TickMod
  <2> QED  BY <1>3, <2>1, ModSmall DEF Ticks
<1>6. /\ wake \in [Slots -> Ticks] /\ wake[current] = elapsed + delta
      /\ \A i \in Slots : i # current => wake[i] = wakeTick[i]
  BY <1>2, <1>5
<1> HIDE DEF wake, slept
<1>7. d = HaltPause => delta = HaltPause
  BY <1>3
<1> HIDE DEF delta
<1>8. config' = config /\ (complete => complete')
  BY WorkSteps
<1>9. /\ CleanupSlot \in Slots /\ CleanupSlot \notin Others /\ \A i \in Others : i \in Slots
      /\ IdleSlot # current
  BY <1>2, SlotsOfTasks DEF Others
<1>10. \A i \in Slots : wakeTick[i] \in Nat
  BY <1>2, HalfAssumption DEF Ticks, TickMod
<1>11. \A i \in Others : i # current => wake[i] + N < elapsed + HaltPause
  BY <1>2, <1>6, <1>9 DEF EndInv
<1>12. \A i \in Others : wake[i] + N < elapsed + 1 + HaltPause
  <2> SUFFICES ASSUME NEW i \in Others PROVE wake[i] + N < elapsed + 1 + HaltPause
    OBVIOUS
  <2>1. wake[i] \in Int
    BY <1>6, <1>9, HalfAssumption DEF Ticks, TickMod
  <2>2. CASE i # current
    BY <1>3, <1>11, <2>1, <2>2
  <2>3. CASE i = current
    BY <1>3, <1>4, <1>6, <1>9, <2>3
  <2> QED  BY <2>2, <2>3
<1>13. task'["cleanup"] = "leaving" =>
          \A i \in Others : inUse[i] => wake[i] + N < wake[CleanupSlot]
  BY <1>6, <1>7, <1>9, <1>11
<1>14. wake[current] > elapsed /\ wake[current] <= elapsed + Half
  BY <1>3, <1>4, <1>6, HalfAssumption
<1>15. wake[IdleSlot] = 0
  BY <1>2, <1>6, <1>9
<1>16. /\ inUse[MonitorSlot] \/ task'["monitor"] = "returned"
       /\ inUse[ValidatorSlot] \/ task'["validator"] = "returned"
  BY <1>1, <1>2, TaskSteps DEF EndInv
<1>17. /\ task'["cleanup"] # "running" => complete'
       /\ task'["cleanup"] # "halted"
  BY <1>8
<1>18. running # "main"
  BY <1>1
<1> QED
  BY <1>1, <1>2, <1>6, <1>8, <1>12, <1>13, <1>14, <1>15, <1>16, <1>17, <1>18, CallKeepsCourse

LEMMA SleepersKeepCourse ==
    ASSUME Parts, CourseInv, Bounds, [ProgramNext]_programVars, Account,
           WorkerSleeps \/ CleanupPolls \/ CleanupLeaves
    PROVE  SlotsInv' /\ TimelyInv' /\ EndInv'
<1>1. /\ HaltPause \in Nat /\ \A pause \in Pauses : pause \in 0 .. HaltPause
  BY PauseRanges, NAssumption, HalfAssumption
<1>2. /\ task \in [{"monitor", "validator", "cleanup"} ->
                      {"running", "leaving", "returned", "halted"}]
      /\ ~complete => task["cleanup"] = "running"
  BY WorkFacts DEF Parts, W!TypeOK, CourseInv, EndInv
<1>3. IdleSlot # CleanupSlot
  BY WorkFacts, SlotOrder DEF Parts
<1>4. CASE WorkerSleeps
  <2>1. /\ current \notin {CleanupSlot, IdleSlot} /\ task'["cleanup"] = "running"
    BY <1>2, <1>4 DEF WorkerSleeps
  <2>2. PICK pause \in Pauses : Sleep(pause)
    BY <1>4 DEF WorkerSleeps
  <2> QED  BY <1>1, <2>1, <2>2, SleepKeepsCourse
<1>5. CASE CleanupPolls
  <2>1. /\ current = CleanupSlot /\ task'["cleanup"] = "running" /\ Sleep(PollPause)
    BY <1>2, <1>5 DEF CleanupPolls, app
  <2>2. PollPause \in 0 .. HaltPause
    BY <1>1 DEF Pauses
  <2> QED  BY <1>3, <2>1, <2>2, SleepKeepsCourse
<1>6. CASE CleanupLeaves
  <2>1. /\ current = CleanupSlot /\ task'["cleanup"] = "leaving" /\ complete
        /\ Sleep(HaltPause)
    BY <1>2, <1>6 DEF CleanupLeaves, W!CleanupLeave
  <2>2. HaltPause \in 0 .. HaltPause
    BY <1>1
  <2> QED  BY <1>3, <2>1, <2>2, SleepKeepsCourse
<1> QED  BY <1>4, <1>5, <1>6

LEMMA IdleKeepsCourse ==
    ASSUME Parts, CourseInv, Bounds, [ProgramNext]_programVars, Account, IdleYields
    PROVE  SlotsInv' /\ TimelyInv' /\ EndInv'
<1>1. /\ current = IdleSlot /\ UNCHANGED app
      /\ Reschedule(inUse, wakeTick, left, running) /\ running \in {"idle", "worker"}
  BY DEF IdleYields, Yield
<1>2. running # "main"
  BY <1>1
<1>3. /\ SlotsInv /\ TimelyInv /\ EndInv /\ UsageInv /\ ClockInv
      /\ inUse \in [Slots -> BOOLEAN] /\ wakeTick \in [Slots -> Ticks]
      /\ IdleSlot \in Slots /\ inUse[IdleSlot] /\ inUse[CleanupSlot] /\ wakeTick[IdleSlot] = 0
  BY <1>2 DEF CourseInv, Parts, UsageInv, IndInv, TypeOK, SlotsInv, TimelyInv, EndInv
<1>4. /\ elapsed \in Nat /\ HaltPause \in Nat /\ N \in Nat /\ Half \in Nat
  BY <1>1, <1>3, TickCosts, PauseRanges, NAssumption, HalfAssumption
<1>5. \A i \in Others : wakeTick[i] + N < elapsed + 1 + HaltPause
  <2>1. \A i \in Others : wakeTick[i] \in Nat
    BY <1>3, HalfAssumption DEF Ticks, TickMod, Others
  <2> QED  BY <1>3, <1>4, <2>1 DEF EndInv
<1>6. config' = config /\ task' = task /\ complete' = complete
  BY <1>1 DEF app
<1>7. task["cleanup"] # "halted"
  BY <1>1, <1>3, SlotsOfTasks DEF EndInv
<1>8. wakeTick[current] <= elapsed + Half
  BY <1>1, <1>3, <1>4
<1>9. /\ inUse[MonitorSlot] \/ task'["monitor"] = "returned"
      /\ inUse[ValidatorSlot] \/ task'["validator"] = "returned"
      /\ task'["cleanup"] # "running" => complete'
      /\ task'["cleanup"] # "halted"
      /\ task'["cleanup"] = "leaving" =>
           \A i \in Others : inUse[i] => wakeTick[i] + N < wakeTick[CleanupSlot]
  BY <1>2, <1>3, <1>6, <1>7 DEF EndInv
<1> QED
  BY <1>1, <1>2, <1>3, <1>5, <1>6, <1>8, <1>9, CallKeepsCourse

\* When cleanup halts the machine the others are gone: they would have been a
\* round of the slots late.
LEMMA HaltKeepsCourse ==
    ASSUME Parts, CourseInv, Bounds, CleanupHalts
    PROVE  SlotsInv' /\ TimelyInv' /\ EndInv'
<1>1. /\ current = CleanupSlot /\ UNCHANGED usageVars /\ task["cleanup"] = "leaving"
      /\ task' = [task EXCEPT !["cleanup"] = "halted"] /\ UNCHANGED <<config, complete>>
  BY DEF CleanupHalts, W!CleanupHalt, W!validator
<1>2. SlotsInv /\ TimelyInv /\ EndInv /\ IndInv /\ ClockInv
  BY DEF CourseInv, Parts, UsageInv
<1>3. running # "main" /\ complete
  BY <1>1, <1>2 DEF EndInv
<1>4. /\ IdleSlot' = IdleSlot /\ CleanupSlot' = CleanupSlot /\ Others' = Others
      /\ ValidatorSlot' = ValidatorSlot /\ MonitorSlot' = MonitorSlot
  BY <1>1, SameSlots DEF Others, MonitorSlot, Slots
<1>5. UNCHANGED <<fn, inUse, wakeTick, current, idleTask, running, waited, elapsed>>
  BY <1>1 DEF usageVars, usage, vars
<1>6. \A k \in {"monitor", "validator"} : task'[k] = task[k]
  BY <1>1, WorkFacts DEF Parts, W!TypeOK
<1>7. task'["cleanup"] = "halted"
  BY <1>1, WorkFacts DEF Parts, W!TypeOK
<1>8. \A i \in Others : ~inUse[i]
  <2> SUFFICES ASSUME NEW i \in Others, inUse[i] PROVE FALSE
    OBVIOUS
  <2>1. wakeTick[i] + N < wakeTick[CleanupSlot]
    BY <1>1, <1>2 DEF EndInv
  <2>2. i \in Slots /\ i # current /\ i # IdleSlot
    BY <1>1 DEF Others
  <2>3. elapsed < wakeTick[i] + N
    BY <1>2, <1>3, <2>2, NeverLate
  <2>4. wakeTick[CleanupSlot] <= elapsed
    BY <1>1, <1>2, <1>3 DEF TimelyInv
  <2>5. wakeTick[CleanupSlot] \in Nat /\ wakeTick[i] \in Nat /\ elapsed \in Nat /\ N \in Nat
    <3>1. CleanupSlot \in Slots
      BY <1>1, <1>2, <1>3 DEF SlotsInv
    <3> QED
      BY <1>2, <2>2, <3>1, HalfAssumption, NAssumption, ElapsedAssumption
         DEF IndInv, TypeOK, Ticks, TickMod, ClockInv
  <2> QED  BY <2>1, <2>3, <2>4, <2>5
<1>9. SlotsInv'
  <2>1. \A n : Filled(n) => Filled(n)'
    BY <1>4, <1>5 DEF Filled
  <2> QED  BY <1>2, <1>3, <1>4, <1>5 DEF SlotsInv
<1>10. TimelyInv'
  BY <1>2, <1>3, <1>4, <1>5 DEF TimelyInv, Late, RoundInv, Around
<1>11. EndInv'
  BY <1>1, <1>2, <1>3, <1>4, <1>5, <1>6, <1>7, <1>8 DEF EndInv
<1> QED  BY <1>9, <1>10, <1>11

LEMMA InitCourse == ASSUME Bounds PROVE ProgramInit => SlotsInv /\ TimelyInv /\ EndInv
<1> SUFFICES ASSUME ProgramInit PROVE SlotsInv /\ TimelyInv /\ EndInv
  OBVIOUS
<1>1. /\ running = "main" /\ idleTask = NoTask /\ elapsed = 0
      /\ wakeTick = [i \in Slots |-> 0] /\ inUse = [i \in Slots |-> FALSE]
  BY DEF ProgramInit, UsageInit, Init
<1>2. task["cleanup"] = "running"
  BY DEF ProgramInit, W!Init
<1>3. IdleSlot \in Nat
  BY InitParts, WorkFacts, SlotOrder DEF Parts
<1>4. \A i \in Slots : i \in Nat /\ ~(i < 0)
  BY NAssumption DEF Slots
<1>5. Filled(0) /\ 0 \in 0 .. IdleSlot + 1 /\ 0 <= N
  BY <1>1, <1>3, <1>4, NAssumption DEF Filled
<1>6. N < HaltPause
  BY PauseRanges, NAssumption, HalfAssumption DEF Pauses
<1>7. \A i \in Others : wakeTick[i] + N < elapsed + HaltPause
  BY <1>1, <1>6, PauseRanges, NAssumption DEF Others
<1> QED  BY <1>1, <1>2, <1>5, <1>7 DEF SlotsInv, TimelyInv, EndInv

\* main() registers the next task of its list.
LEMMA AddKeepsCourse ==
    ASSUME Parts, CourseInv, Bounds, UNCHANGED app, Account, NEW f \in {"worker", "idle"}, Add(f),
           IF f = "idle" THEN Registered = IdleSlot ELSE Registered < IdleSlot
    PROVE  SlotsInv' /\ TimelyInv' /\ EndInv'
<1>1. /\ running = "main" /\ ticks' = ticks
      /\ UNCHANGED <<idleTask, running, ticks, current>>
  BY MainAssumption DEF Add, MayAdd
<1>2. /\ SlotsInv /\ EndInv /\ IndInv /\ elapsed = 0 /\ elapsed' = elapsed
      /\ wakeTick = [i \in Slots |-> 0]
  <2>1. SlotsInv /\ EndInv /\ IndInv
    BY DEF CourseInv, Parts, UsageInv
  <2>2. elapsed' = elapsed
    BY <1>1 DEF Account, usage
  <2>3. elapsed = 0 /\ \A i \in Slots : wakeTick[i] = 0
    BY <1>1, <2>1 DEF SlotsInv
  <2>4. wakeTick = [i \in Slots |-> 0]
    BY <2>1, <2>3 DEF IndInv, TypeOK
  <2> QED  BY <2>1, <2>2, <2>3, <2>4
<1>3. PICK n \in 0 .. IdleSlot + 1 : n <= N /\ Filled(n)
  BY <1>1, <1>2 DEF SlotsInv
<1>4. IdleSlot \in Nat /\ N \in Nat \ {0} /\ n \in Nat
  BY <1>3, WorkFacts, SlotOrder, NAssumption DEF Parts
<1>5. Registered = n
  <2>1. {i \in Slots : inUse[i]} = 0 .. n - 1
    <3>1. ASSUME NEW i, i \in Slots, inUse[i] PROVE i \in 0 .. n - 1
      BY <1>3, <1>4, <3>1 DEF Filled, Slots
    <3>2. ASSUME NEW i \in 0 .. n - 1 PROVE i \in Slots /\ inUse[i]
      BY <1>3, <1>4 DEF Filled, Slots
    <3> QED  BY <3>1, <3>2
  <2>2. Cardinality(0 .. n - 1) = n
    BY <1>4, FS_Interval
  <2> QED  BY <2>1, <2>2 DEF Registered
<1>6. PICK slot \in Slots :
        /\ FreeSlot(slot)
        /\ fn' = [fn EXCEPT ![slot] = f]
        /\ inUse' = [inUse EXCEPT ![slot] = TRUE]
        /\ wakeTick' = [wakeTick EXCEPT ![slot] = 0]
  BY DEF Add
<1>7. slot = n
  <2>1. slot \in 0 .. N - 1 /\ ~(slot < n)
    BY <1>3, <1>6 DEF FreeSlot, Filled, Slots
  <2>2. n \in Slots /\ (n < slot => inUse[n])
    BY <1>4, <1>6, <2>1 DEF FreeSlot, Slots
  <2> QED  BY <1>3, <1>4, <2>1, <2>2 DEF Filled
<1>8. /\ IdleSlot' = IdleSlot /\ CleanupSlot' = CleanupSlot /\ Others' = Others
      /\ UNCHANGED <<task, complete>>
  BY SameSlots DEF Others, Slots, app
<1>9. \A i \in Slots : wakeTick'[i] = 0
  BY <1>2, <1>6
<1>10. n + 1 \in 0 .. IdleSlot + 1 /\ n + 1 <= N
  BY <1>4, <1>5, <1>7 DEF Slots
<1>11. Filled(n + 1)'
  <2>1. inUse \in [Slots -> BOOLEAN] /\ fn \in [Slots -> {"none", "worker", "idle"}]
    BY <1>2 DEF IndInv, TypeOK
  <2> SUFFICES ASSUME NEW i \in Slots
               PROVE  /\ inUse'[i] <=> i < n + 1
                      /\ inUse'[i] => fn'[i] = IF i = IdleSlot THEN "idle" ELSE "worker"
    BY <1>8 DEF Filled
  <2>2. i \in Int
    BY DEF Slots
  <2>3. CASE i = slot
    <3>1. inUse'[i] /\ fn'[i] = f
      BY <1>6, <2>1, <2>3
    <3>2. (i = IdleSlot) <=> (f = "idle")
      BY <1>4, <1>5, <1>7, <2>3
    <3> QED  BY <1>4, <1>7, <2>3, <3>1, <3>2
  <2>4. CASE i # slot
    <3>1. inUse'[i] = inUse[i] /\ fn'[i] = fn[i]
      BY <1>6, <2>1, <2>4
    <3>2. (i < n + 1) <=> (i < n)
      BY <1>4, <1>7, <2>2, <2>4
    <3> QED  BY <1>3, <3>1, <3>2 DEF Filled
  <2> QED  BY <2>3, <2>4
<1>12. SlotsInv' /\ TimelyInv'
  BY <1>1, <1>2, <1>8, <1>9, <1>10, <1>11 DEF SlotsInv, TimelyInv
<1>13. \A i \in Others' : wakeTick'[i] + N < elapsed' + HaltPause
  <2>1. N < HaltPause /\ HaltPause \in Nat
    BY PauseRanges, NAssumption, HalfAssumption DEF Pauses
  <2> QED  BY <1>2, <1>8, <1>9, <2>1, NAssumption DEF Others
<1>14. task'["cleanup"] = "running"
  BY <1>1, <1>2, <1>8 DEF EndInv
<1>15. EndInv'
  BY <1>1, <1>13, <1>14 DEF EndInv
<1> QED  BY <1>12, <1>15

\* scheduler_run starts the first of them.
LEMMA RunKeepsCourse ==
    ASSUME Parts, CourseInv, Bounds, UNCHANGED app, Account, Run, HasIdle
    PROVE  SlotsInv' /\ TimelyInv' /\ EndInv'
<1>1. running = "main" /\ UNCHANGED <<fn, inUse, wakeTick, ticks, idleTask, left, waited>>
  BY DEF Run
<1>2. /\ SlotsInv /\ EndInv /\ IndInv /\ elapsed = 0 /\ elapsed' = elapsed /\ idleTask = NoTask
      /\ \A i \in Slots : wakeTick[i] = 0 /\ waited[i] = 0
  <2>1. SlotsInv /\ EndInv /\ IndInv
    BY DEF CourseInv, Parts, UsageInv
  <2>2. elapsed' = elapsed
    BY <1>1 DEF Account, usage
  <2> QED  BY <1>1, <2>1, <2>2 DEF SlotsInv, IndInv, ControlInv
<1>3. PICK n \in 0 .. IdleSlot + 1 : n <= N /\ Filled(n)
  BY <1>1, <1>2 DEF SlotsInv
<1>4. IdleSlot \in Nat /\ N \in Nat \ {0} /\ n \in Nat
  BY <1>3, WorkFacts, SlotOrder, NAssumption DEF Parts
<1>5. PICK i \in Slots : inUse[i] /\ fn[i] = "idle"
  BY DEF HasIdle
<1>6. i = IdleSlot /\ IdleSlot < n
  BY <1>3, <1>5 DEF Filled
<1>7. n = IdleSlot + 1 /\ IdleSlot \in Slots
  BY <1>3, <1>4, <1>5, <1>6
<1> DEFINE ready == Ready(inUse, wakeTick, ticks)
           next  == FindNext(NoTask, ready)
<1>8. ready \in SUBSET Slots /\ IdleSlot \in ready /\ \A k \in ready : inUse[k]
  BY <1>2, <1>5, <1>6 DEF Ready, Due
<1>9. next \in ready /\ next # NoTask
  <2>1. NoTask \notin Slots
    BY DEF NoTask, Slots
  <2> QED  BY <1>2, <1>8, <2>1, FindNextSound
<1>10. current' = next /\ running' = fn[next]
  BY <1>9 DEF Run, SwitchTo
<1> HIDE DEF ready, next
<1>11. next \in Slots /\ inUse[next]
  BY <1>8, <1>9
<1>12. \A k \in Slots : inUse[k] => k <= IdleSlot /\ fn[k] = IF k = IdleSlot THEN "idle" ELSE "worker"
  BY <1>3, <1>4, <1>7 DEF Filled, Slots
<1>13. running' # "main"
  BY <1>10, <1>11, <1>12
<1>14. /\ IdleSlot' = IdleSlot /\ CleanupSlot' = CleanupSlot /\ Others' = Others
       /\ ValidatorSlot' = ValidatorSlot /\ MonitorSlot' = MonitorSlot
       /\ UNCHANGED <<task, complete>>
  BY SameSlots DEF Others, Slots, MonitorSlot, app
<1>15. SlotsInv'
  BY <1>1, <1>2, <1>5, <1>6, <1>10, <1>11, <1>12, <1>13, <1>14 DEF SlotsInv
<1>16. TimelyInv'
  <2>1. Half \in Nat
    BY HalfAssumption
  <2>2. RoundInv'
    <3>1. current' \in 0 .. IdleSlot /\ \A k \in 0 .. IdleSlot : k \in Slots /\ waited'[k] = 0
      BY <1>1, <1>2, <1>4, <1>7, <1>10, <1>11, <1>12 DEF Slots
    <3> QED  BY <1>4, <1>14, <3>1 DEF RoundInv, Around
  <2> QED
    BY <1>1, <1>2, <1>7, <1>10, <1>11, <1>13, <1>14, <2>1, <2>2 DEF TimelyInv, Late
<1>17. inUse[CleanupSlot] /\ inUse[MonitorSlot] /\ inUse[ValidatorSlot]
  <2>1. /\ W!NumProducers \in Nat \ {0} /\ ValidatorSlot = W!NumProducers + 1
        /\ CleanupSlot = ValidatorSlot + 1 /\ IdleSlot = CleanupSlot + 1
        /\ MonitorSlot = 0
    BY WorkFacts, SlotOrder DEF Parts, MonitorSlot
  <2>2. CleanupSlot \in Slots /\ MonitorSlot \in Slots /\ ValidatorSlot \in Slots
    BY <1>7, SlotsOfTasks
  <2> QED  BY <1>3, <1>7, <2>1, <2>2 DEF Filled
<1>18. task'["cleanup"] = "running"
  BY <1>1, <1>2, <1>14 DEF EndInv
<1>19. EndInv'
  BY <1>1, <1>2, <1>13, <1>14, <1>17, <1>18 DEF EndInv
<1> QED  BY <1>15, <1>16, <1>19

LEMMA NextCourse ==
    ASSUME Bounds
    PROVE  Parts /\ StampInv /\ CourseInv /\ [ProgramNext]_programVars /\ StampInv' => CourseInv'
<1> SUFFICES ASSUME Parts, StampInv, CourseInv, [ProgramNext]_programVars, StampInv' PROVE CourseInv'
  OBVIOUS
<1>1. ClockInv'
  BY DEF StampInv
<1>2. CASE Boot
  <2>1. Account /\ UNCHANGED app
    BY <1>2 DEF Boot, Nothing
  <2>2. \/ Registered < IdleSlot /\ Add("worker")
        \/ Registered = IdleSlot /\ Add("idle")
        \/ HasIdle /\ Run
    BY <1>2 DEF Boot
  <2>3. CASE Registered < IdleSlot /\ Add("worker")
    BY <1>1, <2>1, <2>3, AddKeepsCourse DEF CourseInv
  <2>4. CASE Registered = IdleSlot /\ Add("idle")
    BY <1>1, <2>1, <2>4, AddKeepsCourse DEF CourseInv
  <2>5. CASE HasIdle /\ Run
    BY <1>1, <2>1, <2>5, RunKeepsCourse DEF CourseInv
  <2> QED  BY <2>2, <2>3, <2>4, <2>5
<1>3. CASE Account /\ WorkerReturns
  BY <1>1, <1>3, ReturnKeepsCourse DEF CourseInv
<1>4. CASE Account /\ (WorkerSleeps \/ CleanupPolls \/ CleanupLeaves)
  BY <1>1, <1>4, SleepersKeepCourse DEF CourseInv
<1>5. CASE Account /\ IdleYields
  BY <1>1, <1>5, IdleKeepsCourse DEF CourseInv
<1>6. CASE CleanupHalts
  BY <1>1, <1>6, HaltKeepsCourse DEF CourseInv
<1>7. CASE UNCHANGED programVars
  <2>1. UNCHANGED <<fn, inUse, wakeTick, current, idleTask, running, waited, elapsed,
                    config, task, complete>>
    BY <1>7 DEF programVars, usageVars, usage, vars, app
  <2>2. /\ IdleSlot' = IdleSlot /\ CleanupSlot' = CleanupSlot /\ Others' = Others
        /\ ValidatorSlot' = ValidatorSlot /\ MonitorSlot' = MonitorSlot
    BY <2>1, SameSlots DEF Others, Slots, MonitorSlot
  <2>3. \A n : Filled(n) => Filled(n)'
    BY <2>1, <2>2 DEF Filled
  <2>4. SlotsInv' /\ TimelyInv' /\ EndInv'
    BY <2>1, <2>2, <2>3 DEF CourseInv, SlotsInv, TimelyInv, Late, RoundInv, Around, EndInv
  <2> QED  BY <1>1, <2>4 DEF CourseInv
<1> QED  BY <1>2, <1>3, <1>4, <1>5, <1>6, <1>7, Calling

-----------------------------------------------------------------------------
(* The topics                                                                *)

\* How often a producer can publish between two rounds of the monitor, which
\* come late by a tick for every other task that runs in between, if these
\* ticks do not make up for another pause; and room for that many messages.
Rounds == MonitorPause \div ProducePause + 1
Paced ==
    /\ ProducePause > 0
    /\ \A b \in Configs :
          /\ (MonitorPause % ProducePause) + b.producers + 2 < ProducePause
          /\ b.producers * Rounds < Capacity

\* The rounds a producer can have taken since the monitor's last one, from when
\* the two are to wake; and an account of a topic's messages, each the work of
\* some round of some producer.
Span(p) == (wakeTick[p] + MonitorPause - wakeTick[MonitorSlot]) \div ProducePause
Accounted(c) ==
    \E S \in SUBSET (W!Producers \X (1 .. Rounds)) :
        Cardinality(S) = Len(queue[c]) /\ \A s \in S : s[2] <= Span(s[1])
QueueInv ==
    /\ \A p \in W!Producers : pending[p] = W!NoItem
    /\ running = "main" => \A c \in W!Consumers : queue[c] = <<>>
    /\ running # "main" /\ ~complete =>
          /\ inUse[MonitorSlot]
          /\ wakeTick[MonitorSlot] = 0 => current = MonitorSlot
          /\ wakeTick[MonitorSlot] <= elapsed + MonitorPause
          /\ \A c \in W!Consumers : Accounted(c)

LEMMA DivMono ==
    ASSUME NEW a \in Int, NEW b \in Int, NEW n \in Nat \ {0}, a <= b
    PROVE  a \div n <= b \div n /\ a \div n \in Int
<1>1. PICK q \in Int : q = a \div n
  OBVIOUS
<1>2. PICK r \in Int : r = b \div n
  OBVIOUS
<1>3. n * q <= a /\ b < n * (r + 1)
  BY <1>1, <1>2
<1>4. ASSUME r < q PROVE FALSE
  <2>1. r + 1 <= q
    BY <1>4
  <2>2. n * (r + 1) <= n * q
    BY <2>1
  <2> QED  BY <1>3, <2>2
<1> QED  BY <1>1, <1>2, <1>4

LEMMA DivNext ==
    ASSUME NEW a \in Int, NEW n \in Nat \ {0}
    PROVE  (a + n) \div n = (a \div n) + 1
OBVIOUS

\* Less than a divisor more, counted from the remainder, is no quotient more.
LEMMA DivSame ==
    ASSUME NEW a \in Nat, NEW d \in Nat, NEW n \in Nat \ {0}, (a % n) + d < n
    PROVE  (a + d) \div n = a \div n
OBVIOUS

LEMMA DivNat ==
    ASSUME NEW a \in Nat, NEW n \in Nat \ {0}
    PROVE  a \div n \in Nat
OBVIOUS

\* Whose turn it is, and what becomes of the topics in it.
Passing == UNCHANGED <<queue, pending>>
GivesUp == Account /\ (Yield \/ TaskReturn \/ \E d \in 0 .. HaltPause : Sleep(d))

LEMMA Turns ==
    ASSUME Parts, [ProgramNext]_programVars, Bounds
    PROVE  \/ Boot /\ Passing
           \/ /\ current = MonitorSlot /\ W!MonitorRound /\ Account
              /\ \/ complete /\ TaskReturn
                 \/ ~complete /\ Sleep(MonitorPause)
           \/ /\ ~complete /\ Account
              /\ \E p \in W!Producers :
                    /\ current = p /\ W!ProducerRound(p)
                    /\ \/ Retried(p) /\ Sleep(RetryPause)
                       \/ ~Retried(p) /\ Sleep(ProducePause)
           \/ current # MonitorSlot /\ Passing /\ (GivesUp \/ UNCHANGED usageVars)
           \/ UNCHANGED programVars
<1>0. /\ W!NumProducers \in Nat \ {0} /\ W!Producers = 1 .. W!NumProducers
      /\ ValidatorSlot = W!NumProducers + 1
      /\ CleanupSlot = ValidatorSlot + 1 /\ IdleSlot = CleanupSlot + 1
      /\ MonitorSlot = 0
  BY WorkFacts, SlotOrder DEF Parts, MonitorSlot
<1>1. /\ HaltPause \in 0 .. HaltPause /\ \A pause \in Pauses : pause \in 0 .. HaltPause
  BY PauseRanges, NAssumption, HalfAssumption
<1>2. UNCHANGED app => Passing
  BY DEF app, Passing
<1>3. CASE Boot
  BY <1>2, <1>3 DEF Boot, Nothing
<1>4. CASE Monitor
  BY <1>4 DEF Monitor, Step
<1>5. ASSUME NEW p \in W!AnyProducer, Producer(p)
      PROVE  \/ /\ p \in W!Producers /\ ~complete /\ Account /\ current = p /\ W!ProducerRound(p)
                /\ \/ Retried(p) /\ Sleep(RetryPause)
                   \/ ~Retried(p) /\ Sleep(ProducePause)
             \/ current # MonitorSlot /\ Passing /\ GivesUp
  <2>1. p \in W!Producers /\ current = p /\ current # MonitorSlot /\ Account
    BY <1>0, <1>5 DEF Producer, Step, ProducerSlot
  <2>2. CASE complete
    <3>1. TaskReturn /\ UNCHANGED app
      BY <1>5, <2>2 DEF Producer, Step, Nothing, W!ProducerRound
    <3> QED  BY <1>2, <2>1, <3>1 DEF GivesUp
  <2>3. CASE ~complete /\ Sleep(PoolPause) /\ UNCHANGED app
    BY <1>1, <1>2, <2>1, <2>3 DEF GivesUp, Pauses
  <2>4. CASE /\ ~complete /\ W!ProducerRound(p)
             /\ \/ Retried(p) /\ Sleep(RetryPause)
                \/ ~Retried(p) /\ Sleep(ProducePause)
    BY <2>1, <2>4
  <2> QED  BY <1>5, <2>2, <2>3, <2>4 DEF Producer, Step, Nothing
<1>6. CASE Validator
  <2>1. current # MonitorSlot /\ Account
    BY <1>0, <1>6 DEF Validator, Step
  <2>2. UNCHANGED app \/ W!Validator
    BY <1>6 DEF Validator, Step, Nothing, W!Validator
  <2>3. W!Validator => Passing
    BY DEF W!Validator, W!ValidatorStart, W!ValidatorRound, W!ValidatorComplete,
           W!ValidatorReturn, W!items, Passing
  <2>4. TaskReturn \/ \E pause \in {WaitPause, CheckPause, LeavePause} : Sleep(pause)
    BY <1>6 DEF Validator, Step
  <2> QED  BY <1>1, <1>2, <2>1, <2>2, <2>3, <2>4 DEF GivesUp, Pauses
<1>7. CASE Cleanup
  <2>1. current # MonitorSlot
    BY <1>0, <1>7 DEF Cleanup
  <2>2. Passing
    BY <1>2, <1>7 DEF Cleanup, Step, Nothing, W!CleanupLeave, W!CleanupHalt, W!items, Passing
  <2>3. \/ Account /\ (Sleep(PollPause) \/ Sleep(HaltPause))
        \/ UNCHANGED usageVars
    BY <1>7 DEF Cleanup, Step
  <2> QED  BY <1>1, <2>1, <2>2, <2>3 DEF GivesUp, Pauses
<1>8. CASE Idle
  BY <1>0, <1>2, <1>8 DEF Idle, Step, Nothing, GivesUp
<1>9. CASE Halted \/ UNCHANGED programVars
  BY <1>9 DEF Halted
<1> QED  BY <1>3, <1>4, <1>5, <1>6, <1>7, <1>8, <1>9 DEF ProgramNext

\* What a call does to the wake ticks, with the time it takes.
LEMMA CallWakes ==
    ASSUME Parts, CourseInv, Bounds, Account, Yield \/ TaskReturn \/ \E d \in 0 .. HaltPause : Sleep(d)
    PROVE  /\ running # "main" /\ current \in Slots /\ elapsed \in Nat /\ elapsed' = elapsed + 1
           /\ Yield => UNCHANGED <<wakeTick, inUse>>
           /\ TaskReturn => wakeTick' = wakeTick /\ inUse' = [inUse EXCEPT ![current] = FALSE]
           /\ \A d \in 0 .. HaltPause : Sleep(d) =>
                 /\ wakeTick' = [wakeTick EXCEPT ![current] = elapsed + IF d = 0 THEN 1 ELSE d]
                 /\ inUse' = inUse
           /\ wakeTick \in [Slots -> Ticks] /\ \A i \in Slots : wakeTick[i] \in Nat
           /\ wakeTick[current] <= elapsed
<1>1. PICK use, wake, slept, stay : Reschedule(use, wake, slept, stay)
  BY DEF Yield, TaskReturn, Sleep
<1>2. running # "main"
  BY DEF Yield, TaskReturn, Sleep
<1>3. UsageInv /\ ClockInv /\ SlotsInv /\ TimelyInv /\ IndInv
  BY DEF CourseInv, Parts, UsageInv
<1>4. /\ elapsed' = elapsed + 1 /\ elapsed \in Nat /\ ticks = elapsed
      /\ elapsed + HaltPause < TickMod /\ HaltPause \in 1 .. Half
  BY <1>1, <1>3, TickCosts
<1>5. wakeTick \in [Slots -> Ticks] /\ \A i \in Slots : wakeTick[i] \in Nat
  BY <1>3, HalfAssumption DEF IndInv, TypeOK, Ticks, TickMod
<1>6. current \in Slots /\ wakeTick[current] <= elapsed
  BY <1>2, <1>3 DEF SlotsInv, TimelyInv
<1>7. Yield => wakeTick' = wakeTick /\ inUse' = inUse
  BY DEF Yield, Reschedule
<1>8. TaskReturn => wakeTick' = wakeTick /\ inUse' = [inUse EXCEPT ![current] = FALSE]
  BY DEF TaskReturn, Reschedule
<1>9. ASSUME NEW d \in 0 .. HaltPause, Sleep(d)
      PROVE  /\ wakeTick' = [wakeTick EXCEPT ![current] = elapsed + IF d = 0 THEN 1 ELSE d]
             /\ inUse' = inUse
  <2> DEFINE delta == IF d = 0 THEN 1 ELSE d
  <2>1. delta \in 1 .. HaltPause
    BY <1>4
  <2>2. wakeTick' = [wakeTick EXCEPT ![current] = (ticks + delta) % TickMod] /\ inUse' = inUse
    BY <1>9 DEF Sleep, Reschedule
  <2> HIDE DEF delta
  <2>3. (ticks + delta) % TickMod = elapsed + delta
    <3>1. elapsed + delta \in 0 .. TickMod - 1 /\ TickMod \in Nat \ {0}
      BY <1>4, <2>1, HalfAssumption DEF TickMod
    <3> QED  BY <1>4, <3>1, ModSmall
  <2> QED  BY <2>2, <2>3 DEF delta
<1> QED  BY <1>2, <1>4, <1>5, <1>6, <1>7, <1>8, <1>9

\* With every item consumed there is nothing left to pass on.
LEMMA NothingLeft ==
    ASSUME WP!IndInv, complete
    PROVE  \A c \in W!Consumers : queue[c] = <<>>
<1>1. WP!TypeOK /\ WP!CountersMatch
  BY DEF WP!IndInv
<1>2. /\ consumed = W!ItemCount /\ W!TypeOK /\ W!ItemCount \in Nat
  BY WorkFacts, SlotOrder
<1>3. /\ WP!IsFiniteSet(WP!Waiting) /\ WP!IsFiniteSet(thrown)
  BY <1>1, WorkConstants, WP!PlacesFinite, WP!Sizes
<1>4. WP!Cardinality(WP!Waiting) \in Nat /\ WP!Cardinality(thrown) \in Nat
  BY <1>3, FS_CardinalityType DEF WP!IsFiniteSet, WP!Cardinality, IsFiniteSet, Cardinality
<1>5. produced = consumed + WP!Cardinality(WP!Waiting) + WP!Cardinality(thrown)
  BY <1>1 DEF WP!CountersMatch
<1>6. produced \in 0 .. W!ItemCount
  BY <1>2 DEF W!TypeOK
<1>7. WP!Cardinality(WP!Waiting) = 0
  BY <1>2, <1>4, <1>5, <1>6
<1>8. WP!Waiting = {}
  BY <1>3, <1>7, FS_EmptySet DEF WP!IsFiniteSet, WP!Cardinality, IsFiniteSet, Cardinality
<1>9. ASSUME NEW c \in W!Consumers PROVE queue[c] = <<>>
  <2>1. queue[c] \in Seq(W!Items)
    BY <1>2 DEF W!TypeOK
  <2>2. \A i \in 1 .. Len(queue[c]) : queue[c][i] \in WP!Waiting
    BY <2>1, SameSets DEF WP!Waiting, WP!Contents, WP!Range
  <2>3. \A n \in Nat \ {0} : 1 \in 1 .. n
    OBVIOUS
  <2>4. queue[c] # <<>> => 1 \in 1 .. Len(queue[c])
    BY <2>1, <2>3, EmptySeq
  <2> QED  BY <1>8, <2>2, <2>4
<1> QED  BY <1>9

LEMMA InitQueueInv == ProgramInit => QueueInv
<1> SUFFICES ASSUME ProgramInit PROVE QueueInv
  OBVIOUS
<1>1. /\ running = "main"
      /\ pending = [p \in W!Producers |-> W!NoItem] /\ queue = [c \in W!Consumers |-> <<>>]
  BY DEF ProgramInit, UsageInit, Init, W!Init
<1> QED  BY <1>1 DEF QueueInv

\* The monitor is late by fewer ticks than there are other tasks.
LEMMA MonitorInTime ==
    ASSUME Parts, CourseInv, Bounds, running # "main", current # MonitorSlot, inUse[MonitorSlot],
           wakeTick[MonitorSlot] # 0
    PROVE  elapsed <= wakeTick[MonitorSlot] + W!NumProducers + 2
<1>1. /\ W!NumProducers \in Nat /\ IdleSlot = W!NumProducers + 3 /\ MonitorSlot = 0
      /\ IndInv /\ SlotsInv /\ TimelyInv /\ ClockInv
  BY WorkFacts, SlotOrder DEF Parts, MonitorSlot, CourseInv, UsageInv, IdleSlot
<1>2. MonitorSlot \in Slots /\ MonitorSlot # IdleSlot /\ current \in Slots /\ current <= IdleSlot
  BY <1>1, SlotsOfTasks DEF SlotsInv, Others
<1>3. waited[MonitorSlot] = Late(MonitorSlot)
  BY <1>1, <1>2, NeverLate
<1>4. waited[MonitorSlot] + Around(current, MonitorSlot) <= IdleSlot + 1
  BY <1>1 DEF TimelyInv, RoundInv
<1>5. /\ waited[MonitorSlot] \in Nat /\ wakeTick[MonitorSlot] \in Nat /\ elapsed \in Nat
      /\ current \in Nat
  BY <1>1, <1>2, HalfAssumption, ElapsedAssumption, NAssumption
     DEF IndInv, TypeOK, Ticks, TickMod, ClockInv, Slots
<1>6. Around(current, MonitorSlot) >= 1
  BY <1>1, <1>2, <1>5 DEF Around
<1>7. waited[MonitorSlot] <= IdleSlot
  <2>1. Around(current, MonitorSlot) \in Int
    BY <1>1, <1>5 DEF Around
  <2> QED  BY <1>1, <1>4, <1>5, <1>6, <2>1
<1> QED  BY <1>1, <1>3, <1>5, <1>7 DEF Late

LEMMA BuildFacts ==
    ASSUME Parts, Bounds, Paced
    PROVE  /\ W!NumProducers \in Nat \ {0} /\ W!Producers = 1 .. W!NumProducers
           /\ MonitorPause \in Nat /\ ProducePause \in Nat \ {0} /\ Rounds \in Nat \ {0}
           /\ MonitorPause <= HaltPause /\ ProducePause <= HaltPause /\ HaltPause \in Nat
           /\ (MonitorPause % ProducePause) + W!NumProducers + 2 < ProducePause
           /\ W!NumProducers * Rounds < Capacity
<1>1. W!NumProducers \in Nat \ {0} /\ W!Producers = 1 .. W!NumProducers /\ config \in Configs
  BY WorkFacts, SlotOrder DEF Parts, W!TypeOK
<1>2. MonitorPause \in Pauses /\ ProducePause \in Pauses
  BY DEF Pauses
<1>3. /\ MonitorPause \in Nat /\ ProducePause \in Nat /\ HaltPause \in Nat /\ ProducePause > 0
      /\ MonitorPause <= HaltPause /\ ProducePause <= HaltPause
  BY <1>2, PauseRanges, NAssumption, HalfAssumption DEF Paced
<1>4. Rounds \in Nat \ {0}
  BY <1>3, DivNat DEF Rounds
<1>5. /\ (MonitorPause % ProducePause) + W!NumProducers + 2 < ProducePause
      /\ W!NumProducers * Rounds < Capacity
  BY <1>1 DEF Paced, W!NumProducers
<1> QED  BY <1>1, <1>3, <1>4, <1>5

\* No topic has more messages than the producers have rounds.
LEMMA BacklogFits ==
    ASSUME Parts, Bounds, Paced, NEW c \in W!Consumers, Accounted(c)
    PROVE  Len(queue[c]) <= W!NumProducers * Rounds /\ Len(queue[c]) < Capacity
<1>1. /\ W!NumProducers \in Nat \ {0} /\ W!Producers = 1 .. W!NumProducers
      /\ Rounds \in Nat \ {0} /\ W!NumProducers * Rounds < Capacity
  BY BuildFacts
<1>2. PICK S \in SUBSET (W!Producers \X (1 .. Rounds)) : Cardinality(S) = Len(queue[c])
  BY DEF Accounted
<1>3. /\ IsFiniteSet(W!Producers) /\ Cardinality(W!Producers) = W!NumProducers
      /\ IsFiniteSet(1 .. Rounds) /\ Cardinality(1 .. Rounds) = Rounds
  BY <1>1, FS_Interval
<1>4. /\ IsFiniteSet(W!Producers \X (1 .. Rounds))
      /\ Cardinality(W!Producers \X (1 .. Rounds)) = W!NumProducers * Rounds
  <2> DEFINE P == W!Producers
             R == 1 .. Rounds
  <2>1. IsFiniteSet(P) /\ IsFiniteSet(R)
    BY <1>3
  <2> HIDE DEF P, R
  <2>2. IsFiniteSet(P \X R) /\ Cardinality(P \X R) = Cardinality(P) * Cardinality(R)
    BY <2>1, FS_Product
  <2> QED  BY <1>3, <2>2 DEF P, R
<1>5. Cardinality(S) <= W!NumProducers * Rounds
  BY <1>4, FS_Subset
<1>6. queue[c] \in Seq(W!Items)
  BY WorkFacts DEF Parts, W!TypeOK
<1>7. Len(queue[c]) \in Nat /\ W!NumProducers * Rounds \in Nat /\ Capacity \in Nat
  BY <1>1, <1>6, LenProperties, BuildsAssumption
<1> QED  BY <1>1, <1>2, <1>5, <1>7

\* Producers and monitor only ever put off when they wake.
LEMMA AccountsStand ==
    ASSUME Parts, Bounds, Paced, NEW c \in W!Consumers, Accounted(c), config' = config,
           queue'[c] = queue[c], wakeTick'[MonitorSlot] = wakeTick[MonitorSlot],
           wakeTick[MonitorSlot] \in Nat,
           \A p \in W!Producers : wakeTick[p] \in Nat /\ wakeTick'[p] \in Nat
                                    /\ wakeTick[p] <= wakeTick'[p]
    PROVE  Accounted(c)'
<1>1. PICK S \in SUBSET (W!Producers \X (1 .. Rounds)) :
        Cardinality(S) = Len(queue[c]) /\ \A s \in S : s[2] <= Span(s[1])
  BY DEF Accounted
<1>2. MonitorPause \in Nat /\ ProducePause \in Nat \ {0} /\ Rounds \in Nat
  BY BuildFacts
<1>3. ASSUME NEW p \in W!Producers PROVE Span(p) <= Span(p)' /\ Span(p) \in Int /\ Span(p)' \in Int
  <2> DEFINE a == wakeTick[p] + MonitorPause - wakeTick[MonitorSlot]
             b == wakeTick'[p] + MonitorPause - wakeTick[MonitorSlot]
  <2>1. a \in Int /\ b \in Int /\ a <= b
    BY <1>2
  <2>2. Span(p) = a \div ProducePause /\ Span(p)' = b \div ProducePause
    BY DEF Span, MonitorSlot
  <2> HIDE DEF a, b
  <2>3. a \div ProducePause <= b \div ProducePause /\ a \div ProducePause \in Int
    BY <1>2, <2>1, DivMono
  <2>4. b \div ProducePause \in Int
    BY <1>2, <2>1, DivMono
  <2> QED  BY <2>2, <2>3, <2>4
<1>4. \A s \in S : s[2] <= Span(s[1])'
  <2> SUFFICES ASSUME NEW s \in S PROVE s[2] <= Span(s[1])'
    OBVIOUS
  <2>1. s[1] \in W!Producers /\ s[2] \in Int
    BY <1>1, <1>2
  <2> QED  BY <1>1, <1>3, <2>1
<1>5. W!Producers' = W!Producers
  BY DEF W!Producers, W!NumProducers
<1> QED  BY <1>1, <1>4, <1>5 DEF Accounted

\* A round that publishes is accounted for by the producer's next place.
LEMMA RoundAccounted ==
    ASSUME Parts, CourseInv, Bounds, Paced, config' = config,
           NEW p \in W!Producers, NEW c \in W!Consumers, Accounted(c),
           inUse[MonitorSlot], wakeTick[MonitorSlot] # 0, running # "main", current = p,
           wakeTick[MonitorSlot] <= elapsed + MonitorPause,
           Len(queue'[c]) = Len(queue[c]) + 1,
           wakeTick' = [wakeTick EXCEPT ![p] = elapsed + ProducePause]
    PROVE  Accounted(c)'
<1> DEFINE m    == wakeTick[MonitorSlot]
           x    == elapsed + MonitorPause - m
           last == x \div ProducePause
           new  == <<p, last + 1>>
<1>1. /\ MonitorPause \in Nat /\ ProducePause \in Nat \ {0} /\ Rounds \in Nat \ {0}
      /\ W!NumProducers \in Nat \ {0} /\ W!Producers = 1 .. W!NumProducers
      /\ (MonitorPause % ProducePause) + W!NumProducers + 2 < ProducePause
  BY BuildFacts
<1>2. PICK S \in SUBSET (W!Producers \X (1 .. Rounds)) :
        Cardinality(S) = Len(queue[c]) /\ \A s \in S : s[2] <= Span(s[1])
  BY DEF Accounted
<1>3. /\ IndInv /\ ClockInv /\ SlotsInv /\ TimelyInv /\ p \in Slots /\ MonitorSlot = 0
      /\ elapsed \in Nat /\ \A i \in Slots : wakeTick[i] \in Nat
      /\ wakeTick \in [Slots -> Ticks]
  BY HalfAssumption, ElapsedAssumption
     DEF CourseInv, Parts, UsageInv, IndInv, TypeOK, Ticks, TickMod, ClockInv, SlotsInv, MonitorSlot
<1>4. MonitorSlot \in Slots /\ MonitorSlot # p /\ \A q \in W!Producers : q \in Slots
  <2>1. IdleSlot \in Slots
    BY <1>3 DEF SlotsInv
  <2>2. IdleSlot \in 0 .. N - 1 /\ IdleSlot = W!NumProducers + 3 /\ N \in Nat
    BY <2>1, NAssumption DEF Slots, IdleSlot
  <2> QED  BY <1>1, <1>3, <2>2 DEF Slots
<1>5. m \in Nat /\ x \in Nat /\ x <= MonitorPause + W!NumProducers + 2
  <2>1. elapsed <= m + W!NumProducers + 2
    BY <1>4, MonitorInTime
  <2>2. m \in Nat /\ m <= elapsed + MonitorPause
    BY <1>3, <1>4
  <2>3. MonitorPause \in Nat /\ W!NumProducers \in Nat /\ elapsed \in Nat
    BY <1>1, <1>3
  <2> HIDE DEF m
  <2> QED  BY <2>1, <2>2, <2>3
<1>6. last \in Nat /\ last + 1 \in 1 .. Rounds
  <2> HIDE DEF x
  <2>1. last \in Nat
    BY <1>1, <1>5, DivNat
  <2>2. last <= (MonitorPause + (W!NumProducers + 2)) \div ProducePause
    <3>1. x \in Int /\ MonitorPause + (W!NumProducers + 2) \in Int
          /\ x <= MonitorPause + (W!NumProducers + 2)
      BY <1>1, <1>5
    <3> QED  BY <1>1, <3>1, DivMono
  <2>3. (MonitorPause + (W!NumProducers + 2)) \div ProducePause = MonitorPause \div ProducePause
    <3>1. W!NumProducers + 2 \in Nat /\ (MonitorPause % ProducePause) + (W!NumProducers + 2) < ProducePause
      BY <1>1
    <3> QED  BY <1>1, <3>1, DivSame
  <2>4. MonitorPause \div ProducePause \in Nat
    BY <1>1, DivNat
  <2> HIDE DEF last
  <2> QED  BY <2>1, <2>2, <2>3, <2>4 DEF Rounds
<1>7. Span(p)' = last + 1
  <2>1. Span(p)' = (x + ProducePause) \div ProducePause
    <3>1. wakeTick'[p] = elapsed + ProducePause /\ wakeTick'[MonitorSlot] = m
      BY <1>3, <1>4
    <3>2. (elapsed + ProducePause) + MonitorPause - m = x + ProducePause
      <4>1. MonitorPause \in Nat /\ ProducePause \in Nat /\ elapsed \in Nat /\ m \in Nat
        BY <1>1, <1>3, <1>5
      <4> HIDE DEF m
      <4> QED  BY <4>1
    <3> QED  BY <3>1, <3>2 DEF Span, MonitorSlot
  <2>2. x \in Int /\ ProducePause \in Nat \ {0}
    BY <1>1, <1>5
  <2> HIDE DEF x
  <2> QED  BY <2>1, <2>2, DivNext
<1>8. Span(p) <= last /\ Span(p) \in Int
  <2> DEFINE a == wakeTick[p] + MonitorPause - m
  <2>1. a \in Int /\ x \in Int /\ a <= x
    BY <1>1, <1>3, <1>5 DEF TimelyInv
  <2>2. Span(p) = a \div ProducePause
    BY DEF Span
  <2> HIDE DEF a, x
  <2> QED  BY <1>1, <2>1, <2>2, DivMono
<1>9. \A q \in W!Producers : q # p => Span(q)' = Span(q)
  BY <1>3, <1>4 DEF Span, MonitorSlot
<1> HIDE DEF m, x, last
<1>10. \A s \in S : s \in W!Producers \X (1 .. Rounds) /\ s[1] \in W!Producers /\ s[2] \in Int
  BY <1>1, <1>2
<1>11. new \notin S
  <2> SUFFICES ASSUME new \in S PROVE FALSE
    OBVIOUS
  <2>1. last + 1 <= Span(p)
    BY <1>2
  <2> QED  BY <1>6, <1>8, <2>1
<1>12. \A s \in S : s[2] <= Span(s[1])'
  <2> SUFFICES ASSUME NEW s \in S PROVE s[2] <= Span(s[1])'
    OBVIOUS
  <2>1. s[2] <= Span(s[1]) /\ s[1] \in W!Producers /\ s[2] \in Int
    BY <1>2, <1>10
  <2>2. CASE s[1] = p
    BY <1>6, <1>7, <1>8, <2>1, <2>2
  <2>3. CASE s[1] # p
    BY <1>9, <2>1, <2>3
  <2> QED  BY <2>2, <2>3
<1>13. IsFiniteSet(S)
  <2> DEFINE P == W!Producers
             R == 1 .. Rounds
  <2>1. IsFiniteSet(P) /\ IsFiniteSet(R)
    BY <1>1, FS_Interval
  <2> HIDE DEF P, R
  <2>2. IsFiniteSet(P \X R)
    BY <2>1, FS_Product
  <2> QED  BY <2>2, FS_Subset DEF P, R
<1>14. Cardinality(S \cup {new}) = Len(queue'[c])
  BY <1>2, <1>11, <1>13, FS_AddElement
<1>15. new \in W!Producers \X (1 .. Rounds) /\ new[2] <= Span(new[1])'
  BY <1>6, <1>7
<1>16. W!Producers' = W!Producers
  BY DEF W!Producers, W!NumProducers
<1> DEFINE T == S \cup {new}
<1>17. T \in SUBSET (W!Producers \X (1 .. Rounds)) /\ \A s \in T : s[2] <= Span(s[1])'
  BY <1>2, <1>12, <1>15
<1> HIDE DEF T
<1> QED  BY <1>14, <1>16, <1>17 DEF Accounted, T

LEMMA NothingToAccount == ASSUME NEW c PROVE queue[c] = <<>> => Accounted(c)
<1>1. Cardinality({}) = 0 /\ Len(<<>>) = 0
  BY FS_EmptySet
<1>2. {} \in SUBSET (W!Producers \X (1 .. Rounds)) /\ \A s \in {} : s[2] <= Span(s[1])
  OBVIOUS
<1> QED  BY <1>1, <1>2 DEF Accounted

\* The first task to run is the monitor.
LEMMA MonitorFirst ==
    ASSUME Parts, CourseInv, Run, HasIdle
    PROVE  inUse'[MonitorSlot] /\ current' = MonitorSlot
<1>1. running = "main" /\ UNCHANGED <<inUse, wakeTick, ticks, idleTask>>
  BY DEF Run
<1>2. SlotsInv /\ idleTask = NoTask /\ \A i \in Slots : wakeTick[i] = 0
  BY <1>1 DEF CourseInv, SlotsInv
<1>3. PICK n \in 0 .. IdleSlot + 1 : n <= N /\ Filled(n)
  BY <1>1, <1>2 DEF SlotsInv
<1>4. IdleSlot \in Nat /\ N \in Nat \ {0} /\ n \in Nat
  BY <1>3, WorkFacts, SlotOrder, NAssumption DEF Parts
<1>5. PICK i \in Slots : inUse[i]
  BY DEF HasIdle
<1>6. MonitorSlot \in Slots /\ inUse[MonitorSlot]
  <2>1. i < n /\ i \in Nat
    BY <1>3, <1>5 DEF Filled, Slots
  <2> QED  BY <1>3, <1>4, <2>1 DEF Filled, Slots, MonitorSlot
<1> DEFINE ready == Ready(inUse, wakeTick, ticks)
           next  == FindNext(NoTask, ready)
<1>7. ready \in SUBSET Slots /\ MonitorSlot \in ready /\ NoTask \notin Slots
  BY <1>2, <1>6 DEF Ready, Due, NoTask, Slots
<1>8. /\ next \in ready /\ next # NoTask
      /\ Dist(NoTask, next) <= Dist(NoTask, MonitorSlot)
  BY <1>2, <1>7, FindNextSound
<1>9. current' = next
  BY <1>8 DEF Run, SwitchTo
<1> HIDE DEF ready, next
<1>10. next \in 0 .. N - 1
  BY <1>7, <1>8 DEF Slots
<1>11. next = MonitorSlot
  BY <1>4, <1>8, <1>10 DEF Dist, NoTask, MonitorSlot
<1> QED  BY <1>1, <1>6, <1>9, <1>11

\* Once the tasks run, what is left to show of a step.
LEMMA QueueStep ==
    ASSUME Parts, CourseInv, Parts', CourseInv', QueueInv, [ProgramNext]_programVars,
           running # "main",
           elapsed' = elapsed + 1 \/ UNCHANGED <<elapsed, running>>,
           \A p \in W!Producers : pending'[p] = W!NoItem,
           ~complete /\ ~complete' =>
              /\ inUse'[MonitorSlot]
              /\ wakeTick'[MonitorSlot] = 0 => current' = MonitorSlot
              /\ wakeTick'[MonitorSlot] <= elapsed' + MonitorPause
              /\ \A c \in W!Consumers : Accounted(c)'
    PROVE  QueueInv'
<1>1. config' = config /\ (complete => complete')
  BY WorkSteps
<1>2. running' # "main"
  <2>1. elapsed \in Nat
    BY ElapsedAssumption DEF CourseInv, ClockInv
  <2>2. running' = "main" => elapsed' = 0
    BY DEF CourseInv, SlotsInv
  <2> QED  BY <2>1, <2>2
<1>3. /\ W!Producers' = W!Producers /\ W!Consumers' = W!Consumers /\ MonitorSlot' = MonitorSlot
      /\ W!NoItem' = W!NoItem
  BY <1>1 DEF W!Producers, W!NumProducers, W!Consumers, W!NumConsumers, MonitorSlot, W!NoItem
<1> QED  BY <1>1, <1>2, <1>3 DEF QueueInv

LEMMA BootKeepsQueues ==
    ASSUME Parts, CourseInv, Bounds, Paced, QueueInv, [ProgramNext]_programVars, Boot, Passing
    PROVE  QueueInv'
<1>1. /\ config' = config /\ UNCHANGED <<queue, pending>> /\ running = "main"
      /\ Add("worker") \/ Add("idle") \/ (HasIdle /\ Run)
  BY WorkSteps, MainAssumption DEF Boot, Passing, Add, MayAdd, Run
<1>2. /\ W!Producers' = W!Producers /\ W!Consumers' = W!Consumers /\ MonitorSlot' = MonitorSlot
      /\ W!NoItem' = W!NoItem
  BY <1>1 DEF W!Producers, W!NumProducers, W!Consumers, W!NumConsumers, MonitorSlot, W!NoItem
<1>3. /\ \A p \in W!Producers' : pending'[p] = W!NoItem'
      /\ \A c \in W!Consumers' : queue'[c] = <<>>
  BY <1>1, <1>2 DEF QueueInv
<1>4. CASE Add("worker") \/ Add("idle")
  <2>1. running' = "main"
    BY <1>1, <1>4 DEF Add
  <2> QED  BY <1>3, <2>1 DEF QueueInv
<1>5. CASE HasIdle /\ Run
  <2>1. inUse'[MonitorSlot] /\ current' = MonitorSlot
    BY <1>5, MonitorFirst
  <2>2. wakeTick'[MonitorSlot] = 0 /\ elapsed' = 0
    <3>1. UNCHANGED <<wakeTick, ticks>>
      BY <1>5 DEF Run
    <3>2. elapsed = 0 /\ IdleSlot \in Nat /\ \A i \in Slots : wakeTick[i] = 0
      BY <1>1, WorkFacts, SlotOrder DEF CourseInv, SlotsInv, Parts
    <3>3. MonitorSlot \in Slots
      BY NAssumption DEF MonitorSlot, Slots
    <3>4. elapsed' = elapsed
      BY <3>1 DEF Boot, Account, usage
    <3> QED  BY <3>1, <3>2, <3>3, <3>4
  <2>3. \A c \in W!Consumers' : Accounted(c)'
    <3> SUFFICES ASSUME NEW c \in W!Consumers' PROVE Accounted(c)'
      OBVIOUS
    <3>1. (queue[c] = <<>> => Accounted(c))'
      BY NothingToAccount, PTL
    <3> QED  BY <1>3, <3>1
  <2>4. MonitorPause \in Nat
    BY BuildFacts
  <2> QED  BY <1>2, <1>3, <2>1, <2>2, <2>3, <2>4 DEF QueueInv
<1> QED  BY <1>1, <1>4, <1>5

LEMMA MonitorKeepsQueues ==
    ASSUME Parts, CourseInv, Parts', CourseInv', Bounds, Paced, QueueInv,
           [ProgramNext]_programVars,
           current = MonitorSlot, W!MonitorRound, Account,
           \/ complete /\ TaskReturn
           \/ ~complete /\ Sleep(MonitorPause)
    PROVE  QueueInv'
<1>1. MonitorPause \in 0 .. HaltPause
  BY BuildFacts
<1>2. running # "main" /\ current \in Slots /\ elapsed \in Nat /\ elapsed' = elapsed + 1
      /\ wakeTick \in [Slots -> Ticks]
  BY <1>1, CallWakes
<1>3. \A p \in W!Producers : pending'[p] = W!NoItem
  BY DEF QueueInv, W!MonitorRound
<1>4. ASSUME ~complete
      PROVE  /\ inUse'[MonitorSlot]
             /\ wakeTick'[MonitorSlot] # 0
             /\ wakeTick'[MonitorSlot] <= elapsed' + MonitorPause
  <2>1. wakeTick' = [wakeTick EXCEPT ![current] = elapsed + IF MonitorPause = 0 THEN 1 ELSE MonitorPause]
        /\ inUse' = inUse
    BY <1>1, <1>4, CallWakes
  <2>2. inUse[MonitorSlot]
    BY <1>2, <1>4 DEF QueueInv
  <2>3. wakeTick'[MonitorSlot] = elapsed + IF MonitorPause = 0 THEN 1 ELSE MonitorPause
    BY <1>2, <2>1
  <2> QED  BY <1>1, <1>2, <2>1, <2>2, <2>3
<1>5. \A c \in W!Consumers : Accounted(c)'
  <2> SUFFICES ASSUME NEW c \in W!Consumers PROVE Accounted(c)'
    OBVIOUS
  <2>1. queue'[c] = <<>>
    BY DEF W!MonitorRound
  <2>2. (queue[c] = <<>> => Accounted(c))'
    BY NothingToAccount, PTL
  <2> QED  BY <2>1, <2>2
<1> QED  BY <1>2, <1>3, <1>4, <1>5, QueueStep

LEMMA ProducerKeepsQueues ==
    ASSUME Parts, CourseInv, Parts', CourseInv', Bounds, Paced, QueueInv,
           [ProgramNext]_programVars, ~complete, Account,
           NEW p \in W!Producers, current = p, W!ProducerRound(p),
           \/ Retried(p) /\ Sleep(RetryPause)
           \/ ~Retried(p) /\ Sleep(ProducePause)
    PROVE  QueueInv'
<1>1. /\ W!NumProducers \in Nat \ {0} /\ W!Producers = 1 .. W!NumProducers
      /\ ProducePause \in Nat \ {0} /\ ProducePause \in 0 .. HaltPause
      /\ MonitorSlot # p /\ config' = config
  BY BuildFacts, WorkSteps DEF MonitorSlot
<1>2. pending[p] = W!NoItem /\ Sleep(ProducePause)
  BY DEF QueueInv, Retried
<1>3. /\ running # "main" /\ elapsed \in Nat /\ elapsed' = elapsed + 1 /\ p \in Slots
      /\ wakeTick' = [wakeTick EXCEPT ![p] = elapsed + ProducePause] /\ inUse' = inUse
      /\ wakeTick \in [Slots -> Ticks] /\ \A i \in Slots : wakeTick[i] \in Nat
      /\ wakeTick[p] <= elapsed
  BY <1>1, <1>2, CallWakes
<1>4. /\ inUse[MonitorSlot] /\ wakeTick[MonitorSlot] # 0
      /\ wakeTick[MonitorSlot] <= elapsed + MonitorPause
      /\ \A c \in W!Consumers : Accounted(c)
  BY <1>1, <1>3 DEF QueueInv
<1>5. MonitorSlot \in Slots /\ \A q \in W!Producers : q \in Slots
  <2>1. IdleSlot \in 0 .. N - 1 /\ IdleSlot = W!NumProducers + 3 /\ N \in Nat
    BY <1>3, NAssumption DEF CourseInv, SlotsInv, Slots, IdleSlot
  <2> QED  BY <1>1, <2>1 DEF Slots, MonitorSlot
<1> DEFINE item == W!Candidate(p)
<1>6. item % W!NumConsumers \in W!Consumers
  <2>1. W!NumConsumers \in Nat \ {0} /\ W!ItemCount \in Nat /\ W!TypeOK
    BY WorkFacts, SlotOrder DEF Parts
  <2>2. producerIndex \in Nat /\ item # W!NoItem
    BY <2>1 DEF W!TypeOK, W!ProducerRound
  <2>3. item = producerIndex
    BY <1>2, <2>2 DEF W!Candidate, W!TakeNext
  <2> HIDE DEF item
  <2> QED  BY <2>1, <2>2, <2>3 DEF W!Consumers
<1> PICK c \in W!Consumers : c = item % W!NumConsumers
  BY <1>6
<1>7. /\ queue \in [W!Consumers -> Seq(W!Items)] /\ pending \in [W!Producers -> W!Items \cup {W!NoItem}]
  BY WorkFacts DEF Parts, W!TypeOK
<1>8. Len(queue[c]) < Capacity
  BY <1>4, <1>6, BacklogFits
<1>9. /\ queue' = [queue EXCEPT ![c] = Append(@, item)]
      /\ pending' = [pending EXCEPT ![p] = W!NoItem]
  <2>1. Len(queue[c]) # Capacity
    <3>1. Len(queue[c]) \in Nat /\ Capacity \in Nat
      BY <1>6, <1>7, LenProperties, BuildsAssumption
    <3> QED  BY <1>8, <3>1
  <2> QED  BY <2>1 DEF W!ProducerRound
<1> HIDE DEF item
<1>10. \A q \in W!Producers : pending'[q] = W!NoItem
  BY <1>7, <1>9 DEF QueueInv
<1>11. inUse'[MonitorSlot] /\ wakeTick'[MonitorSlot] = wakeTick[MonitorSlot]
  BY <1>1, <1>3, <1>4, <1>5
<1>12. wakeTick'[MonitorSlot] <= elapsed' + MonitorPause
  <2>1. MonitorPause \in Nat /\ wakeTick[MonitorSlot] \in Nat
    BY <1>3, <1>5, BuildFacts
  <2> QED  BY <1>3, <1>4, <1>11, <2>1
<1>13. Accounted(c)'
  <2>1. queue'[c] = Append(queue[c], item) /\ Len(queue'[c]) = Len(queue[c]) + 1
    BY <1>6, <1>7, <1>9
  <2> QED  BY <1>1, <1>3, <1>4, <1>6, <2>1, RoundAccounted
<1>14. ASSUME NEW d \in W!Consumers, d # c PROVE Accounted(d)'
  <2>1. queue'[d] = queue[d]
    BY <1>7, <1>9, <1>14
  <2>2. \A q \in W!Producers : wakeTick[q] \in Nat /\ wakeTick'[q] \in Nat
                                 /\ wakeTick[q] <= wakeTick'[q]
    <3>1. elapsed + ProducePause \in Nat /\ wakeTick[p] <= elapsed + ProducePause
      BY <1>1, <1>3
    <3> QED  BY <1>3, <1>5, <3>1
  <2> QED  BY <1>1, <1>3, <1>4, <1>5, <1>11, <2>1, <2>2, AccountsStand
<1> QED  BY <1>3, <1>4, <1>10, <1>11, <1>12, <1>13, <1>14, QueueStep

LEMMA OthersKeepQueues ==
    ASSUME Parts, CourseInv, Parts', CourseInv', Bounds, Paced, QueueInv,
           [ProgramNext]_programVars, current # MonitorSlot, Passing, GivesUp
    PROVE  QueueInv'
<1>1. /\ running # "main" /\ elapsed \in Nat /\ elapsed' = elapsed + 1 /\ current \in Slots
      /\ wakeTick \in [Slots -> Ticks] /\ \A i \in Slots : wakeTick[i] \in Nat
      /\ wakeTick[current] <= elapsed
  BY CallWakes DEF GivesUp
<1>2. \A i \in Slots : /\ i # current => wakeTick'[i] = wakeTick[i]
                       /\ wakeTick'[i] \in Nat /\ wakeTick[i] <= wakeTick'[i]
  <2>1. CASE Yield \/ TaskReturn
    <3>1. wakeTick' = wakeTick
      BY <2>1, CallWakes DEF GivesUp
    <3> QED  BY <1>1, <3>1
  <2>2. ASSUME NEW d \in 0 .. HaltPause, Sleep(d)
        PROVE  \A i \in Slots : /\ i # current => wakeTick'[i] = wakeTick[i]
                                /\ wakeTick'[i] \in Nat /\ wakeTick[i] <= wakeTick'[i]
    <3>1. wakeTick' = [wakeTick EXCEPT ![current] = elapsed + IF d = 0 THEN 1 ELSE d]
      BY <2>2, CallWakes DEF GivesUp
    <3>2. (IF d = 0 THEN 1 ELSE d) \in Nat
      BY BuildFacts
    <3> QED  BY <1>1, <3>1, <3>2
  <2> QED  BY <2>1, <2>2 DEF GivesUp
<1>3. inUse \in [Slots -> BOOLEAN] /\ \A i \in Slots : i # current => inUse'[i] = inUse[i]
  <2>1. inUse \in [Slots -> BOOLEAN]
    BY DEF Parts, UsageInv, IndInv, TypeOK
  <2> QED  BY <2>1, CallWakes DEF GivesUp
<1>4. \A p \in W!Producers : pending'[p] = W!NoItem
  BY DEF QueueInv, Passing
<1>5. MonitorSlot \in Slots /\ \A q \in W!Producers : q \in Slots
  <2>1. IdleSlot \in 0 .. N - 1 /\ IdleSlot = W!NumProducers + 3 /\ N \in Nat
    BY <1>1, NAssumption DEF CourseInv, SlotsInv, Slots, IdleSlot
  <2>2. W!NumProducers \in Nat \ {0} /\ W!Producers = 1 .. W!NumProducers
    BY BuildFacts
  <2> QED  BY <2>1, <2>2 DEF Slots, MonitorSlot
<1>6. ASSUME ~complete
      PROVE  /\ inUse'[MonitorSlot] /\ wakeTick'[MonitorSlot] # 0
             /\ wakeTick'[MonitorSlot] <= elapsed' + MonitorPause
             /\ \A c \in W!Consumers : Accounted(c)'
  <2>1. /\ inUse[MonitorSlot] /\ wakeTick[MonitorSlot] # 0
        /\ wakeTick[MonitorSlot] <= elapsed + MonitorPause
        /\ \A c \in W!Consumers : Accounted(c)
    BY <1>1, <1>6 DEF QueueInv
  <2>2. wakeTick'[MonitorSlot] = wakeTick[MonitorSlot] /\ inUse'[MonitorSlot]
    BY <1>2, <1>3, <1>5, <2>1
  <2>3. wakeTick'[MonitorSlot] <= elapsed' + MonitorPause
    <3>1. MonitorPause \in Nat /\ wakeTick[MonitorSlot] \in Nat
      BY <1>1, <1>5, BuildFacts
    <3> QED  BY <1>1, <2>1, <2>2, <3>1
  <2>4. config' = config /\ queue' = queue
    BY WorkSteps DEF Passing
  <2>5. \A c \in W!Consumers : Accounted(c)'
    BY <1>1, <1>2, <1>5, <2>1, <2>2, <2>4, AccountsStand
  <2> QED  BY <2>1, <2>2, <2>3, <2>5
<1> QED  BY <1>1, <1>4, <1>6, QueueStep

LEMMA QuietKeepsQueues ==
    ASSUME Parts, CourseInv, Parts', CourseInv', Bounds, Paced, QueueInv,
           [ProgramNext]_programVars, Passing, UNCHANGED usageVars
    PROVE  QueueInv'
<1>1. UNCHANGED <<inUse, wakeTick, current, running, elapsed, queue, pending>>
  BY DEF Passing, usageVars, usage, vars
<1>2. config' = config /\ (complete => complete')
  BY WorkSteps
<1>3. /\ W!Producers' = W!Producers /\ W!Consumers' = W!Consumers /\ MonitorSlot' = MonitorSlot
      /\ W!NoItem' = W!NoItem
  BY <1>2 DEF W!Producers, W!NumProducers, W!Consumers, W!NumConsumers, MonitorSlot, W!NoItem
<1>4. \A c : Accounted(c) => Accounted(c)'
  BY <1>1, <1>3 DEF Accounted, Span, MonitorSlot
<1> QED  BY <1>1, <1>2, <1>3, <1>4 DEF QueueInv

LEMMA NextQueueInv ==
    ASSUME Bounds, Paced
    PROVE  Parts /\ CourseInv /\ QueueInv /\ [ProgramNext]_programVars /\ Parts' /\ CourseInv'
             => QueueInv'
<1> SUFFICES ASSUME Parts, CourseInv, QueueInv, [ProgramNext]_programVars, Parts', CourseInv'
             PROVE  QueueInv'
  OBVIOUS
<1>1. CASE Boot /\ Passing
  BY <1>1, BootKeepsQueues
<1>2. CASE /\ current = MonitorSlot /\ W!MonitorRound /\ Account
           /\ \/ complete /\ TaskReturn
              \/ ~complete /\ Sleep(MonitorPause)
  BY <1>2, MonitorKeepsQueues
<1>3. CASE /\ ~complete /\ Account
           /\ \E p \in W!Producers :
                 /\ current = p /\ W!ProducerRound(p)
                 /\ \/ Retried(p) /\ Sleep(RetryPause)
                    \/ ~Retried(p) /\ Sleep(ProducePause)
  BY <1>3, ProducerKeepsQueues
<1>4. CASE current # MonitorSlot /\ Passing /\ GivesUp
  BY <1>4, OthersKeepQueues
<1>5. CASE Passing /\ UNCHANGED usageVars
  BY <1>5, QuietKeepsQueues
<1>6. UNCHANGED programVars => Passing /\ UNCHANGED usageVars
  BY DEF programVars, app, Passing
<1> QED  BY <1>1, <1>2, <1>3, <1>4, <1>5, <1>6, Turns

-----------------------------------------------------------------------------
(* The two clocks of the summary                                             *)

\* The summary of a run of s ticks, made at this rate by the system clock, is right
\* and does not blame the clock, unless its own milliseconds are cut off.
Trusted(rate, s) ==
    LET clocks == (s * 100) \div rate
        span   == (clocks * 1000) \div 100
    IN  span < WordMod => Milliseconds(clocks) = span /\ ~Miscalibrated(clocks, s)

\* At any well-tuned rate, 2005 ticks are enough for the hundredths of a second
\* that the system clock cuts off not to matter; at 2004 they do.
LEMMA LongRunsTrusted ==
    ASSUME NEW rate \in 200 .. 500, NEW s \in Nat, s >= 2005, ClocksPerSec = 100
    PROVE  Trusted(rate, s)
<1> SUFFICES ASSUME NEW clocks, clocks = (s * 100) \div rate, (clocks * 1000) \div 100 < WordMod
             PROVE  /\ Milliseconds(clocks) = (clocks * 1000) \div 100
                    /\ ~Miscalibrated(clocks, s)
  BY DEF Trusted
<1>1. PICK q \in Nat : q = clocks
  <2>1. s * 100 \in Nat /\ rate \in Nat \ {0}
    OBVIOUS
  <2> QED  BY <2>1, DivNat
<1>2. q * rate <= s * 100 /\ s * 100 < q * rate + rate
  <2>1. s * 100 \in Int /\ rate \in Nat \ {0} /\ q = (s * 100) \div rate
    BY <1>1
  <2> QED  BY <2>1
<1>3. 401 <= q /\ q <= s
  <2>1. 400 * rate <= 200000 /\ 401 * rate <= 200500
    OBVIOUS
  <2>2. s * 100 >= 200500
    OBVIOUS
  <2>3. ASSUME q <= 400 PROVE FALSE
    <3>1. q * rate <= 400 * rate
      BY <2>3
    <3> QED  BY <1>2, <2>1, <2>2, <3>1
  <2>4. q * 200 <= q * rate
    OBVIOUS
  <2> QED  BY <1>2, <2>3, <2>4
<1>4. s * 100 < 501 * q
  <2>1. CASE rate = 500
    BY <1>2, <1>3, <2>1
  <2>2. CASE rate <= 499
    <3>1. q * rate <= q * 499
      BY <2>2
    <3> QED  BY <1>2, <1>3, <2>2, <3>1
  <2> QED  BY <2>1, <2>2
<1>5. (clocks * 1000) \div 100 = 10 * q
  BY <1>1
<1>6. Milliseconds(clocks) = 10 * q
  <2>1. 10 * q \in 0 .. WordMod - 1 /\ WordMod \in Nat \ {0}
    BY <1>5, ClocksAssumption
  <2>2. (10 * q) % WordMod = 10 * q
    BY <2>1
  <2> QED  BY <1>5, <2>2 DEF Milliseconds
<1>7. PICK r \in Nat : r = (s * 1000) \div (10 * q)
  <2>1. s * 1000 \in Nat /\ 10 * q \in Nat \ {0}
    BY <1>3
  <2> QED  BY <2>1, DivNat
<1>8. r * (10 * q) <= s * 1000 /\ s * 1000 < (r + 1) * (10 * q)
  <2>1. s * 1000 \in Int /\ 10 * q \in Nat \ {0}
    BY <1>3
  <2> QED  BY <1>7, <2>1
<1>9. 100 <= r
  <2>1. ASSUME r <= 99 PROVE FALSE
    <3>1. (r + 1) * (10 * q) <= 100 * (10 * q)
      BY <2>1
    <3> QED  BY <1>3, <1>8, <3>1
  <2> QED  BY <2>1
<1>10. r <= 500
  <2>1. ASSUME r >= 501 PROVE FALSE
    <3>1. r * (10 * q) >= 501 * (10 * q)
      BY <2>1
    <3> QED  BY <1>4, <1>8, <3>1
  <2> QED  BY <2>1
<1>11. ImpliedRates(clocks, s) = {r}
  BY <1>3, <1>6, <1>7 DEF ImpliedRates
<1> QED  BY <1>5, <1>6, <1>9, <1>10, <1>11 DEF Miscalibrated, WellTuned

-----------------------------------------------------------------------------
(* Theorems *)

\* The safety part of what Program promises: from main() on, the tasks in their
\* slots, with the pauses and the returns the code has, do only what WorkQueue
\* lets them do.
THEOREM ProgramDoesTheWork == ProgramSpec => W!Spec
<1>1. ProgramInit => W!Init
  BY DEF ProgramInit
<1> QED  BY <1>1, StepOfWorkQueue, PTL DEF ProgramSpec, W!Spec

\* And to the scheduler they are workers like any others: what is proved of
\* Scheduler and CpuUsage holds of the program.
THEOREM ProgramIsScheduled == ProgramSpec => UsageSpec
<1>1. ProgramInit => UsageInit
  BY DEF ProgramInit
<1> QED  BY <1>1, StepOfScheduler, PTL DEF ProgramSpec, UsageSpec

LEMMA StampsHold == ProgramSpec => [](Parts /\ StampInv)
<1> QED
  BY InitParts, InitStampInv, NextParts, PartsOrdered, NextStampInv, PTL DEF ProgramSpec

\* Whatever the length of the run: the events that the summary subtracts have
\* happened in that order, and the difference of their 16-bit stamps is the
\* number of ticks between them unless that is the counter's range or more.
StampsTellTime ==
    \A pair \in Pairs :
        LET from == pair[1]
            to   == pair[2]
        IN  Stamp[to] # NoTime =>
              /\ Stamp[from] # NoTime /\ since[from] <= since[to]
              /\ since[to] - since[from] < TickMod =>
                    (Stamp[to] - Stamp[from]) % TickMod = since[to] - since[from]

THEOREM StampsAreFaithful == ProgramSpec => []StampsTellTime
<1>1. ASSUME StampInv PROVE StampsTellTime
  <2> SUFFICES ASSUME NEW pair \in Pairs, Stamp[pair[2]] # NoTime
               PROVE  /\ Stamp[pair[1]] # NoTime /\ since[pair[1]] <= since[pair[2]]
                      /\ since[pair[2]] - since[pair[1]] < TickMod =>
                            (Stamp[pair[2]] - Stamp[pair[1]]) % TickMod =
                               since[pair[2]] - since[pair[1]]
    BY DEF StampsTellTime
  <2>1. pair[1] \in Events /\ pair[2] \in Events
    BY DEF Pairs, Events
  <2>2. since[pair[2]] # NoTime
    BY <1>1, <2>1 DEF StampInv
  <2>3. Apart(pair[1], pair[2])
    BY <1>1, <2>2 DEF StampInv
  <2>4. Stamp[pair[1]] # NoTime
    BY <1>1, <2>1, <2>3 DEF Apart, StampInv, Faithful, Ticks, NoTime
  <2> QED  BY <2>3, <2>4 DEF Apart
<1> QED  BY <1>1, StampsHold, PTL

\* The times in the summary are right in every run, however often the counter
\* wraps, as long as no two of the events it subtracts lie a whole range of the
\* counter apart.
InRange == \A pair \in Pairs : since[pair[2]] - since[pair[1]] < TickMod

LEMMA StampsSubtract == StampInv /\ InRange => TimesAreRight
<1> SUFFICES ASSUME StampInv, InRange PROVE TimesAreRight
  OBVIOUS
<1>1. ASSUME NEW f \in Events, NEW t \in Events, <<f, t>> \in Pairs
      PROVE  Between(f, t, Stamp[f], Stamp[t])
  <2> SUFFICES ASSUME Stamp[t] # NoTime
               PROVE  /\ Stamp[f] # NoTime
                      /\ (Stamp[t] - Stamp[f]) % TickMod = since[t] - since[f]
    BY DEF Between, Difference
  <2>1. since[t] # NoTime
    BY DEF StampInv
  <2>2. Apart(f, t)
    BY <1>1, <2>1 DEF StampInv
  <2>3. Stamp[f] # NoTime
    BY <2>2 DEF Apart, StampInv, Faithful, Ticks, NoTime
  <2>4. since[t] - since[f] < TickMod
    BY <1>1 DEF InRange
  <2> QED  BY <2>2, <2>3, <2>4 DEF Apart
<1>2. /\ Stamp["first"] = timeFirstProduced /\ Stamp["produced"] = timeAllProduced
      /\ Stamp["consumed"] = timeAllConsumed /\ Stamp["validated"] = timeValidated
  BY DEF Stamp
<1>3. ASSUME timeValidated # NoTime, since["validated"] < TickMod
      PROVE  timeValidated = since["validated"]
  <2>1. "validated" \in Events /\ since["validated"] # NoTime
    BY <1>2, <1>3 DEF StampInv, Events
  <2>2. Faithful("validated") /\ since["validated"] \in Nat
    BY <2>1 DEF StampInv, Faithful
  <2> QED  BY <1>2, <1>3, <2>2, HalfAssumption DEF Faithful, TickMod
<1> QED  BY <1>1, <1>2, <1>3 DEF TimesAreRight, Pairs, Events

THEOREM TimesRight == ProgramSpec => [](InRange => TimesAreRight)
<1> QED  BY StampsSubtract, StampsHold, PTL

\* In particular, without condition, in every run that ends before the tick counter
\* has gone round.
COROLLARY ShortRunsAreTimed ==
    ASSUME MaxElapsed < TickMod
    PROVE  ProgramSpec => []TimesAreRight
<1>1. ASSUME StampInv PROVE TimesAreRight
  <2>1. ASSUME NEW e \in Events
        PROVE  /\ since[e] \in -1 .. MaxElapsed
               /\ Stamp[e] # NoTime => Stamp[e] = since[e]
    <3>1. elapsed \in 0 .. MaxElapsed
      BY <1>1 DEF StampInv, ClockInv
    <3>2. CASE since[e] = NoTime
      BY <1>1, <3>2, ElapsedAssumption DEF StampInv, NoTime
    <3>3. CASE since[e] # NoTime
      <4>1. Faithful(e)
        BY <1>1, <3>3 DEF StampInv
      <4> QED  BY <3>1, <4>1, ElapsedAssumption, HalfAssumption DEF Faithful, TickMod
    <3> QED  BY <3>2, <3>3
  <2>2. ASSUME NEW f \in Events, NEW t \in Events, <<f, t>> \in Pairs
        PROVE  since[t] - since[f] < TickMod
    <3>1. CASE since[t] = NoTime
      BY <2>1, <3>1, ElapsedAssumption, HalfAssumption DEF TickMod, NoTime
    <3>2. CASE since[t] # NoTime
      <4>1. since[f] # NoTime
        BY <1>1, <2>2, <3>2 DEF StampInv, Apart
      <4>2. since[f] \in 0 .. MaxElapsed /\ since[t] \in 0 .. MaxElapsed
        BY <2>1, <3>2, <4>1, ElapsedAssumption DEF NoTime
      <4> QED  BY <4>2, ElapsedAssumption, HalfAssumption DEF TickMod
    <3> QED  BY <3>1, <3>2
  <2>3. InRange
    BY <2>2 DEF InRange, Pairs, Events
  <2> QED  BY <1>1, <2>3, StampsSubtract
<1> QED  BY <1>1, StampsHold, PTL

\* The variables of the whole program keep their types.
THEOREM ProgramTypeCorrect == ProgramSpec => []ProgramTypeOK
<1>1. ASSUME Parts, StampInv PROVE ProgramTypeOK
  <2>1. TypeOK
    BY <1>1 DEF Parts, UsageInv, IndInv
  <2>2. W!TypeOK
    BY <1>1, WorkFacts DEF Parts
  <2>3. \A e \in Events : Stamp[e] \in Ticks \cup {NoTime} /\ since[e] \in -1 .. MaxElapsed
    BY <1>1, ElapsedAssumption DEF StampInv, ClockInv, Faithful, NoTime
  <2>4. since \in [Events -> -1 .. MaxElapsed]
    BY <1>1, <2>3 DEF StampInv
  <2>5. {timeFirstProduced, timeAllProduced, timeAllConsumed, timeValidated}
           \subseteq Ticks \cup {NoTime}
    BY <2>3 DEF Stamp, Events
  <2> QED  BY <2>1, <2>2, <2>4, <2>5 DEF ProgramTypeOK
<1> QED  BY <1>1, StampsHold, PTL

\* The program ends cleanly whatever the build: if cleanup's last pause exceeds
\* the others by more than a round of the slots, no task is in the table any
\* more when it halts the machine, but itself and the idle task.
THEOREM EndIsClean ==
    ASSUME Patient, NoWrap, N <= Half
    PROVE  ProgramSpec => []CleanExit
<1>1. Bounds
  BY DEF Bounds
<1>2. ProgramInit => CourseInv
  BY <1>1, InitCourse, InitStampInv DEF CourseInv, StampInv
<1>3. Parts /\ StampInv /\ CourseInv /\ [ProgramNext]_programVars /\ StampInv' => CourseInv'
  BY <1>1, NextCourse
<1>4. ASSUME Parts, CourseInv PROVE CleanExit
  <2> SUFFICES ASSUME task["cleanup"] = "halted"
               PROVE  /\ task["monitor"] = "returned" /\ task["validator"] = "returned"
                      /\ \A i \in Slots \ {CleanupSlot, IdleSlot} : ~inUse[i]
    BY DEF CleanExit
  <2>1. EndInv /\ SlotsInv
    BY <1>4 DEF CourseInv
  <2>2. running # "main" /\ \A i \in Others : ~inUse[i]
    BY <2>1 DEF EndInv
  <2>3. IdleSlot \in Slots
    BY <2>1, <2>2 DEF SlotsInv
  <2>4. MonitorSlot \in Others /\ ValidatorSlot \in Others
    BY <1>4, <2>3, SlotsOfTasks
  <2> QED  BY <2>1, <2>2, <2>4 DEF EndInv, Others
<1> QED  BY <1>2, <1>3, <1>4, StampsHold, PTL DEF ProgramSpec

\* No topic ever fills: if a round of the producers fits into what the monitor's
\* pause leaves over, they publish no more between two of its rounds than the
\* ratio of the pauses tells, for any number of producers, and no producer ever
\* has to keep an item.
THEOREM TopicsHaveRoom ==
    ASSUME Patient, NoWrap, N <= Half, Paced
    PROVE  ProgramSpec => []BacklogBounded
<1>1. Bounds
  BY DEF Bounds
<1>2. ProgramInit => CourseInv /\ QueueInv
  BY <1>1, InitCourse, InitStampInv, InitQueueInv DEF CourseInv, StampInv
<1>3. Parts /\ StampInv /\ CourseInv /\ [ProgramNext]_programVars /\ StampInv' => CourseInv'
  BY <1>1, NextCourse
<1>4. Parts /\ CourseInv /\ QueueInv /\ [ProgramNext]_programVars /\ Parts' /\ CourseInv'
        => QueueInv'
  BY <1>1, NextQueueInv
<1>5. ASSUME Parts, QueueInv PROVE BacklogBounded
  <2>1. W!NumProducers * Rounds \in Nat
    BY <1>1, <1>5, BuildFacts
  <2>2. ASSUME NEW c \in W!Consumers PROVE Len(queue[c]) <= W!NumProducers * Rounds
    <3>1. CASE complete \/ running = "main"
      <4>1. queue[c] = <<>>
        BY <1>5, <3>1, NothingLeft DEF Parts, QueueInv
      <4>2. Len(queue[c]) = 0
        BY <4>1
      <4> QED  BY <2>1, <4>2
    <3>2. CASE ~complete /\ running # "main"
      BY <1>1, <1>5, <3>2, BacklogFits DEF QueueInv
    <3> QED  BY <3>1, <3>2
  <2> QED  BY <1>5, <2>2 DEF BacklogBounded, Rounds, QueueInv
<1> QED  BY <1>2, <1>3, <1>4, <1>5, StampsHold, PTL DEF ProgramSpec

\* In every run of at least 2005 ticks, and so of ten seconds at the slowest rate
\* and of four at the fastest, the summary does not blame a system clock that is
\* right, unless its own milliseconds are cut off.
THEOREM ClockIsTrusted ==
    ASSUME MaxElapsed < TickMod, ClocksPerSec = 100
    PROVE  ProgramSpec => [](timeValidated >= 2005 => ClockTrusted)
<1>1. ASSUME StampInv, timeValidated >= 2005 PROVE ClockTrusted
  <2>1. "validated" \in Events /\ Stamp["validated"] = timeValidated
    BY DEF Events, Stamp
  <2>2. PICK s \in 0 .. MaxElapsed : s = since["validated"] /\ s = timeValidated
    <3>1. since["validated"] # NoTime
      BY <1>1, <2>1 DEF StampInv, NoTime
    <3>2. Faithful("validated") /\ elapsed \in 0 .. MaxElapsed
      BY <1>1, <2>1, <3>1 DEF StampInv, ClockInv
    <3> QED  BY <2>1, <3>2, ElapsedAssumption, HalfAssumption DEF Faithful, TickMod
  <2>3. s \in Nat /\ s >= 2005
    BY <1>1, <2>2, ElapsedAssumption
  <2>4. \A rate \in TunedRates : rate \in 200 .. 500
    BY DEF TunedRates
  <2>5. \A rate \in TunedRates : Trusted(rate, s)
    BY <2>3, <2>4, LongRunsTrusted
  <2> QED  BY <2>2, <2>5 DEF ClockTrusted, Trusted, Clocks, MsAt, Blames
<1> QED  BY <1>1, StampsHold, PTL
=============================================================================
