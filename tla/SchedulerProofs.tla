--------------------------- MODULE SchedulerProofs ---------------------------
(***************************************************************************)
(* Theorems about Scheduler and CpuUsage, for every number of slots, every  *)
(* width of the tick counter and of the CPU counters, and every set of     *)
(* calls the workers make.                                                 *)
(***************************************************************************)
EXTENDS CpuUsage, CommonLemmas

-----------------------------------------------------------------------------
(* The scan of find_next_task *)

\* The scan reaches every slot within N places.
LEMMA DistBounds ==
    ASSUME NEW from \in Slots \cup {NoTask}, NEW i \in Slots
    PROVE  Dist(from, i) \in 1 .. N
BY NAssumption DEF Dist, Slots, NoTask

\* The scan finds the nearest member of the set it looks for (scheduler.c:66).
LEMMA FirstAfterNearest ==
    ASSUME NEW from \in Slots \cup {NoTask}, NEW S \in SUBSET Slots, S # {}
    PROVE  /\ FirstAfter(from, S) \in S
           /\ \A j \in S : Dist(from, FirstAfter(from, S)) <= Dist(from, j)
<1> DEFINE D == {Dist(from, j) : j \in S}
<1>1. D \subseteq Nat /\ D # {}
  BY DistBounds
<1>2. PICK m \in D : \A k \in D : m <= k
  <2> HIDE DEF D
  <2> QED  BY <1>1, LeastNat
<1>3. \E i \in S : \A j \in S : Dist(from, i) <= Dist(from, j)
  BY <1>2
<1> QED  BY <1>3 DEF FirstAfter

\* find_next_task returns a ready task if there is one, and a non-idle one,
\* the nearest, if there is one of those.
LEMMA FindNextSound ==
    ASSUME NEW from \in Slots \cup {NoTask}, NEW ready \in SUBSET Slots
    PROVE  /\ FindNext(from, ready) \in ready \cup {NoTask}
           /\ FindNext(from, ready) = NoTask <=> ready = {}
           /\ \A j \in ready \ {idleTask} :
                 Dist(from, FindNext(from, ready)) <= Dist(from, j)
<1>0. NoTask \notin Slots
  BY DEF NoTask, Slots
<1>1. CASE ready \ {idleTask} # {}
  BY <1>0, <1>1, FirstAfterNearest DEF FindNext
<1>2. CASE ready \ {idleTask} = {} /\ ready # {}
  BY <1>0, <1>2, FirstAfterNearest DEF FindNext
<1>3. CASE ready = {}
  BY <1>3 DEF FindNext, FirstAfter
<1> QED  BY <1>1, <1>2, <1>3

\* Switching to a nearer task brings every task behind it nearer.
LEMMA Nearer ==
    ASSUME NEW from \in Slots \cup {NoTask}, NEW next \in Slots, NEW i \in Slots,
           next # i, Dist(from, next) <= Dist(from, i)
    PROVE  Dist(next, i) + 1 <= Dist(from, i)
BY NAssumption DEF Dist, Slots, NoTask

-----------------------------------------------------------------------------
(* The 16-bit tick counter *)

LEMMA TickRange ==
    ASSUME NEW x \in Int
    PROVE  x % TickMod \in Ticks
BY HalfAssumption DEF TickMod, Ticks

LEMMA ModSmall ==
    ASSUME NEW x \in Int, 0 <= x, x < TickMod
    PROVE  x % TickMod = x
BY HalfAssumption DEF TickMod

LEMMA ModWrap ==
    ASSUME NEW x \in Int, TickMod <= x, x < 2 * TickMod
    PROVE  x % TickMod = x - TickMod
BY HalfAssumption DEF TickMod

\* A tick spent is a tick less to sleep, across the wrap.
LEMMA TickStep ==
    ASSUME NEW t \in Ticks, NEW d \in 1 .. Half
    PROVE  (((t + 1) % TickMod) + (d - 1)) % TickMod = (t + d) % TickMod
<1>0. /\ TickMod \in Nat /\ t \in Int /\ 0 <= t /\ t < TickMod
      /\ d \in Int /\ 1 <= d /\ d < TickMod
  BY HalfAssumption DEF TickMod, Ticks
<1>1. CASE t + 1 < TickMod
  <2>1. (t + 1) % TickMod = t + 1
    BY <1>0, <1>1, ModSmall
  <2>2. (t + 1) + (d - 1) = t + d
    BY <1>0
  <2> QED  BY <2>1, <2>2
<1>2. CASE t + 1 >= TickMod
  <2>1. t + 1 = TickMod /\ (t + 1) % TickMod = 0
    BY <1>0, <1>2, ModWrap
  <2>2. (d - 1) % TickMod = d - 1
    BY <1>0, ModSmall
  <2>3. (t + d) % TickMod = (t + d) - TickMod
    BY <1>0, <2>1, ModWrap
  <2>4. (t + d) - TickMod = d - 1 /\ 0 + (d - 1) = d - 1
    BY <1>0, <2>1
  <2> QED  BY <2>1, <2>2, <2>3, <2>4
<1> QED  BY <1>0, <1>1, <1>2

-----------------------------------------------------------------------------
(* The inductive invariant *)

LEMMA InitIndInv == Init => IndInv
<1> SUFFICES ASSUME Init PROVE IndInv
  OBVIOUS
<1>1. 0 \in Ticks /\ 0 \in 0 .. Half
  BY HalfAssumption DEF Ticks, TickMod
<1>2. TypeOK
  BY <1>1 DEF Init, TypeOK
<1>3. WaitInv
  BY DistBounds DEF Init, WaitInv
<1>4. ControlInv
  BY DEF Init, ControlInv, NoTask, Slots
<1>5. EnteredOnce /\ SleepMatches
  BY DEF Init, EnteredOnce, SleepMatches
<1> QED  BY <1>2, <1>3, <1>4, <1>5 DEF IndInv

\* scheduler_yield, in whatever state its caller has put the table: tasks
\* taken out, wake ticks set, no task added.
LEMMA RescheduleInv ==
    ASSUME IndInv, running \in {"worker", "idle"},
           NEW use \in [Slots -> BOOLEAN],
           NEW wake \in [Slots -> Ticks],
           NEW slept \in [Slots -> 0 .. Half],
           NEW stay \in {running, "lost"},
           \A i \in Slots : use[i] => inUse[i],
           \A i \in Slots : use[i] /\ slept[i] > 0 =>
                             (ticks + slept[i]) % TickMod = wake[i],
           orphan /\ use[current] => slept[current] = 0,
           Reschedule(use, wake, slept, stay)
    PROVE  IndInv'
<1> DEFINE t     == (ticks + 1) % TickMod
           ready == Ready(use, wake, t)
           next  == FindNext(current, ready)
<1>1. ready \in SUBSET Slots /\ \A i \in ready : use[i]
  BY DEF Ready
<1>2. t \in Ticks
  BY TickRange DEF IndInv, TypeOK, Ticks
<1>3. current \in Slots
  BY DEF IndInv, ControlInv
<1>4. /\ next \in ready \cup {NoTask}
      /\ next = NoTask <=> ready = {}
      /\ \A j \in ready \ {idleTask} : Dist(current, next) <= Dist(current, j)
  BY <1>1, <1>3, FindNextSound
<1>5. /\ ticks' = t
      /\ inUse' = use /\ wakeTick' = wake
      /\ left' = [i \in Slots |-> IF slept[i] > 0 THEN slept[i] - 1 ELSE 0]
      /\ waited' = [i \in Slots |-> IF i \in ready \ {idleTask, next}
                                    THEN waited[i] + 1 ELSE 0]
      /\ IF next = NoTask
           THEN running' = stay /\ UNCHANGED <<current, started, orphan, entered>>
           ELSE SwitchTo(next)
      /\ UNCHANGED <<fn, idleTask>>
  BY DEF Reschedule
<1>6. NoTask \notin Slots
  BY DEF NoTask, Slots
<1> HIDE DEF t, ready, next
<1>7. ASSUME next # NoTask
      PROVE  /\ next \in Slots /\ next \in ready /\ use[next] /\ inUse[next]
             /\ SwitchTo(next)
             /\ fn[next] \in {"worker", "idle"}
  BY <1>1, <1>4, <1>5, <1>7 DEF IndInv, ControlInv
<1>8. TypeOK'
  <2>1. left' \in [Slots -> 0 .. Half] /\ waited' \in [Slots -> Nat]
    BY <1>5, HalfAssumption DEF IndInv, TypeOK
  <2>2. CASE next = NoTask
    BY <1>2, <1>5, <2>1, <2>2 DEF IndInv, TypeOK
  <2>3. CASE next # NoTask
    <3>1. /\ current' = next /\ running' = fn[next] /\ orphan' = FALSE
          /\ started' = [started EXCEPT ![next] = TRUE]
          /\ entered' = [entered EXCEPT ![next] =
                            IF started[next] THEN entered[next] ELSE entered[next] + 1]
      BY <1>7, <2>3 DEF SwitchTo
    <3>2. started' \in [Slots -> BOOLEAN] /\ entered' \in [Slots -> Nat]
      BY <1>7, <2>3, <3>1 DEF IndInv, TypeOK
    <3> QED  BY <1>2, <1>5, <1>7, <2>1, <2>3, <3>1, <3>2 DEF IndInv, TypeOK
  <2> QED  BY <2>2, <2>3
<1>9. WaitInv'
  <2> SUFFICES ASSUME NEW i \in Slots PROVE waited'[i] + Dist(current', i) <= N
    BY DEF WaitInv, Dist
  <2>1. CASE i \in ready \ {idleTask, next}
    <3>1. next # NoTask
      BY <1>4, <2>1
    <3>2. current' = next /\ waited'[i] = waited[i] + 1
      BY <1>5, <1>7, <2>1, <3>1 DEF SwitchTo
    <3>3. Dist(next, i) + 1 <= Dist(current, i)
      BY <1>3, <1>4, <1>7, <2>1, <3>1, Nearer
    <3>4. Dist(next, i) \in Int /\ Dist(current, i) \in Int /\ waited[i] \in Int
      BY <1>3, <1>7, <3>1, DistBounds DEF IndInv, TypeOK
    <3>5. waited[i] + Dist(current, i) <= N
      BY DEF IndInv, WaitInv
    <3> QED  BY <3>2, <3>3, <3>4, <3>5, NAssumption
  <2>2. CASE i \notin ready \ {idleTask, next}
    <3>1. waited'[i] = 0
      BY <1>5, <2>2
    <3>2. current' \in Slots
      BY <1>3, <1>5, <1>7 DEF SwitchTo
    <3> QED  BY <3>1, <3>2, DistBounds, NAssumption
  <2> QED  BY <2>1, <2>2
<1>10. ControlInv'
  <2>1. \A i \in Slots : inUse'[i] => fn'[i] \in {"worker", "idle"}
    BY <1>5 DEF IndInv, ControlInv
  <2>2. current' \in Slots /\ running' # "main"
    BY <1>3, <1>5, <1>7 DEF SwitchTo
  <2>3. orphan' /\ inUse'[current'] => left'[current'] = 0
    <3>1. CASE next = NoTask
      <4>1. orphan' = orphan /\ current' = current /\ inUse'[current] = use[current]
        BY <1>5, <3>1
      <4>2. slept[current] = 0 => left'[current] = 0
        BY <1>3, <1>5
      <4> QED  BY <4>1, <4>2
    <3>2. CASE next # NoTask
      BY <1>7, <3>2 DEF SwitchTo
    <3> QED  BY <3>1, <3>2
  <2> QED  BY <2>1, <2>2, <2>3 DEF ControlInv
<1>11. EnteredOnce'
  <2>1. CASE next = NoTask
    BY <1>5, <2>1 DEF IndInv, EnteredOnce
  <2>2. CASE next # NoTask
    BY <1>5, <1>7, <2>2 DEF IndInv, TypeOK, EnteredOnce, SwitchTo
  <2> QED  BY <2>1, <2>2
<1>12. SleepMatches'
  <2> SUFFICES ASSUME NEW i \in Slots, inUse'[i], left'[i] > 0
               PROVE  (ticks' + left'[i]) % TickMod = wakeTick'[i]
    BY DEF SleepMatches, TickMod
  <2>1. slept[i] \in 1 .. Half /\ left'[i] = slept[i] - 1 /\ use[i]
    BY <1>5, HalfAssumption
  <2>2. (t + (slept[i] - 1)) % TickMod = (ticks + slept[i]) % TickMod
    BY <2>1, TickStep DEF t, IndInv, TypeOK
  <2> QED  BY <1>5, <2>1, <2>2
<1> QED  BY <1>8, <1>9, <1>10, <1>11, <1>12 DEF IndInv

LEMMA AddInv == ASSUME IndInv, NEW f \in Fns, Add(f) PROVE IndInv'
<1>1. PICK i \in Slots :
        /\ FreeSlot(i)
        /\ fn' = [fn EXCEPT ![i] = f]
        /\ inUse' = [inUse EXCEPT ![i] = TRUE]
        /\ started' = [started EXCEPT ![i] = FALSE]
        /\ wakeTick' = [wakeTick EXCEPT ![i] = 0]
        /\ entered' = [entered EXCEPT ![i] = 0]
        /\ left' = [left EXCEPT ![i] = 0]
        /\ waited' = [waited EXCEPT ![i] = 0]
  BY DEF Add
<1>2. UNCHANGED <<ticks, current, idleTask, running, orphan>>
  BY DEF Add
<1>3. f \in {"worker", "idle"} /\ 0 \in Ticks /\ 0 \in 0 .. Half
  BY FnsAssumption, HalfAssumption DEF Ticks, TickMod
<1>4. TypeOK'
  BY <1>1, <1>2, <1>3 DEF IndInv, TypeOK
<1>5. WaitInv'
  <2> SUFFICES ASSUME NEW j \in Slots PROVE waited'[j] + Dist(current', j) <= N
    BY DEF WaitInv, Dist
  <2>1. waited'[j] = 0 \/ waited'[j] = waited[j]
    BY <1>1 DEF IndInv, TypeOK
  <2>2. waited[j] + Dist(current, j) <= N /\ Dist(current, j) \in 1 .. N
    BY DistBounds DEF IndInv, TypeOK, WaitInv
  <2> QED  BY <1>2, <2>1, <2>2, NAssumption
<1>6. ControlInv'
  <2>1. \A j \in Slots : inUse'[j] => fn'[j] \in {"worker", "idle"}
    BY <1>1, <1>3 DEF IndInv, TypeOK, ControlInv
  <2>2. running' = "main" => current' = NoTask /\ \A j \in Slots : waited'[j] = 0
    BY <1>1, <1>2 DEF IndInv, TypeOK, ControlInv
  <2>3. current' \in Slots => (orphan' /\ inUse'[current'] => left'[current'] = 0)
    BY <1>1, <1>2 DEF IndInv, TypeOK, ControlInv
  <2> QED  BY <1>2, <2>1, <2>2, <2>3 DEF IndInv, ControlInv
<1>7. EnteredOnce'
  BY <1>1 DEF IndInv, TypeOK, EnteredOnce
<1>8. SleepMatches'
  <2> SUFFICES ASSUME NEW j \in Slots, inUse'[j], left'[j] > 0
               PROVE  (ticks' + left'[j]) % TickMod = wakeTick'[j]
    BY DEF SleepMatches, TickMod
  <2>1. j # i /\ inUse[j] /\ left'[j] = left[j] /\ wakeTick'[j] = wakeTick[j]
    BY <1>1 DEF IndInv, TypeOK
  <2> QED  BY <1>2, <2>1 DEF IndInv, SleepMatches
<1> QED  BY <1>4, <1>5, <1>6, <1>7, <1>8 DEF IndInv

LEMMA RemoveInv == ASSUME IndInv, NEW id \in Slots, Remove(id) PROVE IndInv'
<1>1. /\ running = "worker"
      /\ inUse' = [inUse EXCEPT ![id] = FALSE]
      /\ fn' = [fn EXCEPT ![id] = "none"]
      /\ started' = [started EXCEPT ![id] = FALSE]
      /\ orphan' = (orphan \/ id = current)
      /\ entered' = [entered EXCEPT ![id] = 0]
      /\ left' = [left EXCEPT ![id] = 0]
      /\ waited' = [waited EXCEPT ![id] = 0]
      /\ UNCHANGED <<wakeTick, ticks, current, idleTask, running>>
  BY DEF Remove, MayRemove
<1>2. TypeOK'
  BY <1>1, HalfAssumption DEF IndInv, TypeOK
<1>3. WaitInv'
  <2> SUFFICES ASSUME NEW j \in Slots PROVE waited'[j] + Dist(current', j) <= N
    BY DEF WaitInv, Dist
  <2>1. waited'[j] = 0 \/ waited'[j] = waited[j]
    BY <1>1 DEF IndInv, TypeOK
  <2>2. waited[j] + Dist(current, j) <= N /\ Dist(current, j) \in 1 .. N
    BY DistBounds DEF IndInv, TypeOK, WaitInv
  <2> QED  BY <1>1, <2>1, <2>2, NAssumption
<1>4. ControlInv'
  <2>1. \A j \in Slots : inUse'[j] => fn'[j] \in {"worker", "idle"}
    BY <1>1 DEF IndInv, TypeOK, ControlInv
  <2>2. current' \in Slots => (orphan' /\ inUse'[current'] => left'[current'] = 0)
    BY <1>1 DEF IndInv, TypeOK, ControlInv
  <2> QED  BY <1>1, <2>1, <2>2 DEF IndInv, ControlInv
<1>5. EnteredOnce'
  BY <1>1 DEF IndInv, TypeOK, EnteredOnce
<1>6. SleepMatches'
  <2> SUFFICES ASSUME NEW j \in Slots, inUse'[j], left'[j] > 0
               PROVE  (ticks' + left'[j]) % TickMod = wakeTick'[j]
    BY DEF SleepMatches, TickMod
  <2>1. inUse[j] /\ left'[j] = left[j]
    BY <1>1 DEF IndInv, TypeOK
  <2> QED  BY <1>1, <2>1 DEF IndInv, SleepMatches
<1> QED  BY <1>2, <1>3, <1>4, <1>5, <1>6 DEF IndInv

LEMMA RunInv == ASSUME IndInv, Run PROVE IndInv'
<1> DEFINE ready == Ready(inUse, wakeTick, ticks)
           first == FindNext(NoTask, ready)
<1>1. /\ running = "main" /\ current = NoTask
      /\ \A i \in Slots : waited[i] = 0
      /\ UNCHANGED <<fn, inUse, wakeTick, ticks, idleTask, left, waited>>
  BY DEF Run, IndInv, ControlInv
<1>2. ready \in SUBSET Slots /\ \A i \in ready : inUse[i]
  BY DEF Ready
<1>3. NoTask \notin Slots
  BY DEF NoTask, Slots
<1>4. first # NoTask => first \in Slots /\ inUse[first]
  BY <1>2, FindNextSound
<1>5. IF first = NoTask
        THEN running' = "exited" /\ UNCHANGED <<current, started, orphan, entered>>
        ELSE SwitchTo(first)
  BY DEF Run
<1> HIDE DEF ready, first
<1>6. SleepMatches'
  BY <1>1 DEF IndInv, SleepMatches, TickMod
<1>7. current' \in Slots \cup {NoTask} /\ WaitInv'
  <2>1. current' \in Slots \cup {NoTask}
    BY <1>1, <1>4, <1>5 DEF SwitchTo
  <2> SUFFICES ASSUME NEW j \in Slots PROVE waited'[j] + Dist(current', j) <= N
    BY <2>1 DEF WaitInv, Dist
  <2> QED  BY <1>1, <2>1, DistBounds, NAssumption
<1>8. CASE first = NoTask
  <2>1. TypeOK' /\ EnteredOnce' /\ ControlInv'
    BY <1>1, <1>3, <1>5, <1>8 DEF IndInv, TypeOK, EnteredOnce, ControlInv
  <2> QED  BY <1>6, <1>7, <2>1 DEF IndInv
<1>9. CASE first # NoTask
  <2>1. /\ current' = first /\ running' = fn[first] /\ orphan' = FALSE
        /\ started' = [started EXCEPT ![first] = TRUE]
        /\ entered' = [entered EXCEPT ![first] =
                          IF started[first] THEN entered[first] ELSE entered[first] + 1]
        /\ fn[first] \in {"worker", "idle"}
    BY <1>4, <1>5, <1>9 DEF SwitchTo, IndInv, ControlInv
  <2>2. started' \in [Slots -> BOOLEAN] /\ entered' \in [Slots -> Nat]
    BY <1>4, <1>9, <2>1 DEF IndInv, TypeOK
  <2>3. TypeOK'
    BY <1>1, <1>7, <2>1, <2>2 DEF IndInv, TypeOK
  <2>4. EnteredOnce'
    BY <1>1, <1>4, <1>9, <2>1 DEF IndInv, TypeOK, EnteredOnce
  <2>5. ControlInv'
    BY <1>1, <1>4, <1>9, <2>1 DEF IndInv, ControlInv
  <2> QED  BY <1>6, <1>7, <2>3, <2>4, <2>5 DEF IndInv
<1> QED  BY <1>8, <1>9

LEMMA SleepInv == ASSUME IndInv, NEW d \in Deltas, Sleep(d) PROVE IndInv'
<1> DEFINE delta == IF d = 0 THEN 1 ELSE d
           wake  == [wakeTick EXCEPT ![current] = (ticks + delta) % TickMod]
           slept == IF orphan THEN left ELSE [left EXCEPT ![current] = delta]
<1>1. running = "worker" /\ current \in Slots
  BY DEF Sleep, IndInv, ControlInv
<1>2. delta \in 1 .. Half
  BY DeltasAssumption, HalfAssumption
<1>3. ticks + delta \in Int
  BY <1>2, HalfAssumption DEF IndInv, TypeOK, Ticks, TickMod
<1>4. wake \in [Slots -> Ticks]
  BY <1>1, <1>3, TickRange DEF IndInv, TypeOK
<1>5. slept \in [Slots -> 0 .. Half]
  BY <1>1, <1>2 DEF IndInv, TypeOK
<1>6. Reschedule(inUse, wake, slept, running)
  BY DEF Sleep
<1>7. \A i \in Slots : inUse[i] /\ slept[i] > 0 => (ticks + slept[i]) % TickMod = wake[i]
  <2> SUFFICES ASSUME NEW i \in Slots, inUse[i], slept[i] > 0
               PROVE  (ticks + slept[i]) % TickMod = wake[i]
    OBVIOUS
  <2>1. CASE i = current /\ orphan
    <3>1. slept[i] = 0
      BY <1>1, <2>1 DEF IndInv, ControlInv
    <3> QED  BY <3>1
  <2>2. CASE i = current /\ ~orphan
    BY <1>1, <2>2 DEF IndInv, TypeOK
  <2>3. CASE i # current
    BY <1>1, <2>3 DEF IndInv, TypeOK, SleepMatches
  <2> QED  BY <2>1, <2>2, <2>3
<1>8. orphan /\ inUse[current] => slept[current] = 0
  BY <1>1 DEF IndInv, ControlInv
<1>9. inUse \in [Slots -> BOOLEAN] /\ \A i \in Slots : inUse[i] => inUse[i]
  BY DEF IndInv, TypeOK
<1> HIDE DEF wake, slept
<1> QED  BY <1>1, <1>4, <1>5, <1>6, <1>7, <1>8, <1>9, RescheduleInv

LEMMA YieldInv == ASSUME IndInv, Yield PROVE IndInv'
<1>1. running \in {"worker", "idle"} /\ current \in Slots
  BY DEF Yield, IndInv, ControlInv
<1>2. Reschedule(inUse, wakeTick, left, running)
  BY DEF Yield
<1>3. /\ inUse \in [Slots -> BOOLEAN] /\ wakeTick \in [Slots -> Ticks]
      /\ left \in [Slots -> 0 .. Half]
      /\ orphan /\ inUse[current] => left[current] = 0
      /\ \A i \in Slots : inUse[i] /\ left[i] > 0 =>
                          (ticks + left[i]) % TickMod = wakeTick[i]
  BY <1>1 DEF IndInv, TypeOK, ControlInv, SleepMatches
<1> QED  BY <1>1, <1>2, <1>3, RescheduleInv

LEMMA TaskReturnInv == ASSUME IndInv, TaskReturn PROVE IndInv'
<1> DEFINE use == [inUse EXCEPT ![current] = FALSE]
<1>1. running \in {"worker", "idle"} /\ current \in Slots
  BY DEF TaskReturn, IndInv, ControlInv
<1>2. Reschedule(use, wakeTick, left, "lost")
  BY DEF TaskReturn
<1>3. /\ use \in [Slots -> BOOLEAN] /\ wakeTick \in [Slots -> Ticks]
      /\ left \in [Slots -> 0 .. Half]
      /\ \A i \in Slots : use[i] => inUse[i]
      /\ ~use[current]
  BY <1>1 DEF IndInv, TypeOK
<1>4. \A i \in Slots : use[i] /\ left[i] > 0 => (ticks + left[i]) % TickMod = wakeTick[i]
  BY <1>3 DEF IndInv, SleepMatches
<1> HIDE DEF use
<1> QED  BY <1>1, <1>2, <1>3, <1>4, RescheduleInv

LEMMA NextIndInv == IndInv /\ [Next]_vars => IndInv'
<1> SUFFICES ASSUME IndInv, [Next]_vars PROVE IndInv'
  OBVIOUS
<1>1. ASSUME NEW f \in Fns, Add(f) PROVE IndInv'
  BY <1>1, AddInv
<1>2. ASSUME NEW id \in Slots, Remove(id) PROVE IndInv'
  BY <1>2, RemoveInv
<1>3. ASSUME NEW id \in Slots \cup {NoTask}, SetIdle(id) PROVE IndInv'
  <2>1. UNCHANGED <<table, ticks, current, running, history>> /\ idleTask' = id
    BY <1>3 DEF SetIdle
  <2> QED
    BY <2>1 DEF table, history, IndInv, TypeOK, WaitInv, Dist, ControlInv, EnteredOnce,
                SleepMatches, TickMod
<1>4. CASE Run
  BY <1>4, RunInv
<1>5. CASE Yield
  BY <1>5, YieldInv
<1>6. ASSUME NEW d \in Deltas, Sleep(d) PROVE IndInv'
  BY <1>6, SleepInv
<1>7. CASE TaskReturn
  BY <1>7, TaskReturnInv
<1>8. CASE UNCHANGED vars
  BY <1>8 DEF vars, IndInv, TypeOK, WaitInv, Dist, ControlInv, EnteredOnce,
              SleepMatches, TickMod
<1> QED
  BY <1>1, <1>2, <1>3, <1>4, <1>5, <1>6, <1>7, <1>8 DEF Next

LEMMA BoundedWaitFollows == IndInv => BoundedWait
<1> SUFFICES ASSUME IndInv, NEW i \in Slots PROVE waited[i] < N
  BY DEF BoundedWait
<1>1. Dist(current, i) \in 1 .. N /\ waited[i] \in Nat
  BY DistBounds DEF IndInv, TypeOK
<1>2. waited[i] + Dist(current, i) <= N
  BY DEF IndInv, WaitInv
<1> QED  BY <1>1, <1>2, NAssumption

-----------------------------------------------------------------------------
(* The idle task *)

LEMMA InitIdleInv == Init => IdleInv
BY DEF Init, IdleInv, HasIdle

\* A ready task can always be found while the idle task is in the table, so
\* scheduler_yield switches.
LEMMA RescheduleSwitches ==
    ASSUME IndInv, running \in {"worker", "idle"},
           NEW use \in [Slots -> BOOLEAN], NEW wake \in [Slots -> Ticks],
           NEW slept, NEW stay,
           NEW e \in Slots, use[e], wake[e] = 0,
           \A i \in Slots : use[i] => inUse[i],
           Reschedule(use, wake, slept, stay)
    PROVE  /\ current' \in Slots /\ use[current'] /\ running' = fn[current']
           /\ current' \in Ready(use, wake, ticks')
<1> DEFINE t     == (ticks + 1) % TickMod
           ready == Ready(use, wake, t)
           next  == FindNext(current, ready)
<1>1. ready \in SUBSET Slots /\ e \in ready /\ \A i \in ready : use[i]
  BY DEF Ready, Due
<1>2. current \in Slots
  BY DEF IndInv, ControlInv
<1>3. next \in ready /\ next # NoTask
  BY <1>1, <1>2, FindNextSound
<1>4. ticks' = t /\ SwitchTo(next)
  BY <1>3 DEF Reschedule
<1> HIDE DEF t, ready, next
<1>5. current' = next /\ running' = fn[next]
  BY <1>4 DEF SwitchTo
<1> QED  BY <1>1, <1>3, <1>4, <1>5 DEF ready

LEMMA RescheduleIdleInv ==
    ASSUME IndInv, KeepsIdle, running \in {"worker", "idle"},
           NEW use \in [Slots -> BOOLEAN], NEW wake \in [Slots -> Ticks],
           NEW slept, NEW stay,
           NEW e \in Slots, use[e], fn[e] = "idle",
           \A i \in Slots : use[i] => inUse[i],
           \A i \in Slots : use[i] /\ fn[i] = "idle" => wake[i] = 0,
           Reschedule(use, wake, slept, stay)
    PROVE  IdleInv'
<1>1. current' \in Slots /\ use[current'] /\ running' = fn[current']
  BY RescheduleSwitches
<1>2. inUse' = use /\ wakeTick' = wake /\ fn' = fn
  BY DEF Reschedule
<1>3. running' \in {"worker", "idle"}
  BY <1>1 DEF IndInv, ControlInv
<1> QED  BY <1>1, <1>2, <1>3 DEF IdleInv, HasIdle

LEMMA NextIdleInv == IndInv /\ IdleInv /\ [Next]_vars => IdleInv'
<1> SUFFICES ASSUME IndInv, IdleInv, [Next]_vars, KeepsIdle PROVE IdleInv'
  BY DEF IdleInv
<1>0. ASSUME running \in {"worker", "idle"}
      PROVE  /\ \E e \in Slots : inUse[e] /\ fn[e] = "idle"
             /\ \A i \in Slots : inUse[i] /\ fn[i] = "idle" => wakeTick[i] = 0
             /\ current \in Slots
  BY <1>0 DEF IdleInv, HasIdle, IndInv, ControlInv
<1>1. ASSUME NEW f \in Fns, Add(f) PROVE IdleInv'
  <2>1. PICK i \in Slots :
          /\ ~inUse[i]
          /\ fn' = [fn EXCEPT ![i] = f]
          /\ inUse' = [inUse EXCEPT ![i] = TRUE]
          /\ wakeTick' = [wakeTick EXCEPT ![i] = 0]
    BY <1>1 DEF Add, FreeSlot
  <2>2. running' = running /\ current' = current /\ running \in {"main", "worker"}
    BY <1>1 DEF Add, MayAdd
  <2>3. running = "worker" => f = "worker"
    BY <1>1 DEF Add, MayAdd
  <2>4. \A j \in Slots : inUse'[j] /\ fn'[j] = "idle" => wakeTick'[j] = 0
    BY <2>1 DEF IndInv, TypeOK, IdleInv
  <2>5. running' # "main" => HasIdle'
    <3> SUFFICES ASSUME running = "worker" PROVE HasIdle'
      BY <2>2
    <3>1. PICK e \in Slots : inUse[e] /\ fn[e] = "idle"
      BY <1>0
    <3> QED  BY <2>1, <3>1 DEF HasIdle, IndInv, TypeOK
  <2>6. running' = "worker" /\ inUse'[current'] => fn'[current'] = "worker"
    BY <1>0, <2>1, <2>2, <2>3 DEF IndInv, TypeOK, IdleInv
  <2> QED  BY <2>2, <2>4, <2>5, <2>6 DEF IdleInv
<1>2. ASSUME NEW id \in Slots, Remove(id) PROVE IdleInv'
  <2>1. /\ running = "worker" /\ fn[id] = "worker"
        /\ fn' = [fn EXCEPT ![id] = "none"]
        /\ inUse' = [inUse EXCEPT ![id] = FALSE]
        /\ UNCHANGED <<wakeTick, current, running>>
    <3>1. /\ running = "worker" /\ inUse[id] /\ current \in Slots
          /\ IF id = current THEN TRUE
             ELSE (IF fn[id] = "idle" THEN "removeIdle" ELSE "remove") \in Calls
          /\ fn' = [fn EXCEPT ![id] = "none"]
          /\ inUse' = [inUse EXCEPT ![id] = FALSE]
          /\ UNCHANGED <<wakeTick, current, running>>
      BY <1>0, <1>2 DEF Remove, MayRemove
    <3>2. fn[id] = "worker"
      BY <3>1, KeepsIdleAssumption DEF IdleInv, IndInv, ControlInv
    <3> QED  BY <3>1, <3>2
  <2>2. PICK e \in Slots : inUse[e] /\ fn[e] = "idle"
    BY <1>0, <2>1
  <2>3. HasIdle'
    BY <2>1, <2>2 DEF HasIdle, IndInv, TypeOK
  <2>4. \A j \in Slots : inUse'[j] /\ fn'[j] = "idle" => wakeTick'[j] = 0
    BY <2>1 DEF IndInv, TypeOK, IdleInv
  <2>5. inUse'[current'] => fn'[current'] = "worker"
    BY <1>0, <2>1 DEF IndInv, TypeOK, IdleInv
  <2> QED  BY <2>1, <2>3, <2>4, <2>5 DEF IdleInv
<1>3. ASSUME NEW id \in Slots \cup {NoTask}, SetIdle(id) PROVE IdleInv'
  BY <1>3 DEF SetIdle, table, IdleInv, HasIdle
<1>4. CASE Run
  <2> DEFINE ready == Ready(inUse, wakeTick, ticks)
             first == FindNext(NoTask, ready)
  <2>1. PICK e \in Slots : inUse[e] /\ fn[e] = "idle"
    BY <1>4 DEF Run, HasIdle
  <2>2. ready \in SUBSET Slots /\ e \in ready /\ \A i \in ready : inUse[i]
    BY <2>1 DEF Ready, Due, IdleInv
  <2>3. first \in ready /\ first # NoTask
    BY <2>2, FindNextSound
  <2>4. SwitchTo(first) /\ UNCHANGED <<fn, inUse, wakeTick>>
    BY <1>4, <2>3 DEF Run
  <2> HIDE DEF ready, first
  <2>5. current' = first /\ running' = fn[first] /\ inUse[first] /\ first \in Slots
    BY <2>2, <2>3, <2>4 DEF SwitchTo
  <2>6. running' \in {"worker", "idle"}
    BY <2>5 DEF IndInv, ControlInv
  <2> QED  BY <2>1, <2>4, <2>5, <2>6 DEF IdleInv, HasIdle
<1>5. CASE Yield
  <2>1. running \in {"worker", "idle"} /\ Reschedule(inUse, wakeTick, left, running)
    BY <1>5 DEF Yield
  <2> QED  BY <1>0, <2>1, RescheduleIdleInv DEF IndInv, TypeOK
<1>6. ASSUME NEW d \in Deltas, Sleep(d) PROVE IdleInv'
  <2> DEFINE delta == IF d = 0 THEN 1 ELSE d
             wake  == [wakeTick EXCEPT ![current] = (ticks + delta) % TickMod]
             slept == IF orphan THEN left ELSE [left EXCEPT ![current] = delta]
  <2>1. running = "worker" /\ Reschedule(inUse, wake, slept, running)
    BY <1>6 DEF Sleep
  <2>2. ticks + delta \in Int
    BY DeltasAssumption, HalfAssumption DEF IndInv, TypeOK, Ticks, TickMod
  <2>3. wake \in [Slots -> Ticks]
    BY <1>0, <2>1, <2>2, TickRange DEF IndInv, TypeOK
  <2>4. \A i \in Slots : inUse[i] /\ fn[i] = "idle" => wake[i] = 0
    BY <1>0, <2>1 DEF IdleInv, IndInv, TypeOK
  <2>5. PICK e \in Slots : inUse[e] /\ fn[e] = "idle"
    BY <1>0, <2>1
  <2>6. inUse \in [Slots -> BOOLEAN]
    BY DEF IndInv, TypeOK
  <2> HIDE DEF wake, slept
  <2> QED  BY <2>1, <2>3, <2>4, <2>5, <2>6, RescheduleIdleInv
<1>7. CASE TaskReturn
  <2> DEFINE use == [inUse EXCEPT ![current] = FALSE]
  <2>1. running = "worker" /\ Reschedule(use, wakeTick, left, "lost")
    BY <1>7 DEF TaskReturn
  <2>2. PICK e \in Slots : inUse[e] /\ fn[e] = "idle"
    BY <1>0, <2>1
  <2>3. use \in [Slots -> BOOLEAN] /\ \A i \in Slots : use[i] => inUse[i]
    BY <1>0, <2>1 DEF IndInv, TypeOK
  <2>4. use[e]
    BY <2>1, <2>2 DEF IdleInv, IndInv, TypeOK
  <2>5. \A i \in Slots : use[i] /\ fn[i] = "idle" => wakeTick[i] = 0
    BY <1>0, <2>1, <2>3
  <2>6. wakeTick \in [Slots -> Ticks]
    BY DEF IndInv, TypeOK
  <2> HIDE DEF use
  <2> QED  BY <2>1, <2>2, <2>3, <2>4, <2>5, <2>6, RescheduleIdleInv
<1>8. CASE UNCHANGED vars
  BY <1>8 DEF vars, IdleInv, HasIdle
<1> QED
  BY <1>1, <1>2, <1>3, <1>4, <1>5, <1>6, <1>7, <1>8 DEF Next

-----------------------------------------------------------------------------
(* Waking up in time *)

\* A tick l ticks before w, at most half the range away, is not due yet.
LEMMA NotDueBefore ==
    ASSUME NEW t \in Ticks, NEW l \in 1 .. Half
    PROVE  ~((t - ((t + l) % TickMod)) % TickMod < Half)
<1>0. /\ t \in Int /\ 0 <= t /\ t < TickMod /\ l \in Int /\ 1 <= l /\ l <= Half
      /\ TickMod = 2 * Half /\ Half \in Nat /\ 1 <= Half
  BY HalfAssumption DEF TickMod, Ticks
<1>1. CASE t + l < TickMod
  <2>1. (t + l) % TickMod = t + l
    BY <1>0, <1>1, ModSmall
  <2>2. t - (t + l) = -l
    BY <1>0
  <2>3. (-l) % TickMod = TickMod - l
    BY <1>0 DEF TickMod
  <2> QED  BY <1>0, <2>1, <2>2, <2>3
<1>2. CASE t + l >= TickMod
  <2>1. (t + l) % TickMod = (t + l) - TickMod
    BY <1>0, <1>2, ModWrap
  <2>2. t - ((t + l) - TickMod) = TickMod - l
    BY <1>0
  <2>3. (TickMod - l) % TickMod = TickMod - l
    BY <1>0, ModSmall
  <2> QED  BY <1>0, <2>1, <2>2, <2>3
<1> QED  BY <1>0, <1>1, <1>2

\* With an idle task in the table, a call that costs a tick ends in a task
\* that is due.
LEMMA TickSwitches ==
    ASSUME IndInv, IdleInv, KeepsIdle, Next, ticks' # ticks
    PROVE  current' \in Slots /\ inUse'[current'] /\ Due(ticks', wakeTick'[current'])
<1>0. ASSUME NEW use \in [Slots -> BOOLEAN], NEW wake \in [Slots -> Ticks],
             NEW slept, NEW stay, running \in {"worker", "idle"},
             NEW e \in Slots, use[e], wake[e] = 0,
             \A i \in Slots : use[i] => inUse[i],
             Reschedule(use, wake, slept, stay)
      PROVE  current' \in Slots /\ inUse'[current'] /\ Due(ticks', wakeTick'[current'])
  <2>1. current' \in Slots /\ use[current'] /\ current' \in Ready(use, wake, ticks')
    BY <1>0, RescheduleSwitches
  <2>2. inUse' = use /\ wakeTick' = wake
    BY <1>0 DEF Reschedule
  <2> QED  BY <2>1, <2>2 DEF Ready
<1>1. /\ inUse \in [Slots -> BOOLEAN] /\ wakeTick \in [Slots -> Ticks]
      /\ current \in Slots \cup {NoTask}
  BY DEF IndInv, TypeOK
<1>2. ASSUME running \in {"worker", "idle"}
      PROVE  /\ current \in Slots
             /\ \E e \in Slots : inUse[e] /\ fn[e] = "idle" /\ wakeTick[e] = 0
  BY <1>2 DEF IdleInv, HasIdle, IndInv, ControlInv
<1>3. CASE Yield
  BY <1>0, <1>1, <1>2, <1>3 DEF Yield
<1>4. ASSUME NEW d \in Deltas, Sleep(d)
      PROVE  current' \in Slots /\ inUse'[current'] /\ Due(ticks', wakeTick'[current'])
  <2> DEFINE delta == IF d = 0 THEN 1 ELSE d
             wake  == [wakeTick EXCEPT ![current] = (ticks + delta) % TickMod]
             slept == IF orphan THEN left ELSE [left EXCEPT ![current] = delta]
  <2>1. running = "worker" /\ Reschedule(inUse, wake, slept, running)
    BY <1>4 DEF Sleep
  <2>2. ticks + delta \in Int
    BY DeltasAssumption, HalfAssumption DEF IndInv, TypeOK, Ticks, TickMod
  <2>3. wake \in [Slots -> Ticks]
    BY <1>1, <2>2, TickRange
  <2>4. PICK e \in Slots : inUse[e] /\ fn[e] = "idle" /\ wakeTick[e] = 0
    BY <1>2, <2>1
  <2>5. wake[e] = 0
    BY <1>1, <1>2, <2>1, <2>4 DEF IdleInv
  <2> HIDE DEF wake, slept
  <2> QED  BY <1>0, <1>1, <2>1, <2>3, <2>4, <2>5
<1>5. CASE TaskReturn
  <2> DEFINE use == [inUse EXCEPT ![current] = FALSE]
  <2>1. running = "worker" /\ Reschedule(use, wakeTick, left, "lost")
    BY <1>5 DEF TaskReturn
  <2>2. PICK e \in Slots : inUse[e] /\ fn[e] = "idle" /\ wakeTick[e] = 0
    BY <1>2, <2>1
  <2>3. use \in [Slots -> BOOLEAN] /\ use[e] /\ \A i \in Slots : use[i] => inUse[i]
    BY <1>1, <1>2, <2>1, <2>2 DEF IdleInv
  <2> HIDE DEF use
  <2> QED  BY <1>0, <1>1, <2>1, <2>2, <2>3
<1>6. (\E f \in Fns : Add(f)) \/ (\E id \in Slots : Remove(id))
        \/ (\E id \in Slots \cup {NoTask} : SetIdle(id)) \/ Run => ticks' = ticks
  BY DEF Add, Remove, SetIdle, Run
<1> QED  BY <1>3, <1>4, <1>5, <1>6 DEF Next

LEMMA NextOnTime ==
    ASSUME IndInv, IdleInv, KeepsIdle, [Next]_vars
    PROVE  [ticks' # ticks /\ running' = "worker" /\ ~orphan'
              => left'[current'] = 0 \/ wakeTick'[current'] = 0]_vars
<1> SUFFICES ASSUME Next, ticks' # ticks, left'[current'] # 0, wakeTick'[current'] # 0
             PROVE  FALSE
  OBVIOUS
<1>1. current' \in Slots /\ inUse'[current'] /\ Due(ticks', wakeTick'[current'])
  BY TickSwitches
<1>2. TypeOK' /\ SleepMatches'
  BY NextIndInv DEF IndInv
<1>3. left'[current'] \in 1 .. Half /\ ticks' \in Ticks
  BY <1>1, <1>2, HalfAssumption DEF TypeOK, Ticks, TickMod
<1>4. wakeTick'[current'] = (ticks' + left'[current']) % TickMod
  BY <1>1, <1>2, <1>3 DEF SleepMatches, TickMod
<1> QED  BY <1>1, <1>3, <1>4, NotDueBefore DEF Due, TickMod

-----------------------------------------------------------------------------
(* Staying due *)

\* How many ticks ago the wake tick of slot i was.
Age(i) == (ticks - wakeTick[i]) % TickMod

\* Between two turns of a task, its slot has waited one switch for each tick
\* since its wake tick: so with at most half the range of slots no wake tick gets
\* old enough to be taken for a future one.  The task that runs next does not count:
\* it has left its wake tick behind, and sets it or clears it when it next waits.
OverdueInv ==
    /\ running = "idle" => inUse[current] /\ fn[current] = "idle"
    /\ idleTask # NoTask => inUse[idleTask] /\ fn[idleTask] = "idle"
    /\ running = "main" => \A i \in Slots : wakeTick[i] = 0
    /\ current \in Slots => waited[current] = 0
    /\ \A i \in Slots : inUse[i] /\ i # current /\ wakeTick[i] # 0 =>
          waited[i] = IF Age(i) < Half THEN Age(i) + 1 ELSE 0

\* An age grows by one a tick, until the counter is round.
LEMMA AgeStep ==
    ASSUME NEW t \in Ticks, NEW w \in Ticks
    PROVE  /\ (t - w) % TickMod \in Ticks
           /\ (((t + 1) % TickMod) - w) % TickMod =
                 IF ((t - w) % TickMod) + 1 = TickMod THEN 0 ELSE ((t - w) % TickMod) + 1
<1>0. TickMod \in Nat \ {0} /\ t \in 0 .. TickMod - 1 /\ w \in 0 .. TickMod - 1
  BY HalfAssumption DEF TickMod, Ticks
<1>1. PICK s \in 0 .. TickMod - 1 : s = (t + 1) % TickMod
  BY <1>0
<1>2. s = IF t + 1 = TickMod THEN 0 ELSE t + 1
  BY <1>0, <1>1, Circle
<1>3. (s - w) % TickMod = IF w <= s THEN s - w ELSE s - w + TickMod
  BY <1>0, Circle
<1>4. PICK a \in 0 .. TickMod - 1 : a = (t - w) % TickMod
  BY <1>0
<1>5. a = IF w <= t THEN t - w ELSE t - w + TickMod
  BY <1>0, <1>4, Circle
<1>6. (s - w) % TickMod = IF a + 1 = TickMod THEN 0 ELSE a + 1
  <2>1. TickMod \in Int /\ s \in Int /\ t \in Int /\ w \in Int /\ a \in Int
    BY <1>0
  <2> QED  BY <1>0, <1>2, <1>3, <1>5, <2>1
<1> QED  BY <1>1, <1>4, <1>6 DEF Ticks

\* A sleep of d ticks from t ends one tick later only when d is 1; else it is
\* not over at that tick.
LEMMA SleepAge ==
    ASSUME NEW t \in Ticks, NEW d \in 1 .. Half
    PROVE  LET age == (((t + 1) % TickMod) - ((t + d) % TickMod)) % TickMod
           IN  age = 0 \/ ~(age < Half)
<1> DEFINE s == (t + 1) % TickMod
<1>1. s \in Ticks /\ t \in Int /\ TickMod \in Nat \ {0}
  BY TickRange, HalfAssumption DEF Ticks, TickMod
<1>2. (s + (d - 1)) % TickMod = (t + d) % TickMod
  BY TickStep
<1>3. CASE d = 1
  <2>1. s - s = 0 /\ 0 % TickMod = 0
    BY <1>1, HalfAssumption, ModSmall DEF Ticks, TickMod
  <2> QED  BY <1>3, <2>1
<1>4. CASE d # 1
  <2>1. d - 1 \in 1 .. Half
    BY <1>4, HalfAssumption
  <2> HIDE DEF s
  <2>2. ~((s - ((s + (d - 1)) % TickMod)) % TickMod < Half)
    BY <1>1, <2>1, NotDueBefore
  <2> QED  BY <1>2, <2>2 DEF s
<1> QED  BY <1>3, <1>4

LEMMA InitOverdueInv == Init => OverdueInv
BY DEF Init, OverdueInv, NoTask, Slots

\* scheduler_yield keeps every due task due until it runs, from a table in which
\* the caller has no wake tick left, or one at most half the range ahead.
LEMMA RescheduleKeepsDue ==
    ASSUME IndInv, OverdueInv, N <= Half, running \in {"worker", "idle"},
           NEW use \in [Slots -> BOOLEAN], NEW wake \in [Slots -> Ticks],
           NEW slept, NEW stay,
           NEW e \in Slots, use[e], wake[e] = 0,
           \A i \in Slots : use[i] => inUse[i],
           idleTask # NoTask => use[idleTask] /\ wake[idleTask] = 0,
           \A i \in Slots : i # current => wake[i] = wakeTick[i],
           use[current] =>
              wake[current] = 0 \/ \E d \in 1 .. Half : wake[current] = (ticks + d) % TickMod,
           Reschedule(use, wake, slept, stay)
    PROVE  /\ \A i \in Slots : inUse'[i] /\ i # current' /\ wakeTick'[i] # 0 =>
                 waited'[i] = IF Age(i)' < Half THEN Age(i)' + 1 ELSE 0
           /\ waited'[current'] = 0
           /\ \A i \in Slots : /\ i # current /\ i # current' /\ use[i]
                               /\ Due(ticks, wakeTick[i])
                               => Due(ticks', wakeTick'[i])
<1> DEFINE t     == (ticks + 1) % TickMod
           ready == Ready(use, wake, t)
           next  == FindNext(current, ready)
<1>1. ready \in SUBSET Slots /\ e \in ready
  BY DEF Ready, Due
<1>2. current \in Slots /\ ticks \in Ticks /\ waited \in [Slots -> Nat]
  BY DEF IndInv, ControlInv, TypeOK
<1>3. next \in Slots /\ next # NoTask
  BY <1>1, <1>2, FindNextSound
<1>4. SwitchTo(next)
  BY <1>3 DEF Reschedule
<1>5. /\ ticks' = t /\ wakeTick' = wake /\ inUse' = use /\ current' = next
      /\ waited' = [i \in Slots |-> IF i \in ready \ {idleTask, next}
                                    THEN waited[i] + 1 ELSE 0]
  BY <1>4 DEF Reschedule, SwitchTo
<1>6. \A i \in Slots : i \in ready <=> use[i] /\ Due(t, wake[i])
  BY DEF Ready
<1>7. t \in Ticks
  BY <1>2, TickRange DEF Ticks
<1> HIDE DEF ready, next
<1>8. waited'[current'] = 0
  BY <1>3, <1>5
<1>9. ASSUME NEW i \in Slots, i # next, use[i]
      PROVE  /\ wake[i] # 0 =>
                  waited'[i] = IF (t - wake[i]) % TickMod < Half
                               THEN ((t - wake[i]) % TickMod) + 1 ELSE 0
             /\ i # current /\ Due(ticks, wakeTick[i]) => Due(t, wake[i])
  <2>0. CASE wake[i] = 0
    BY <2>0 DEF Due
  <2> SUFFICES ASSUME wake[i] # 0
               PROVE  /\ waited'[i] = IF (t - wake[i]) % TickMod < Half
                                      THEN ((t - wake[i]) % TickMod) + 1 ELSE 0
                      /\ i # current /\ Due(ticks, wakeTick[i]) => Due(t, wake[i])
    BY <2>0
  <2>1. i # idleTask
    BY <1>9 DEF NoTask, Slots
  <2>2. PICK now \in Ticks : now = (t - wake[i]) % TickMod
    BY <1>7, AgeStep
  <2>3. Due(t, wake[i]) <=> now < Half
    BY <2>2 DEF Due
  <2>4. waited'[i] = IF now < Half THEN waited[i] + 1 ELSE 0
    BY <1>5, <1>6, <1>9, <2>1, <2>3
  <2>5. CASE i = current
    <3>1. waited[i] = 0
      BY <1>2, <2>5 DEF OverdueInv
    <3>2. PICK d \in 1 .. Half : wake[current] = (ticks + d) % TickMod
      BY <1>9, <2>5
    <3>3. now = 0 \/ ~(now < Half)
      BY <1>2, <2>2, <2>5, <3>2, SleepAge
    <3> QED  BY <2>2, <2>4, <2>5, <3>1, <3>3
  <2>6. CASE i # current
    <3>1. wake[i] = wakeTick[i] /\ inUse[i] /\ wakeTick[i] \in Ticks
      BY <1>9, <2>6 DEF IndInv, TypeOK
    <3>2. PICK old \in Ticks : old = (ticks - wakeTick[i]) % TickMod
      BY <1>2, <3>1, AgeStep
    <3>3. now = IF old + 1 = TickMod THEN 0 ELSE old + 1
      BY <1>2, <2>2, <3>1, <3>2, AgeStep
    <3>4. waited[i] = IF old < Half THEN old + 1 ELSE 0
      BY <2>6, <3>1, <3>2 DEF OverdueInv, Age
    <3>5. Due(ticks, wakeTick[i]) <=> old < Half
      BY <3>1, <3>2 DEF Due
    <3>6. waited[i] + 1 <= N
      <4>1. Dist(current, i) \in 1 .. N /\ waited[i] \in Nat
        BY <1>2, DistBounds
      <4>2. waited[i] + Dist(current, i) <= N
        BY DEF IndInv, WaitInv
      <4> QED  BY <4>1, <4>2, NAssumption
    <3>7. now < Half => waited[i] + 1 = now + 1
      BY <3>2, <3>3, <3>4, HalfAssumption DEF Ticks, TickMod
    <3>8. old < Half => now < Half
      BY <3>2, <3>3, <3>4, <3>6, NAssumption, HalfAssumption DEF Ticks, TickMod
    <3> QED  BY <2>2, <2>3, <2>4, <3>5, <3>7, <3>8
  <2> QED  BY <2>5, <2>6
<1>10. \A i \in Slots : Age(i)' = (t - wake[i]) % TickMod
  BY <1>5 DEF Age, TickMod
<1> HIDE DEF t
<1>11. \A i \in Slots : inUse'[i] /\ i # current' /\ wakeTick'[i] # 0 =>
          waited'[i] = IF Age(i)' < Half THEN Age(i)' + 1 ELSE 0
  BY <1>5, <1>9, <1>10
<1>12. \A i \in Slots : /\ i # current /\ i # current' /\ use[i]
                        /\ Due(ticks, wakeTick[i])
                        => Due(ticks', wakeTick'[i])
  BY <1>5, <1>9
<1> QED  BY <1>8, <1>11, <1>12

\* The same from each call that costs a tick.
LEMMA TickKeepsDue ==
    ASSUME IndInv, IdleInv, OverdueInv, KeepsIdle, "yield" \notin Calls, N <= Half, GiveUp
    PROVE  /\ OverdueInv'
           /\ \A i \in Slots : /\ i # current /\ i # current'
                               /\ inUse[i] /\ inUse'[i] /\ Due(ticks, wakeTick[i])
                               => Due(ticks', wakeTick'[i])
<1>1. /\ running \in {"worker", "idle"} /\ current \in Slots
      /\ inUse \in [Slots -> BOOLEAN] /\ wakeTick \in [Slots -> Ticks] /\ ticks \in Ticks
  BY DEF GiveUp, Yield, Sleep, TaskReturn, IndInv, ControlInv, TypeOK
<1>2. PICK e \in Slots : inUse[e] /\ fn[e] = "idle" /\ wakeTick[e] = 0
  BY <1>1 DEF IdleInv, HasIdle
<1>3. idleTask # NoTask => /\ idleTask \in Slots
                           /\ inUse[idleTask] /\ fn[idleTask] = "idle" /\ wakeTick[idleTask] = 0
  BY DEF OverdueInv, IdleInv, IndInv, TypeOK
<1>4. running = "worker" /\ inUse[current] => fn[current] = "worker"
  BY DEF IdleInv
<1>5. ASSUME NEW use \in [Slots -> BOOLEAN], NEW wake \in [Slots -> Ticks],
             NEW slept, NEW stay,
             \A i \in Slots : use[i] => inUse[i],
             \A i \in Slots : i # current => use[i] = inUse[i] /\ wake[i] = wakeTick[i],
             inUse[current] /\ fn[current] = "idle" =>
               use[current] /\ wake[current] = wakeTick[current],
             use[current] =>
               wake[current] = 0 \/ \E d \in 1 .. Half : wake[current] = (ticks + d) % TickMod,
             Reschedule(use, wake, slept, stay)
      PROVE  /\ OverdueInv'
             /\ \A i \in Slots : /\ i # current /\ i # current'
                                 /\ inUse[i] /\ inUse'[i] /\ Due(ticks, wakeTick[i])
                                 => Due(ticks', wakeTick'[i])
  <2>1. use[e] /\ wake[e] = 0
    BY <1>2, <1>5
  <2>2. idleTask # NoTask => use[idleTask] /\ wake[idleTask] = 0
    BY <1>3, <1>5
  <2>3. \A i \in Slots : i # current => wake[i] = wakeTick[i]
    BY <1>5
  <2>4. /\ \A i \in Slots : inUse'[i] /\ i # current' /\ wakeTick'[i] # 0 =>
              waited'[i] = IF Age(i)' < Half THEN Age(i)' + 1 ELSE 0
        /\ waited'[current'] = 0
        /\ \A i \in Slots : /\ i # current /\ i # current' /\ use[i]
                            /\ Due(ticks, wakeTick[i])
                            => Due(ticks', wakeTick'[i])
    BY <1>1, <1>5, <2>1, <2>2, <2>3, RescheduleKeepsDue
  <2>5. /\ inUse' = use /\ fn' = fn /\ idleTask' = idleTask
    BY <1>5 DEF Reschedule
  <2>6. current' \in Slots /\ use[current'] /\ running' = fn[current']
    BY <1>1, <1>5, <2>1, RescheduleSwitches
  <2>7. running' = "idle" => inUse'[current'] /\ fn'[current'] = "idle"
    BY <2>5, <2>6
  <2>8. idleTask' # NoTask => inUse'[idleTask'] /\ fn'[idleTask'] = "idle"
    BY <1>3, <2>2, <2>5
  <2>9. running' # "main"
    BY <1>5, <2>6 DEF IndInv, ControlInv
  <2>10. \A i \in Slots : inUse'[i] => inUse[i]
    BY <1>5, <2>5
  <2> QED  BY <2>4, <2>5, <2>7, <2>8, <2>9, <2>10 DEF OverdueInv
<1>6. CASE Yield
  <2>1. running = "idle" /\ Reschedule(inUse, wakeTick, left, running)
    BY <1>6 DEF Yield
  <2>2. inUse[current] /\ fn[current] = "idle" /\ wakeTick[current] = 0
    BY <1>1, <2>1 DEF OverdueInv, IdleInv
  <2> QED  BY <1>1, <1>5, <2>1, <2>2
<1>7. ASSUME NEW d \in Deltas, Sleep(d)
      PROVE  /\ OverdueInv'
             /\ \A i \in Slots : /\ i # current /\ i # current'
                                 /\ inUse[i] /\ inUse'[i] /\ Due(ticks, wakeTick[i])
                                 => Due(ticks', wakeTick'[i])
  <2> DEFINE delta == IF d = 0 THEN 1 ELSE d
             wake  == [wakeTick EXCEPT ![current] = (ticks + delta) % TickMod]
             slept == IF orphan THEN left ELSE [left EXCEPT ![current] = delta]
  <2>1. running = "worker" /\ Reschedule(inUse, wake, slept, running)
    BY <1>7 DEF Sleep
  <2>2. delta \in 1 .. Half
    BY DeltasAssumption, HalfAssumption
  <2>3. wake \in [Slots -> Ticks]
    <3>1. ticks + delta \in Int
      BY <1>1, <2>2, HalfAssumption DEF Ticks, TickMod
    <3>2. (ticks + delta) % TickMod \in Ticks
      BY <3>1, TickRange
    <3> QED  BY <1>1, <3>2
  <2>4. /\ \A i \in Slots : i # current => wake[i] = wakeTick[i]
        /\ wake[current] = (ticks + delta) % TickMod
    BY <1>1
  <2> HIDE DEF wake, slept, delta
  <2>5. inUse[current] => fn[current] = "worker"
    BY <1>4, <2>1
  <2> QED  BY <1>1, <1>5, <2>1, <2>2, <2>3, <2>4, <2>5
<1>8. CASE TaskReturn
  <2> DEFINE use == [inUse EXCEPT ![current] = FALSE]
  <2>1. running = "worker" /\ Reschedule(use, wakeTick, left, "lost")
    BY <1>8 DEF TaskReturn
  <2>2. /\ use \in [Slots -> BOOLEAN] /\ ~use[current]
        /\ \A i \in Slots : i # current => use[i] = inUse[i]
        /\ \A i \in Slots : use[i] => inUse[i]
    BY <1>1
  <2> HIDE DEF use
  <2> QED  BY <1>1, <1>4, <1>5, <2>1, <2>2
<1> QED  BY <1>6, <1>7, <1>8 DEF GiveUp

\* The calls that cost no tick leave the ages alone.
LEMMA NextKeepsDue ==
    ASSUME IndInv, IdleInv, OverdueInv, KeepsIdle, "yield" \notin Calls, N <= Half, [Next]_vars
    PROVE  /\ OverdueInv'
           /\ [\A i \in Slots :
                  /\ ticks' # ticks /\ i # current /\ i # current'
                  /\ inUse[i] /\ inUse'[i] /\ Due(ticks, wakeTick[i])
                  => Due(ticks', wakeTick'[i])]_vars
<1>1. CASE GiveUp
  BY <1>1, TickKeepsDue
<1>2. ASSUME NEW f \in Fns, Add(f) PROVE OverdueInv' /\ ticks' = ticks
  <2>1. PICK i \in Slots :
          /\ ~inUse[i]
          /\ fn' = [fn EXCEPT ![i] = f]
          /\ inUse' = [inUse EXCEPT ![i] = TRUE]
          /\ wakeTick' = [wakeTick EXCEPT ![i] = 0]
          /\ waited' = [waited EXCEPT ![i] = 0]
          /\ UNCHANGED <<ticks, current, idleTask, running>>
    BY <1>2 DEF Add, FreeSlot
  <2>2. /\ fn' \in [Slots -> {"none", "worker", "idle", f}]
        /\ \A j \in Slots : j # i => /\ fn'[j] = fn[j] /\ inUse'[j] = inUse[j]
                                     /\ wakeTick'[j] = wakeTick[j] /\ waited'[j] = waited[j]
        /\ inUse'[i] /\ wakeTick'[i] = 0 /\ waited'[i] = 0
    BY <2>1 DEF IndInv, TypeOK
  <2>3. running' = "idle" => inUse'[current'] /\ fn'[current'] = "idle"
    BY <2>1, <2>2 DEF OverdueInv, IndInv, ControlInv
  <2>4. idleTask' # NoTask => inUse'[idleTask'] /\ fn'[idleTask'] = "idle"
    BY <2>1, <2>2 DEF OverdueInv, IndInv, TypeOK
  <2>5. /\ running' = "main" => \A j \in Slots : wakeTick'[j] = 0
        /\ current' \in Slots => waited'[current'] = 0
    BY <2>1, <2>2 DEF OverdueInv
  <2>6. \A j \in Slots : Age(j)' = (ticks - wakeTick'[j]) % TickMod
    BY <2>1 DEF Age, TickMod
  <2>7. ASSUME NEW j \in Slots, inUse'[j], j # current', wakeTick'[j] # 0
        PROVE  waited'[j] = IF Age(j)' < Half THEN Age(j)' + 1 ELSE 0
    <3>1. j # i /\ inUse[j] /\ wakeTick'[j] = wakeTick[j] /\ waited'[j] = waited[j]
      BY <2>2, <2>7
    <3>2. Age(j)' = Age(j)
      BY <2>6, <3>1 DEF Age
    <3> QED  BY <2>1, <2>7, <3>1, <3>2 DEF OverdueInv
  <2> QED  BY <2>1, <2>3, <2>4, <2>5, <2>7 DEF OverdueInv
<1>3. ASSUME NEW id \in Slots, Remove(id) PROVE OverdueInv' /\ ticks' = ticks
  <2>1. /\ running = "worker" /\ current \in Slots /\ inUse[id]
        /\ IF id = current THEN TRUE
           ELSE (IF fn[id] = "idle" THEN "removeIdle" ELSE "remove") \in Calls
        /\ inUse' = [inUse EXCEPT ![id] = FALSE]
        /\ fn' = [fn EXCEPT ![id] = "none"]
        /\ waited' = [waited EXCEPT ![id] = 0]
        /\ UNCHANGED <<wakeTick, ticks, current, idleTask, running>>
    BY <1>3 DEF Remove, MayRemove, IndInv, ControlInv
  <2>2. fn[id] = "worker"
    BY <2>1, KeepsIdleAssumption DEF IdleInv, IndInv, ControlInv
  <2>3. /\ \A j \in Slots : j # id => /\ fn'[j] = fn[j] /\ inUse'[j] = inUse[j]
                                      /\ waited'[j] = waited[j]
        /\ ~inUse'[id] /\ waited'[id] = 0
    BY <2>1 DEF IndInv, TypeOK
  <2>4. idleTask' # NoTask => inUse'[idleTask'] /\ fn'[idleTask'] = "idle"
    BY <2>1, <2>2, <2>3 DEF OverdueInv, IndInv, TypeOK
  <2>5. current' \in Slots => waited'[current'] = 0
    BY <2>1, <2>3 DEF OverdueInv
  <2>6. \A j \in Slots : Age(j)' = Age(j)
    BY <2>1 DEF Age, TickMod
  <2>7. ASSUME NEW j \in Slots, inUse'[j], j # current', wakeTick'[j] # 0
        PROVE  waited'[j] = IF Age(j)' < Half THEN Age(j)' + 1 ELSE 0
    BY <2>1, <2>3, <2>6, <2>7 DEF OverdueInv
  <2> QED  BY <2>1, <2>4, <2>5, <2>7 DEF OverdueInv
<1>4. ASSUME NEW id \in Slots \cup {NoTask}, SetIdle(id) PROVE OverdueInv' /\ ticks' = ticks
  <2>1. /\ running = "main" /\ inUse[id] /\ fn[id] = "idle" /\ idleTask' = id
        /\ UNCHANGED <<table, ticks, current, running, history>>
    BY <1>4, KeepsIdleAssumption DEF SetIdle, MaySetIdle
  <2>2. \A j \in Slots : Age(j)' = Age(j)
    BY <2>1 DEF table, Age, TickMod
  <2> QED  BY <2>1, <2>2 DEF table, history, OverdueInv
<1>5. ASSUME Run PROVE OverdueInv' /\ ticks' = ticks
  <2>1. /\ running = "main" /\ UNCHANGED <<fn, inUse, wakeTick, ticks, idleTask, left, waited>>
        /\ \A j \in Slots : wakeTick[j] = 0 /\ waited[j] = 0
    BY <1>5 DEF Run, OverdueInv, IndInv, ControlInv
  <2> DEFINE ready == Ready(inUse, wakeTick, ticks)
             first == FindNext(NoTask, ready)
  <2>2. PICK e \in Slots : inUse[e] /\ fn[e] = "idle"
    BY <1>5 DEF Run, HasIdle
  <2>3. ready \in SUBSET Slots /\ e \in ready /\ \A i \in ready : inUse[i]
    BY <2>1, <2>2 DEF Ready, Due
  <2>4. first \in ready /\ first # NoTask
    BY <2>3, FindNextSound
  <2>5. SwitchTo(first)
    BY <1>5, <2>4 DEF Run
  <2> HIDE DEF ready, first
  <2>6. current' = first /\ running' = fn[first] /\ first \in Slots /\ inUse[first]
    BY <2>3, <2>4, <2>5 DEF SwitchTo
  <2>7. running' # "main"
    BY <2>6 DEF IndInv, ControlInv
  <2> QED  BY <2>1, <2>6, <2>7 DEF OverdueInv
<1>6. ASSUME UNCHANGED vars PROVE OverdueInv' /\ ticks' = ticks
  <2>1. \A j \in Slots : Age(j)' = Age(j)
    BY <1>6 DEF vars, Age, TickMod
  <2> QED  BY <1>6, <2>1 DEF vars, OverdueInv
<1> QED  BY <1>1, <1>2, <1>3, <1>4, <1>5, <1>6 DEF Next, GiveUp

-----------------------------------------------------------------------------
(* Theorems *)

\* Everything find_next_task's fairness rests on holds in every reachable
\* state of the scheduler.
THEOREM InductiveInvariant == Spec => []IndInv
<1> QED  BY InitIndInv, NextIndInv, PTL DEF Spec

\* Type correctness: in particular the tick arithmetic stays in the counter.
THEOREM TypeCorrect == Spec => []TypeOK
<1>1. IndInv => TypeOK
  BY DEF IndInv
<1> QED  BY <1>1, InductiveInvariant, PTL

\* Round robin: a runnable non-idle task is passed over by fewer than N
\* switches in a row, however tasks are added, removed and put to sleep.
THEOREM WaitIsBounded == Spec => []BoundedWait
<1> QED  BY BoundedWaitFollows, InductiveInvariant, PTL

\* A registered function is entered exactly once, in whatever slot it lands.
THEOREM EnteredExactlyOnce == Spec => []EnteredOnce
<1>1. IndInv => EnteredOnce
  BY DEF IndInv
<1> QED  BY <1>1, InductiveInvariant, PTL

\* The wake tick of a sleeping task is where its sleep ends, across the wrap.
THEOREM SleepIsExact == Spec => []SleepMatches
<1>1. IndInv => SleepMatches
  BY DEF IndInv
<1> QED  BY <1>1, InductiveInvariant, PTL

\* The idle task that main() registers stays in the table and is never asleep,
\* whatever the workers add, remove and return from.
THEOREM IdleTaskStays == Spec => []IdleInv
<1> QED  BY InitIndInv, InitIdleInv, NextIndInv, NextIdleInv, PTL DEF Spec

\* With an idle task registered by main(), the scheduler always finds a task
\* to run: no function that ends falls back into the trampoline.
THEOREM IdleTaskSuffices == ASSUME KeepsIdle PROVE Spec => []NeverLost
<1>1. IdleInv => NeverLost
  BY DEF IdleInv, NeverLost
<1> QED  BY <1>1, IdleTaskStays, PTL

\* With an idle task registered by main(), a worker gets out of
\* scheduler_sleep before its time only when its wake tick fell on 0.
THEOREM SleepersWakeOnTime == ASSUME KeepsIdle PROVE Spec => EarlyOnlyAtTickZero
<1>1. IndInv /\ IdleInv /\ [Next]_vars =>
        [ticks' # ticks /\ running' = "worker" /\ ~orphan'
           => left'[current'] = 0 \/ wakeTick'[current'] = 0]_vars
  BY NextOnTime
<1> QED
  BY <1>1, InitIndInv, InitIdleInv, NextIndInv, NextIdleInv, PTL DEF Spec, EarlyOnlyAtTickZero

\* With at most as many slots as half the counter's range, an idle task
\* registered by main(), and workers that wait in scheduler_sleep only, as
\* main.c's do: a task that is due is not taken for a sleeping one before it runs.
THEOREM DueTasksStayDue ==
    ASSUME KeepsIdle, "yield" \notin Calls, N <= Half
    PROVE  Spec => DueStaysDue
<1>1. IndInv /\ IdleInv /\ OverdueInv /\ [Next]_vars =>
        /\ OverdueInv'
        /\ [\A i \in Slots :
               /\ ticks' # ticks /\ i # current /\ i # current'
               /\ inUse[i] /\ inUse'[i] /\ Due(ticks, wakeTick[i])
               => Due(ticks', wakeTick'[i])]_vars
  BY NextKeepsDue
<1> QED
  BY <1>1, InitIndInv, InitIdleInv, InitOverdueInv, NextIndInv, NextIdleInv, PTL
     DEF Spec, DueStaysDue

-----------------------------------------------------------------------------
(* CPU accounting                                                            *)
(*                                                                           *)
(* What is known of the idle task, whether it is kept or not: it is one at   *)
(* most, is never asleep, and a worker does not run in its slot.             *)

AtMostOneIdle ==
    \A i, j \in Slots :
        inUse[i] /\ inUse[j] /\ fn[i] = "idle" /\ fn[j] = "idle" => i = j
IdleAwake     == \A i \in Slots : inUse[i] /\ fn[i] = "idle" => wakeTick[i] = 0
WorkerInSlot  == running = "worker" /\ inUse[current] => fn[current] = "worker"
IdleFacts     == AtMostOneIdle /\ IdleAwake /\ WorkerInSlot

\* The counters are what the history says, as long as they have not wrapped.
Counted ==
    /\ cpuTotal \in Nat /\ cpuActive \in Nat /\ elapsed \in Nat /\ busy \in Nat
    /\ busy <= elapsed
    /\ steady \in BOOLEAN /\ (running = "main" => elapsed = 0)
    /\ elapsed = 0 => busy = 0 /\ cpuActive = 0
    /\ elapsed < CounterMod => cpuTotal = elapsed
    /\ elapsed < CounterMod /\ steady /\ Marked => cpuActive = busy
    /\ elapsed < CounterMod /\ steady /\ Unmarked => cpuActive = elapsed

UsageInv == IndInv /\ IdleFacts /\ Counted

-----------------------------------------------------------------------------
(* Steps that cost a tick, and steps that do not *)

Found == FindNext(current, Ready(inUse', wakeTick', ticks'))

LEMMA TickMoves == ASSUME NEW t \in Ticks PROVE (t + 1) % TickMod # t
<1>0. t \in Int /\ 0 <= t /\ t < TickMod /\ TickMod \in Nat /\ 2 <= TickMod
  BY HalfAssumption DEF TickMod, Ticks
<1>1. CASE t + 1 < TickMod
  BY <1>0, <1>1, ModSmall
<1>2. CASE t + 1 >= TickMod
  <2>1. (t + 1) % TickMod = (t + 1) - TickMod
    BY <1>0, <1>2, ModWrap
  <2> QED  BY <1>0, <2>1
<1> QED  BY <1>0, <1>1, <1>2

\* Every call of scheduler_yield costs a tick, and hands the processor to the
\* task that find_next_task finds; only the caller's own entry has changed.
LEMMA RescheduleFacts ==
    ASSUME IndInv, running \in {"worker", "idle"},
           NEW use \in [Slots -> BOOLEAN], NEW wake \in [Slots -> Ticks],
           NEW slept, NEW stay,
           Reschedule(use, wake, slept, stay)
    PROVE  /\ ticks' # ticks /\ inUse' = use /\ wakeTick' = wake
           /\ UNCHANGED <<fn, idleTask>>
           /\ Found = NoTask => current' = current /\ running' = stay
           /\ Found # NoTask =>
                 /\ Found \in Slots /\ use[Found]
                 /\ current' = Found /\ running' = fn[Found]
           /\ \A i \in Slots : use[i] /\ wake[i] = 0 => Found # NoTask
<1> DEFINE t     == (ticks + 1) % TickMod
           ready == Ready(use, wake, t)
<1>1. /\ ticks' = t /\ inUse' = use /\ wakeTick' = wake /\ UNCHANGED <<fn, idleTask>>
      /\ IF FindNext(current, ready) = NoTask
           THEN running' = stay /\ UNCHANGED <<current, started, orphan, entered>>
           ELSE SwitchTo(FindNext(current, ready))
  BY DEF Reschedule
<1>2. t # ticks
  BY TickMoves DEF IndInv, TypeOK
<1>3. current \in Slots /\ ready \in SUBSET Slots /\ \A i \in ready : use[i]
  BY DEF IndInv, ControlInv, Ready
<1>4. \A i \in Slots : use[i] /\ wake[i] = 0 => i \in ready
  BY DEF Ready, Due
<1>5. Found = FindNext(current, ready)
  BY <1>1 DEF Found
<1>6. /\ Found \in ready \cup {NoTask}
      /\ Found = NoTask <=> ready = {}
  BY <1>3, <1>5, FindNextSound
<1> HIDE DEF t, ready
<1> QED  BY <1>1, <1>2, <1>3, <1>4, <1>5, <1>6 DEF SwitchTo

\* The same of the steps of Next.
LEMMA TickFacts ==
    ASSUME IndInv, IdleFacts, Next, Yield \/ (\E d \in Deltas : Sleep(d)) \/ TaskReturn
    PROVE  /\ ticks' # ticks /\ running \in {"worker", "idle"}
           /\ UNCHANGED <<fn, idleTask>>
           /\ \A i \in Slots : inUse'[i] => inUse[i]
           /\ \A i \in Slots : inUse[i] /\ fn[i] = "idle" =>
                 inUse'[i] /\ wakeTick'[i] = 0 /\ Found # NoTask
           /\ Found = NoTask => current' = current /\ running' \in {running, "lost"}
           /\ Found # NoTask =>
                 /\ Found \in Slots /\ inUse'[Found]
                 /\ current' = Found /\ running' = fn[Found]
<1>1. /\ inUse \in [Slots -> BOOLEAN] /\ wakeTick \in [Slots -> Ticks]
  BY DEF IndInv, TypeOK
<1>2. CASE Yield
  <2>1. running \in {"worker", "idle"} /\ Reschedule(inUse, wakeTick, left, running)
    BY <1>2 DEF Yield
  <2> QED  BY <1>1, <2>1, RescheduleFacts DEF IdleFacts, IdleAwake
<1>3. CASE \E d \in Deltas : Sleep(d)
  <2>1. PICK d \in Deltas : Sleep(d)
    BY <1>3
  <2> DEFINE delta == IF d = 0 THEN 1 ELSE d
             wake  == [wakeTick EXCEPT ![current] = (ticks + delta) % TickMod]
             slept == IF orphan THEN left ELSE [left EXCEPT ![current] = delta]
  <2>2. running = "worker" /\ current \in Slots /\ Reschedule(inUse, wake, slept, running)
    BY <2>1 DEF Sleep, IndInv, ControlInv
  <2>3. ticks + delta \in Int
    BY DeltasAssumption, HalfAssumption DEF IndInv, TypeOK, Ticks, TickMod
  <2>4. wake \in [Slots -> Ticks]
    BY <1>1, <2>3, TickRange
  <2>5. \A i \in Slots : inUse[i] /\ fn[i] = "idle" => wake[i] = 0
    BY <1>1, <2>2 DEF IdleFacts, IdleAwake, WorkerInSlot
  <2> HIDE DEF wake, slept
  <2> QED  BY <1>1, <2>2, <2>4, <2>5, RescheduleFacts
<1>4. CASE TaskReturn
  <2> DEFINE use == [inUse EXCEPT ![current] = FALSE]
  <2>1. running = "worker" /\ current \in Slots /\ Reschedule(use, wakeTick, left, "lost")
    BY <1>4 DEF TaskReturn, IndInv, ControlInv
  <2>2. /\ use \in [Slots -> BOOLEAN]
        /\ \A i \in Slots : use[i] => inUse[i]
        /\ \A i \in Slots : inUse[i] /\ fn[i] = "idle" => use[i]
    BY <1>1, <2>1 DEF IdleFacts, WorkerInSlot
  <2> HIDE DEF use
  <2> QED  BY <1>1, <2>1, <2>2, RescheduleFacts DEF IdleFacts, IdleAwake
<1> QED  BY <1>2, <1>3, <1>4

-----------------------------------------------------------------------------
(* The invariant *)

LEMMA InitUsageInv == UsageInit => UsageInv
<1> SUFFICES ASSUME UsageInit PROVE UsageInv
  OBVIOUS
<1>1. IndInv
  BY InitIndInv DEF UsageInit
<1>2. IdleFacts /\ ~HasIdle
  BY DEF UsageInit, Init, IdleFacts, AtMostOneIdle, IdleAwake, WorkerInSlot, HasIdle
<1>3. Counted
  BY <1>2, CounterAssumption DEF UsageInit, Counted, Marked, Unmarked, HasIdle
<1> QED  BY <1>1, <1>2, <1>3 DEF UsageInv

\* A call that costs a tick leaves the idle task where it is.
LEMMA TickIdleFacts ==
    ASSUME IndInv, IdleFacts, Next, Yield \/ (\E d \in Deltas : Sleep(d)) \/ TaskReturn
    PROVE  IdleFacts'
<1>1. AtMostOneIdle' /\ IdleAwake'
  BY TickFacts DEF IdleFacts, AtMostOneIdle, IdleAwake
<1>2. WorkerInSlot'
  <2>1. CASE Found = NoTask
    <3>1. current' = current /\ running' \in {running, "lost"} /\ fn' = fn
      BY <2>1, TickFacts
    <3>2. current \in Slots
      BY TickFacts DEF IndInv, ControlInv
    <3>3. running' = "worker" /\ inUse'[current] => running = "worker" /\ inUse[current]
      BY <3>1, <3>2, TickFacts
    <3> QED  BY <3>1, <3>3 DEF IdleFacts, WorkerInSlot
  <2>2. CASE Found # NoTask
    BY <2>2, TickFacts DEF WorkerInSlot
  <2> QED  BY <2>1, <2>2
<1> QED  BY <1>1, <1>2 DEF IdleFacts

\* A tick counts for the idle task, or for the worker that gets it.
LEMMA TickCounted ==
    ASSUME UsageInv, Next, Account, Yield \/ (\E d \in Deltas : Sleep(d)) \/ TaskReturn
    PROVE  Counted'
<1>0. IndInv /\ IdleFacts /\ Counted
  BY DEF UsageInv
<1>1. /\ cpuTotal' = (cpuTotal + 1) % CounterMod
      /\ cpuActive' = IF CountsActive(Found) THEN (cpuActive + 1) % CounterMod
                                             ELSE cpuActive
      /\ elapsed' = elapsed + 1
      /\ busy' = IF running' = "worker" THEN busy + 1 ELSE busy
  BY <1>0, TickFacts DEF Account, Found
<1>10. steady' \in BOOLEAN /\ (steady' => steady)
  BY <1>0, Zenon DEF Account, Counted
<1>2. /\ cpuTotal \in Nat /\ cpuActive \in Nat /\ elapsed \in Nat /\ busy \in Nat
      /\ busy <= elapsed /\ CounterMod \in Nat /\ CounterMod > 100
  BY <1>0, CounterAssumption DEF Counted
<1>3. \A n \in Nat : /\ (n + 1) % CounterMod \in Nat
                     /\ n + 1 < CounterMod => (n + 1) % CounterMod = n + 1
  BY <1>2
<1>4. running \in {"worker", "idle"} /\ UNCHANGED <<fn, idleTask>>
  BY <1>0, TickFacts
<1>5. running' # "main"
  <2>1. CASE Found = NoTask
    BY <1>0, <1>4, <2>1, TickFacts
  <2>2. CASE Found # NoTask
    <3>1. Found \in Slots /\ inUse[Found] /\ running' = fn[Found]
      BY <1>0, <2>2, TickFacts
    <3> QED  BY <1>0, <3>1 DEF IndInv, ControlInv
  <2> QED  BY <2>1, <2>2
<1>6. elapsed' < CounterMod => elapsed < CounterMod /\ cpuTotal' = elapsed'
  BY <1>0, <1>1, <1>2, <1>3 DEF Counted
<1>7. elapsed' < CounterMod /\ steady' /\ Marked' => cpuActive' = busy'
  <2> SUFFICES ASSUME elapsed' < CounterMod, steady', Marked' PROVE cpuActive' = busy'
    OBVIOUS
  <2>1. PICK e \in Slots : inUse'[e] /\ fn'[e] = "idle" /\ idleTask' = e
    BY DEF Marked
  <2>2. inUse[e] /\ fn[e] = "idle" /\ idleTask = e /\ Marked
    BY <1>0, <1>4, <2>1, TickFacts DEF Marked
  <2>8. steady
    BY <1>10
  <2>3. cpuActive = busy /\ busy + 1 < CounterMod
    BY <1>0, <1>1, <1>2, <1>6, <2>2, <2>8 DEF Counted
  <2>4. /\ Found # NoTask /\ Found \in Slots /\ inUse[Found] /\ running' = fn[Found]
    BY <1>0, <2>2, TickFacts
  <2>5. Found = e <=> running' # "worker"
    BY <1>0, <2>2, <2>4 DEF IdleFacts, AtMostOneIdle, IndInv, ControlInv
  <2>6. CountsActive(Found) <=> running' = "worker"
    BY <2>2, <2>4, <2>5 DEF CountsActive
  <2>7. (busy + 1) % CounterMod = busy + 1
    BY <1>2, <1>3, <2>3
  <2> QED  BY <1>1, <2>3, <2>6, <2>7
<1>8. elapsed' < CounterMod /\ steady' /\ Unmarked' => cpuActive' = elapsed'
  <2> SUFFICES ASSUME elapsed' < CounterMod, steady', Unmarked' PROVE cpuActive' = elapsed'
    OBVIOUS
  <2>1. PICK e \in Slots : inUse'[e] /\ fn'[e] = "idle"
    BY DEF Unmarked, HasIdle
  <2>2. inUse[e] /\ fn[e] = "idle" /\ idleTask = NoTask /\ Unmarked
    BY <1>0, <1>4, <2>1, TickFacts DEF Unmarked, HasIdle
  <2>5. steady
    BY <1>10
  <2>3. cpuActive = elapsed
    BY <1>0, <1>6, <2>2, <2>5 DEF Counted
  <2>4. CountsActive(Found)
    BY <1>0, <2>2, TickFacts DEF CountsActive
  <2> QED  BY <1>1, <1>2, <1>3, <2>3, <2>4
<1>9. /\ cpuTotal' \in Nat /\ cpuActive' \in Nat /\ elapsed' \in Nat /\ busy' \in Nat
      /\ busy' <= elapsed' /\ elapsed' # 0
  BY <1>1, <1>2, <1>3
<1> QED  BY <1>5, <1>6, <1>7, <1>8, <1>9, <1>10 DEF Counted

\* The other calls cost none.  The idle task can only come into the table before
\* the first of them.
LEMMA QuietFacts ==
    ASSUME IndInv, IdleFacts,
           \/ \E f \in Fns : Add(f)
           \/ (\E id \in Slots : Remove(id)) \/ (\E id \in Slots \cup {NoTask} : SetIdle(id))
           \/ Run
    PROVE  /\ ticks' = ticks /\ IdleFacts'
           /\ running' = "main" => running = "main"
           /\ running # "main" /\ idleTask' = idleTask /\ Marked' => Marked
           /\ running # "main" /\ idleTask' = idleTask /\ Unmarked' => Unmarked
<1>0. /\ fn \in [Slots -> {"none", "worker", "idle"}] /\ inUse \in [Slots -> BOOLEAN]
      /\ wakeTick \in [Slots -> Ticks]
      /\ running = "worker" => current \in Slots
      /\ \A i \in Slots : inUse[i] => fn[i] \in {"worker", "idle"}
  BY DEF IndInv, TypeOK, ControlInv
<1>1. ASSUME NEW f \in Fns, Add(f)
      PROVE  /\ ticks' = ticks /\ IdleFacts'
             /\ running' = "main" => running = "main"
             /\ running # "main" /\ idleTask' = idleTask /\ Marked' => Marked
             /\ running # "main" /\ idleTask' = idleTask /\ Unmarked' => Unmarked
  <2>1. PICK i \in Slots :
          /\ ~inUse[i]
          /\ fn' = [fn EXCEPT ![i] = f]
          /\ inUse' = [inUse EXCEPT ![i] = TRUE]
          /\ wakeTick' = [wakeTick EXCEPT ![i] = 0]
    BY <1>1 DEF Add, FreeSlot
  <2>2. UNCHANGED <<ticks, current, idleTask, running>>
    BY <1>1 DEF Add
  <2>3. /\ f = "idle" => running = "main" /\ ~HasIdle
        /\ running # "main" => running = "worker" /\ f = "worker"
        /\ f \in {"worker", "idle"}
    BY <1>1, FnsAssumption DEF Add, MayAdd
  <2>4. AtMostOneIdle'
    BY <1>0, <2>1, <2>3 DEF IdleFacts, AtMostOneIdle, HasIdle
  <2>5. IdleAwake'
    BY <1>0, <2>1 DEF IdleFacts, IdleAwake
  <2>6. WorkerInSlot'
    BY <1>0, <2>1, <2>2, <2>3 DEF IdleFacts, WorkerInSlot
  <2>7. running # "main" /\ idleTask' = idleTask /\ Marked' => Marked
    BY <1>0, <2>1, <2>2, <2>3 DEF Marked
  <2>8. running # "main" /\ idleTask' = idleTask /\ Unmarked' => Unmarked
    BY <1>0, <2>1, <2>2, <2>3 DEF Unmarked, HasIdle
  <2> QED  BY <2>2, <2>4, <2>5, <2>6, <2>7, <2>8 DEF IdleFacts
<1>2. ASSUME NEW id \in Slots, Remove(id)
      PROVE  /\ ticks' = ticks /\ IdleFacts'
             /\ running' = "main" => running = "main"
             /\ running # "main" /\ idleTask' = idleTask /\ Marked' => Marked
             /\ running # "main" /\ idleTask' = idleTask /\ Unmarked' => Unmarked
  <2>1. /\ inUse' = [inUse EXCEPT ![id] = FALSE]
        /\ fn' = [fn EXCEPT ![id] = "none"]
        /\ running = "worker"
        /\ UNCHANGED <<wakeTick, ticks, current, idleTask, running>>
    BY <1>2 DEF Remove, MayRemove
  <2>2. \A i \in Slots : inUse'[i] => i # id /\ inUse[i] /\ fn'[i] = fn[i]
    BY <1>0, <2>1
  <2>3. AtMostOneIdle' /\ IdleAwake' /\ WorkerInSlot'
    BY <1>0, <2>1, <2>2 DEF IdleFacts, AtMostOneIdle, IdleAwake, WorkerInSlot
  <2>4. (Marked' => Marked) /\ (Unmarked' => Unmarked)
    BY <2>1, <2>2 DEF Marked, Unmarked, HasIdle
  <2> QED  BY <2>1, <2>3, <2>4 DEF IdleFacts
<1>3. ASSUME NEW id \in Slots \cup {NoTask}, SetIdle(id)
      PROVE  /\ ticks' = ticks /\ IdleFacts'
             /\ running' = "main" => running = "main"
             /\ running # "main" /\ idleTask' = idleTask /\ Marked' => Marked
             /\ running # "main" /\ idleTask' = idleTask /\ Unmarked' => Unmarked
  BY <1>3 DEF SetIdle, table, history, IdleFacts, AtMostOneIdle, IdleAwake, WorkerInSlot
<1>4. CASE Run
  <2> DEFINE ready == Ready(inUse, wakeTick, ticks)
             first == FindNext(NoTask, ready)
  <2>1. /\ running = "main" /\ UNCHANGED <<fn, inUse, wakeTick, ticks, idleTask>>
        /\ IF first = NoTask THEN running' = "exited" ELSE SwitchTo(first)
    BY <1>4 DEF Run
  <2>2. ready \in SUBSET Slots /\ \A i \in ready : inUse[i]
    BY DEF Ready
  <2>3. first # NoTask => first \in Slots /\ inUse[first]
    BY <2>2, FindNextSound
  <2> HIDE DEF ready, first
  <2>4. AtMostOneIdle' /\ IdleAwake'
    BY <2>1 DEF IdleFacts, AtMostOneIdle, IdleAwake
  <2>5. WorkerInSlot'
    BY <2>1, <2>3 DEF SwitchTo, WorkerInSlot
  <2> QED  BY <2>1, <2>4, <2>5 DEF IdleFacts
<1> QED  BY <1>1, <1>2, <1>3, <1>4

LEMMA NextUsageInv == UsageInv /\ [UsageNext]_usageVars => UsageInv'
<1> SUFFICES ASSUME UsageInv, [UsageNext]_usageVars PROVE UsageInv'
  OBVIOUS
<1>0. IndInv /\ IdleFacts /\ Counted
  BY DEF UsageInv
<1>1. CASE Next /\ Account
  <2>1. IndInv'
    BY <1>0, <1>1, NextIndInv
  <2>2. CASE Yield \/ (\E d \in Deltas : Sleep(d)) \/ TaskReturn
    BY <1>0, <1>1, <2>1, <2>2, TickIdleFacts, TickCounted DEF UsageInv
  <2>3. CASE \/ \E f \in Fns : Add(f)
             \/ (\E id \in Slots : Remove(id)) \/ (\E id \in Slots \cup {NoTask} : SetIdle(id))
             \/ Run
    <3>1. ticks' = ticks /\ IdleFacts' /\ UNCHANGED usage
      BY <1>0, <1>1, <2>3, QuietFacts DEF Account
    <3>2. /\ steady' = (steady /\ (idleTask' = idleTask \/ elapsed = 0))
          /\ UNCHANGED <<cpuTotal, cpuActive, elapsed, busy>>
      BY <1>1, <3>1 DEF Account, usage
    <3>3. steady' \in BOOLEAN /\ (elapsed # 0 /\ steady' => steady /\ idleTask' = idleTask)
      BY <1>0, <3>2 DEF Counted
    <3>4. /\ running' = "main" => running = "main"
          /\ running # "main" /\ idleTask' = idleTask /\ Marked' => Marked
          /\ running # "main" /\ idleTask' = idleTask /\ Unmarked' => Unmarked
      BY <1>0, <2>3, QuietFacts
    <3>5. elapsed < CounterMod /\ steady' /\ Marked' => cpuActive = busy
      BY <1>0, <3>3, <3>4 DEF Counted
    <3>6. elapsed < CounterMod /\ steady' /\ Unmarked' => cpuActive = elapsed
      BY <1>0, <3>3, <3>4 DEF Counted
    <3>7. Counted'
      BY <1>0, <3>2, <3>3, <3>4, <3>5, <3>6 DEF Counted
    <3> QED  BY <2>1, <3>1, <3>7 DEF UsageInv
  <2> QED  BY <1>1, <2>2, <2>3 DEF Next
<1>2. CASE UNCHANGED usageVars
  <2>1. UNCHANGED vars /\ UNCHANGED usage /\ UNCHANGED steady
    BY <1>2 DEF usageVars
  <2>2. IndInv'
    BY <1>0, <2>1, NextIndInv
  <2>3. IdleFacts'
    BY <1>0, <2>1 DEF vars, IdleFacts, AtMostOneIdle, IdleAwake, WorkerInSlot
  <2>4. Counted'
    BY <1>0, <2>1 DEF vars, usage, Counted, Marked, Unmarked, HasIdle
  <2> QED  BY <2>2, <2>3, <2>4 DEF UsageInv
<1> QED  BY <1>1, <1>2 DEF UsageNext, Stopped

LEMMA RightFollows == UsageInv => PercentIsRight
<1> SUFFICES ASSUME UsageInv, 0 < elapsed, elapsed * 100 < CounterMod, steady
             PROVE  /\ Marked   => Percent = (busy * 100) \div elapsed
                    /\ Unmarked => Percent = 100
  BY DEF PercentIsRight
<1>1. /\ elapsed \in Nat /\ busy \in Nat /\ busy <= elapsed /\ CounterMod \in Nat
      /\ elapsed < CounterMod /\ cpuTotal = elapsed /\ cpuTotal # 0
  BY CounterAssumption DEF UsageInv, Counted
<1>2. ASSUME NEW n \in 0 .. elapsed, cpuActive = n
      PROVE  Percent = (n * 100) \div elapsed
  <2>1. n * 100 \in Nat /\ n * 100 <= 100 * elapsed /\ n * 100 < CounterMod
    BY <1>1
  <2>2. (n * 100) % CounterMod = n * 100
    BY <1>1, <2>1
  <2>3. (n * 100) \div elapsed <= 100
    BY <1>1, <2>1
  <2>4. (n * 100) \div elapsed \in Int
    BY <1>1, <2>1
  <2> QED  BY <1>1, <1>2, <2>2, <2>3, <2>4 DEF Percent
<1>3. (elapsed * 100) \div elapsed = 100
  BY <1>1
<1> QED  BY <1>1, <1>2, <1>3 DEF UsageInv, Counted

-----------------------------------------------------------------------------
(* Theorems *)

\* What scheduler_cpu_usage_percent returns is the share of ticks in which a
\* worker had the processor, or 100 where main() has not marked the idle
\* task, as long as a hundred times the ticks fit in 32 bits.
THEOREM UsageIsRight == UsageSpec => []PercentIsRight
<1> QED  BY InitUsageInv, NextUsageInv, RightFollows, PTL DEF UsageSpec

\* Counting ticks disturbs nothing: the scheduler beneath behaves as Scheduler
\* says, and keeps its invariant.
THEOREM AccountingIsPassive == UsageSpec => Spec /\ []IndInv
<1>1. UsageInit => Init
  BY DEF UsageInit
<1>2. [UsageNext]_usageVars => [Next]_vars
  BY DEF UsageNext, Stopped, usageVars
<1>3. UsageInv => IndInv
  BY DEF UsageInv
<1> QED  BY <1>1, <1>2, <1>3, InitUsageInv, NextUsageInv, PTL DEF UsageSpec, Spec
=============================================================================
