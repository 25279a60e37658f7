--------------------------- MODULE WorkQueueProofs ---------------------------
(***************************************************************************)
(* Theorems about WorkQueue, for every number of producers, consumers and  *)
(* items, every capacity of the topics, and memory that may run short.     *)
(***************************************************************************)
EXTENDS WorkQueue, FiniteSetTheorems, SequenceTheorems, TLAPS

-----------------------------------------------------------------------------
(* The inductive invariant *)

Held    == {pending[p] : p \in Producers} \ {NoItem}
Arrived == stored \cup lost

\* What Conservation says, without counting: the places are disjoint, no place
\* holds an item twice, and together they hold what was taken from the pool.
Whereabouts ==
    /\ \A p, q \in Producers : pending[p] = pending[q] /\ pending[p] # NoItem => p = q
    /\ \A c, d \in Consumers : \A i \in 1 .. Len(queue[c]), j \in 1 .. Len(queue[d]) :
          queue[c][i] = queue[d][j] => c = d /\ i = j
    /\ Held \cap Waiting = {} /\ Held \cap Arrived = {} /\ Held \cap thrown = {}
    /\ Waiting \cap Arrived = {} /\ Waiting \cap thrown = {}
    /\ Arrived \cap thrown = {} /\ stored \cap lost = {}
    /\ Held \cup Waiting \cup Arrived \cup thrown = 0 .. producerIndex - 1
    /\ \A c \in Consumers : Len(queue[c]) <= Capacity

\* Where the validator stands in its function.
VerdictInv ==
    /\ Arrived # {} => tree
    /\ phase \in {0, 1, 3}
    /\ phase = 0 => index = 0 /\ passed = 0 /\ failed = 0 /\ ~complete
    /\ phase = 1 => ~complete
    /\ phase = 3 => index = ItemCount
    /\ HonestVerdict

IndInv == TypeOK /\ Whereabouts /\ CountersMatch /\ VerdictInv

-----------------------------------------------------------------------------
(* Sets, sequences and counting *)

\* The messages in some queues are those at one of their positions.
ContentsOf(q, C) == UNION {Range(q[c]) : c \in C}

LEMMA ContentsAre ==
    ASSUME NEW C, NEW S, NEW q, \A c \in C : q[c] \in Seq(S)
    PROVE  \A x : x \in ContentsOf(q, C) <=>
                    \E c \in C : \E i \in 1 .. Len(q[c]) : x = q[c][i]
<1>1. \A c \in C : DOMAIN q[c] = 1 .. Len(q[c])
  OBVIOUS
<1> QED  BY <1>1 DEF ContentsOf, Range

\* What is in a part of a sequence is at one of that part's positions.
LEMMA RangeOfSubSeq ==
    ASSUME NEW S, NEW s \in Seq(S), NEW m \in 1 .. Len(s) + 1, NEW n \in 0 .. Len(s)
    PROVE  \A x : x \in Range(SubSeq(s, m, n)) <=> \E i \in m .. n : x = s[i]
<1> DEFINE part == SubSeq(s, m, n)
           size == IF m <= n THEN n - m + 1 ELSE 0
<1>0. Len(s) \in Nat /\ m \in Nat \ {0} /\ n \in Nat /\ size \in Nat
  OBVIOUS
<1>1. \A i \in m .. n : s[i] \in S
  BY <1>0
<1>2. /\ DOMAIN part = 1 .. size
      /\ \A i \in 1 .. size : part[i] = s[m + i - 1]
  <2>1. part \in Seq(S) /\ Len(part) = size /\ \A i \in 1 .. n - m + 1 : part[i] = s[m + i - 1]
    BY <1>0, <1>1, SubSeqProperties
  <2>2. \A i \in 1 .. size : i \in 1 .. n - m + 1
    BY <1>0
  <2> HIDE DEF part, size
  <2> QED  BY <2>1, <2>2
<1>3. \A i \in m .. n : i - m + 1 \in 1 .. size /\ m + (i - m + 1) - 1 = i
  BY <1>0
<1>4. \A i \in 1 .. size : m + i - 1 \in m .. n
  BY <1>0
<1> HIDE DEF part, size
<1>5. \A x : x \in Range(part) <=> \E i \in 1 .. size : x = s[m + i - 1]
  BY <1>2 DEF Range
<1>6. \A x : x \in Range(part) <=> \E i \in m .. n : x = s[i]
  BY <1>3, <1>4, <1>5
<1> QED  BY <1>6 DEF part

\* Sizes of disjoint sets add up.
LEMMA DisjointUnion ==
    ASSUME NEW A, NEW B, IsFiniteSet(A), IsFiniteSet(B), A \cap B = {}
    PROVE  /\ IsFiniteSet(A \cup B)
           /\ Cardinality(A \cup B) = Cardinality(A) + Cardinality(B)
<1>1. Cardinality(A) \in Nat /\ Cardinality(B) \in Nat
  BY FS_CardinalityType
<1>2. Cardinality(A \cap B) = 0
  BY FS_EmptySet
<1>3. /\ IsFiniteSet(A \cup B)
      /\ Cardinality(A \cup B) = Cardinality(A) + Cardinality(B) - Cardinality(A \cap B)
  BY FS_Union
<1> QED  BY <1>1, <1>2, <1>3

\* The sizes the build gives.
LEMMA Sizes ==
    ASSUME TypeOK
    PROVE  /\ ItemCount \in Nat \ {0} /\ NumProducers \in Nat \ {0}
           /\ NumConsumers \in Nat \ {0} /\ Capacity \in Nat \ {0}
           /\ IsFiniteSet(Items) /\ Cardinality(Items) = ItemCount
<1>1. ItemCount \in Nat \ {0} /\ NumProducers \in Nat \ {0} /\ NumConsumers \in Nat \ {0}
  BY ConfigsAssumption DEF TypeOK, ItemCount, NumProducers, NumConsumers, Positive
<1>2. Capacity \in Nat \ {0}
  BY CapacityAssumption DEF Positive
<1>3. IsFiniteSet(Items) /\ Cardinality(Items) = ItemCount
  BY <1>1, FS_Interval DEF Items
<1> QED  BY <1>1, <1>2, <1>3

\* What is in some of the topics now, one by one.
LEMMA TopicsHold ==
    ASSUME queue \in [Consumers -> Seq(Items)], NEW C \in SUBSET Consumers
    PROVE  \A x : x \in Contents(C) <=>
                    \E c \in C : \E i \in 1 .. Len(queue[c]) : x = queue[c][i]
<1>1. \A c \in C : queue[c] \in Seq(Items)
  OBVIOUS
<1>2. Contents(C) = ContentsOf(queue, C)
  BY DEF Contents, ContentsOf
<1>3. \A x : x \in ContentsOf(queue, C) <=>
               \E c \in C : \E i \in 1 .. Len(queue[c]) : x = queue[c][i]
  BY <1>1, ContentsAre
<1> QED  BY <1>2, <1>3

\* The waiting items are those in any topic.
LEMMA WaitingAre ==
    ASSUME queue \in [Consumers -> Seq(Items)]
    PROVE  /\ \A x : x \in Waiting <=>
                       \E c \in Consumers : \E i \in 1 .. Len(queue[c]) : x = queue[c][i]
           /\ Waiting \subseteq Items
<1>1. \A x : x \in Contents(Consumers) <=>
               \E c \in Consumers : \E i \in 1 .. Len(queue[c]) : x = queue[c][i]
  BY TopicsHold
<1>2. \A c \in Consumers : \A i \in 1 .. Len(queue[c]) : queue[c][i] \in Items
  BY ElementOfSeq
<1> QED  BY <1>1, <1>2 DEF Waiting

\* Where the items are, as sets of items that can be counted.
LEMMA PlacesFinite ==
    ASSUME TypeOK
    PROVE  /\ Waiting \subseteq Items
           /\ IsFiniteSet(Waiting) /\ IsFiniteSet(stored) /\ IsFiniteSet(lost)
           /\ IsFiniteSet(Arrived) /\ IsFiniteSet(thrown)
<1>1. Waiting \subseteq Items
  BY WaitingAre DEF TypeOK
<1> QED  BY <1>1, Sizes, FS_Subset DEF TypeOK, Arrived

\* Disjoint sets of items hold no more items than there are.
LEMMA NoMoreThanItems ==
    ASSUME TypeOK, NEW A \in SUBSET Items, NEW B \in SUBSET Items, NEW C \in SUBSET Items,
           A \cap B = {}, A \cap C = {}, B \cap C = {}
    PROVE  /\ Cardinality(A) \in Nat /\ Cardinality(B) \in Nat /\ Cardinality(C) \in Nat
           /\ Cardinality(A) + Cardinality(B) + Cardinality(C) <= ItemCount
<1>1. IsFiniteSet(A) /\ IsFiniteSet(B) /\ IsFiniteSet(C)
  BY Sizes, FS_Subset
<1>2. Cardinality(A) \in Nat /\ Cardinality(B) \in Nat /\ Cardinality(C) \in Nat
  BY <1>1, FS_CardinalityType
<1>3. IsFiniteSet(A \cup B) /\ Cardinality(A \cup B) = Cardinality(A) + Cardinality(B)
  BY <1>1, DisjointUnion
<1>4. (A \cup B) \cap C = {}
  OBVIOUS
<1>5. Cardinality((A \cup B) \cup C) = Cardinality(A \cup B) + Cardinality(C)
  BY <1>1, <1>3, <1>4, DisjointUnion
<1>6. (A \cup B) \cup C \in SUBSET Items
  OBVIOUS
<1>7. Cardinality((A \cup B) \cup C) <= ItemCount
  BY <1>6, Sizes, FS_Subset
<1> QED  BY <1>2, <1>3, <1>5, <1>7

-----------------------------------------------------------------------------
(* Every action preserves the invariant *)

LEMMA InitIndInv == Init => IndInv
<1> SUFFICES ASSUME Init PROVE IndInv
  OBVIOUS
<1>1. TypeOK
  <2>1. ItemCount \in Nat \ {0}
    BY ConfigsAssumption DEF Init, ItemCount, Positive
  <2>2. pending \in [Producers -> Items \cup {NoItem}] /\ queue \in [Consumers -> Seq(Items)]
    BY DEF Init
  <2>3. task \in [{"monitor", "validator", "cleanup"} ->
                     {"running", "leaving", "returned", "halted"}]
    BY DEF Init
  <2>4. tree \in BOOLEAN /\ complete \in BOOLEAN
    BY DEF Init
  <2> QED  BY <2>1, <2>2, <2>3, <2>4 DEF Init, TypeOK
<1>2. \A c \in Consumers : queue[c] = <<>>
  BY DEF Init
<1>3. Waiting = {}
  BY <1>1, <1>2, WaitingAre DEF TypeOK
<1>4. Held = {} /\ Arrived = {}
  BY DEF Init, Held, Arrived
<1>5. Whereabouts
  <2>1. \A c \in Consumers : Len(queue[c]) <= Capacity
    BY <1>1, <1>2, Sizes
  <2> QED  BY <1>2, <1>3, <1>4, <2>1 DEF Init, Whereabouts
<1>6. CountersMatch
  BY <1>3, <1>4, FS_EmptySet DEF Init, CountersMatch, Arrived
<1>7. VerdictInv
  BY <1>4 DEF Init, VerdictInv, HonestVerdict
<1> QED  BY <1>1, <1>5, <1>6, <1>7 DEF IndInv

\* What a producer tries to publish is an item in nobody else's hands.
LEMMA CandidateIsNowhereElse ==
    ASSUME IndInv, NEW p \in Producers, Candidate(p) # NoItem
    PROVE  /\ Candidate(p) \in Items
           /\ Candidate(p) % NumConsumers \in Consumers
           /\ \A q \in Producers : pending[q] = Candidate(p) => q = p
           /\ Candidate(p) \notin Waiting \cup Arrived \cup thrown
           /\ LET next == IF pending[p] = NoItem THEN producerIndex + 1 ELSE producerIndex
              IN  /\ next \in 0 .. ItemCount
                  /\ Held \cup {Candidate(p)} \cup Waiting \cup Arrived \cup thrown = 0 .. next - 1
<1>1. TypeOK /\ Whereabouts
  BY DEF IndInv
<1>2. ItemCount \in Nat /\ NumConsumers \in Nat \ {0} /\ producerIndex \in 0 .. ItemCount
  BY <1>1, Sizes DEF TypeOK
<1>3. CASE pending[p] # NoItem
  <2>1. Candidate(p) = pending[p] /\ pending[p] \in Held /\ pending[p] \in Items
    BY <1>1, <1>3 DEF Candidate, Held, TypeOK
  <2>2. pending[p] % NumConsumers \in Consumers
    BY <1>2, <2>1 DEF Items, Consumers
  <2> QED  BY <1>1, <1>2, <1>3, <2>1, <2>2 DEF Whereabouts
<1>4. CASE pending[p] = NoItem
  <2>1. Candidate(p) = producerIndex /\ producerIndex < ItemCount
    BY <1>4 DEF Candidate, TakeNext
  <2>2. producerIndex \in Items /\ producerIndex \notin 0 .. producerIndex - 1
        /\ (0 .. producerIndex - 1) \cup {producerIndex} = 0 .. (producerIndex + 1) - 1
        /\ producerIndex + 1 \in 0 .. ItemCount
    BY <1>2, <2>1 DEF Items
  <2>3. producerIndex % NumConsumers \in Consumers
    BY <1>2 DEF Consumers
  <2>4. producerIndex \notin Held \cup Waiting \cup Arrived \cup thrown
    BY <1>1, <2>2 DEF Whereabouts
  <2>5. \A q \in Producers : pending[q] # producerIndex
    BY <1>2, <2>4 DEF Held, NoItem
  <2>6. Held \cup {producerIndex} \cup Waiting \cup Arrived \cup thrown
          = 0 .. (producerIndex + 1) - 1
    BY <1>1, <2>2 DEF Whereabouts
  <2> QED  BY <1>4, <2>1, <2>2, <2>3, <2>4, <2>5, <2>6
<1> QED  BY <1>3, <1>4

\* A round of a producer moves one item, to its topic or into its own hands.
LEMMA ProducerInv ==
    ASSUME IndInv, NEW p, ProducerRound(p)
    PROVE  IndInv'
<1> DEFINE item == Candidate(p)
           c    == item % NumConsumers
<1>1. TypeOK /\ Whereabouts /\ CountersMatch /\ VerdictInv
  BY DEF IndInv
<1>2. /\ p \in Producers /\ item # NoItem /\ ~complete
      /\ producerIndex' = IF pending[p] = NoItem THEN producerIndex + 1 ELSE producerIndex
      /\ UNCHANGED <<config, tree, stored, lost, thrown, consumed, validator, task>>
  BY DEF ProducerRound
<1>3. /\ config' = config /\ Items' = Items /\ ItemCount' = ItemCount
      /\ Producers' = Producers /\ Consumers' = Consumers /\ NumConsumers' = NumConsumers
      /\ Arrived' = Arrived /\ thrown' = thrown
  BY <1>2 DEF Items, ItemCount, Producers, NumProducers, Consumers, NumConsumers, Arrived
<1>4. /\ item \in Items /\ c \in Consumers
      /\ \A q \in Producers : pending[q] = item => q = p
      /\ item \notin Waiting /\ item \notin Arrived /\ item \notin thrown
      /\ producerIndex' \in 0 .. ItemCount
      /\ Held \cup {item} \cup Waiting \cup Arrived \cup thrown = 0 .. producerIndex' - 1
  BY <1>2, CandidateIsNowhereElse
<1>5. phase = 0
  BY <1>1, <1>4 DEF VerdictInv, HonestVerdict, TypeOK, Arrived
<1>6. VerdictInv'
  BY <1>1, <1>2, <1>3, <1>5 DEF VerdictInv, validator, HonestVerdict
<1>7. CASE /\ Len(queue[c]) < Capacity
           /\ queue' = [queue EXCEPT ![c] = Append(@, item)]
           /\ pending' = [pending EXCEPT ![p] = NoItem]
           /\ produced' = produced + 1
  <2> HIDE DEF item, c
  <2>1. /\ queue \in [Consumers -> Seq(Items)]
        /\ queue' \in [Consumers -> Seq(Items)]
    BY <1>1, <1>4, <1>7 DEF TypeOK
  <2>2. /\ Len(queue'[c]) = Len(queue[c]) + 1
        /\ \A i \in 1 .. Len(queue[c]) : queue'[c][i] = queue[c][i]
        /\ queue'[c][Len(queue[c]) + 1] = item
        /\ \A d \in Consumers \ {c} : queue'[d] = queue[d]
    BY <1>4, <1>7, <2>1
  <2>3. \A x : x \in Waiting' <=>
                  \E d \in Consumers : \E i \in 1 .. Len(queue'[d]) : x = queue'[d][i]
    <3>1. \A d \in Consumers : queue'[d] \in Seq(Items)
      BY <2>1
    <3>2. Waiting' = ContentsOf(queue', Consumers)
      BY <1>3 DEF Waiting, Contents, ContentsOf
    <3> QED  BY <3>1, <3>2, ContentsAre
  <2>4. \A x : x \in Waiting <=>
                  \E d \in Consumers : \E i \in 1 .. Len(queue[d]) : x = queue[d][i]
    BY <2>1, WaitingAre
  <2>5. \A d \in Consumers : Len(queue[d]) \in Nat
    BY <2>1
  <2>6. Waiting' = Waiting \cup {item}
    <3>1. ASSUME NEW x \in Waiting' PROVE x \in Waiting \cup {item}
      <4>1. PICK d \in Consumers : \E i \in 1 .. Len(queue'[d]) : x = queue'[d][i]
        BY <2>3, <3>1
      <4>2. CASE d # c
        BY <2>2, <2>4, <4>1, <4>2
      <4>3. CASE d = c
        <5>1. PICK i \in 1 .. Len(queue[c]) + 1 : x = queue'[c][i]
          BY <2>2, <4>1, <4>3
        <5>2. CASE i = Len(queue[c]) + 1
          BY <2>2, <5>1, <5>2
        <5>3. CASE i \in 1 .. Len(queue[c])
          BY <1>4, <2>2, <2>4, <5>1, <5>3
        <5> QED  BY <1>4, <2>5, <5>2, <5>3
      <4> QED  BY <4>2, <4>3
    <3>2. ASSUME NEW x \in Waiting PROVE x \in Waiting'
      <4>1. PICK d \in Consumers : \E i \in 1 .. Len(queue[d]) : x = queue[d][i]
        BY <2>4, <3>2
      <4>2. \E i \in 1 .. Len(queue'[d]) : x = queue'[d][i]
        BY <2>2, <2>5, <4>1
      <4> QED  BY <2>3, <4>2
    <3>3. item \in Waiting'
      BY <1>4, <2>2, <2>3, <2>5
    <3> QED  BY <3>1, <3>2, <3>3
  <2>7. pending \in [Producers -> Items \cup {NoItem}] /\ NoItem \notin Items
    BY <1>1 DEF TypeOK, NoItem, Items
  <2>8. /\ pending' \in [Producers -> Items \cup {NoItem}] /\ pending'[p] = NoItem
        /\ \A q \in Producers \ {p} : pending'[q] = pending[q] /\ pending[q] # item
    BY <1>2, <1>4, <1>7, <2>7
  <2>9. Held' = Held \ {item}
    <3>1. pending[p] \in {item, NoItem}
      BY DEF item, Candidate
    <3> QED  BY <1>2, <1>3, <2>7, <2>8, <3>1 DEF Held
  <2>10. Whereabouts'
    <3>1. \A q, r \in Producers : pending'[q] = pending'[r] /\ pending'[q] # NoItem => q = r
      BY <1>1, <2>8 DEF Whereabouts
    <3>2. ASSUME NEW d \in Consumers, NEW e \in Consumers,
                 NEW i \in 1 .. Len(queue'[d]), NEW j \in 1 .. Len(queue'[e]),
                 queue'[d][i] = queue'[e][j]
          PROVE  d = e /\ i = j
      <4>1. \A f \in Consumers : \A k \in 1 .. Len(queue'[f]) :
              \/ k \in 1 .. Len(queue[f]) /\ queue'[f][k] = queue[f][k] /\ queue[f][k] # item
              \/ f = c /\ k = Len(queue[c]) + 1 /\ queue'[f][k] = item
        BY <1>4, <2>2, <2>4, <2>5
      <4> QED  BY <1>1, <3>2, <4>1 DEF Whereabouts
    <3>3. \A d \in Consumers : Len(queue'[d]) <= Capacity
      BY <1>1, <1>7, <2>2, <2>5, Sizes DEF Whereabouts
    <3>4. Held' \cup Waiting' \cup Arrived \cup thrown = 0 .. producerIndex' - 1
      BY <1>4, <2>6, <2>9
    <3>5. /\ Held' \cap Waiting' = {} /\ Held' \cap Arrived = {} /\ Held' \cap thrown = {}
          /\ Waiting' \cap Arrived = {} /\ Waiting' \cap thrown = {}
      BY <1>1, <1>4, <2>6, <2>9 DEF Whereabouts
    <3>6. Arrived \cap thrown = {} /\ (stored \cap lost = {})'
      BY <1>1, <1>2 DEF Whereabouts
    <3> QED  BY <1>3, <3>1, <3>2, <3>3, <3>4, <3>5, <3>6 DEF Whereabouts
  <2>11. CountersMatch'
    <3>1. Cardinality(Waiting') = Cardinality(Waiting) + 1
      BY <1>1, <1>4, <2>6, PlacesFinite, FS_AddElement
    <3>2. /\ Cardinality(Waiting) \in Nat /\ Cardinality(thrown) \in Nat /\ consumed \in Nat
      BY <1>1, PlacesFinite, FS_CardinalityType DEF TypeOK
    <3> QED  BY <1>1, <1>2, <1>7, <3>1, <3>2 DEF CountersMatch
  <2>12. produced' \in 0 .. ItemCount
    <3>1. Arrived \in SUBSET Items /\ Waiting' \in SUBSET Items /\ thrown \in SUBSET Items
      BY <1>1, <1>4, <2>6, PlacesFinite DEF TypeOK, Arrived
    <3>2. Arrived \cap Waiting' = {} /\ Arrived \cap thrown = {} /\ Waiting' \cap thrown = {}
      BY <1>3, <2>10 DEF Whereabouts
    <3>3. produced' = Cardinality(Arrived) + Cardinality(Waiting') + Cardinality(thrown)
      BY <1>2, <1>3, <2>11 DEF CountersMatch, Arrived
    <3>4. produced' \in Nat /\ produced' <= ItemCount
      BY <1>1, <3>1, <3>2, <3>3, NoMoreThanItems
    <3> QED  BY <1>1, <3>4, Sizes
  <2>13. TypeOK'
    BY <1>1, <1>2, <1>3, <1>4, <2>1, <2>8, <2>12 DEF TypeOK, validator
  <2> QED  BY <1>6, <2>10, <2>11, <2>13 DEF IndInv
<1>8. CASE /\ Len(queue[c]) = Capacity
           /\ pending' = [pending EXCEPT ![p] = item]
           /\ UNCHANGED <<queue, produced>>
  <2> HIDE DEF item, c
  <2>1. pending \in [Producers -> Items \cup {NoItem}] /\ NoItem \notin Items
    BY <1>1 DEF TypeOK, NoItem, Items
  <2>2. /\ pending' \in [Producers -> Items \cup {NoItem}] /\ pending'[p] = item
        /\ \A q \in Producers \ {p} : pending'[q] = pending[q] /\ pending[q] # item
    BY <1>2, <1>4, <1>8, <2>1
  <2>3. Held' = Held \cup {item}
    <3>1. pending[p] \in {item, NoItem}
      BY DEF item, Candidate
    <3> QED  BY <1>2, <1>3, <2>1, <2>2, <3>1 DEF Held
  <2>4. Waiting' = Waiting
    BY <1>3, <1>8 DEF Waiting, Contents
  <2>5. Whereabouts'
    <3>1. \A q, r \in Producers : pending'[q] = pending'[r] /\ pending'[q] # NoItem => q = r
      BY <1>1, <2>2 DEF Whereabouts
    <3>2. /\ Held' \cap Waiting = {} /\ Held' \cap Arrived = {} /\ Held' \cap thrown = {}
          /\ Held' \cup Waiting \cup Arrived \cup thrown = 0 .. producerIndex' - 1
      BY <1>1, <1>4, <2>3 DEF Whereabouts
    <3> QED  BY <1>1, <1>2, <1>3, <1>8, <2>4, <3>1, <3>2 DEF Whereabouts
  <2>6. CountersMatch'
    BY <1>1, <1>2, <1>8, <2>4 DEF CountersMatch
  <2>7. TypeOK'
    BY <1>1, <1>2, <1>3, <1>4, <1>8, <2>2 DEF TypeOK, validator
  <2> QED  BY <1>6, <2>5, <2>6, <2>7 DEF IndInv
<1> QED
  <2>1. \/ /\ Len(queue[c]) < Capacity
           /\ queue' = [queue EXCEPT ![c] = Append(@, item)]
           /\ pending' = [pending EXCEPT ![p] = NoItem]
           /\ produced' = produced + 1
        \/ /\ Len(queue[c]) = Capacity
           /\ pending' = [pending EXCEPT ![p] = item]
           /\ UNCHANGED <<queue, produced>>
    BY DEF ProducerRound
  <2> QED  BY <1>7, <1>8, <2>1

\* Wherever the messages that come too early for a tree end, each waiting item
\* is before that point or after it, and not both.
LEMMA BeforeAndAfter ==
    ASSUME TypeOK, Whereabouts, NEW c \in Consumers, NEW j \in 0 .. Len(queue[c])
    PROVE  Before(c, j) \cup After(c, j) = Waiting /\ Before(c, j) \cap After(c, j) = {}
<1> DEFINE Early(d, i) == d < c \/ (d = c /\ i <= j)
<1>1. /\ NumConsumers \in Nat /\ Consumers = 0 .. NumConsumers - 1
      /\ queue \in [Consumers -> Seq(Items)]
      /\ \A d \in Consumers : queue[d] \in Seq(Items) /\ Len(queue[d]) \in Nat
  <2>1. NumConsumers \in Nat
    BY Sizes
  <2>2. queue \in [Consumers -> Seq(Items)]
    BY DEF TypeOK
  <2>3. \A d \in Consumers : queue[d] \in Seq(Items) /\ Len(queue[d]) \in Nat
    BY <2>2, LenProperties
  <2> QED  BY <2>1, <2>2, <2>3 DEF Consumers
<1>2. \A x : x \in Before(c, j) <=>
         \E d \in Consumers : \E i \in 1 .. Len(queue[d]) : x = queue[d][i] /\ Early(d, i)
  <2>1. \A x : x \in Contents(0 .. c - 1) <=>
           \E d \in 0 .. c - 1 : \E i \in 1 .. Len(queue[d]) : x = queue[d][i]
    <3>1. 0 .. c - 1 \in SUBSET Consumers
      BY <1>1
    <3> QED  BY <1>1, <3>1, TopicsHold
  <2>2. \A x : x \in Range(SubSeq(queue[c], 1, j)) <=> \E i \in 1 .. j : x = queue[c][i]
    <3>1. queue[c] \in Seq(Items) /\ 1 \in 1 .. Len(queue[c]) + 1
      BY <1>1
    <3> QED  BY <3>1, RangeOfSubSeq
  <2>3. \A d : d \in 0 .. c - 1 <=> d \in Consumers /\ d < c
    BY <1>1
  <2>4. 1 .. j \subseteq 1 .. Len(queue[c]) /\ \A i \in 1 .. Len(queue[c]) : i \in 1 .. j <=> i <= j
    BY <1>1
  <2> QED  BY <2>1, <2>2, <2>3, <2>4, <1>1 DEF Before
<1>3. \A x : x \in After(c, j) <=>
         \E d \in Consumers : \E i \in 1 .. Len(queue[d]) : x = queue[d][i] /\ ~Early(d, i)
  <2>1. \A x : x \in Contents(c + 1 .. NumConsumers - 1) <=>
           \E d \in c + 1 .. NumConsumers - 1 : \E i \in 1 .. Len(queue[d]) : x = queue[d][i]
    <3>1. c + 1 .. NumConsumers - 1 \in SUBSET Consumers
      BY <1>1
    <3> QED  BY <1>1, <3>1, TopicsHold
  <2>2. \A x : x \in Range(SubSeq(queue[c], j + 1, Len(queue[c]))) <=>
                  \E i \in j + 1 .. Len(queue[c]) : x = queue[c][i]
    <3>1. /\ queue[c] \in Seq(Items)
          /\ j + 1 \in 1 .. Len(queue[c]) + 1 /\ Len(queue[c]) \in 0 .. Len(queue[c])
      BY <1>1
    <3> QED  BY <3>1, RangeOfSubSeq
  <2>3. \A d : d \in c + 1 .. NumConsumers - 1 <=> d \in Consumers /\ ~(d < c) /\ d # c
    BY <1>1
  <2>4. \A i : i \in j + 1 .. Len(queue[c]) <=> i \in 1 .. Len(queue[c]) /\ ~(i <= j)
    BY <1>1
  <2> QED  BY <2>1, <2>2, <2>3, <2>4, <1>1 DEF After
<1> HIDE DEF Early
<1>4. \A x : x \in Waiting <=>
         \E d \in Consumers : \E i \in 1 .. Len(queue[d]) : x = queue[d][i]
  BY WaitingAre DEF TypeOK
<1>5. Before(c, j) \cup After(c, j) = Waiting
  BY <1>2, <1>3, <1>4
<1>6. Before(c, j) \cap After(c, j) = {}
  BY <1>2, <1>3 DEF Whereabouts
<1> QED  BY <1>5, <1>6

\* The monitor's round moves what waits into the tree, or loses it; nothing
\* waits any more when the validation has begun.
LEMMA MonitorInv ==
    ASSUME IndInv, MonitorRound
    PROVE  IndInv'
<1>1. TypeOK /\ Whereabouts /\ CountersMatch /\ VerdictInv
  BY DEF IndInv
<1>2. /\ queue' = [c \in Consumers |-> <<>>]
      /\ task' = IF complete THEN [task EXCEPT !["monitor"] = "returned"] ELSE task
      /\ UNCHANGED <<config, producerIndex, pending, produced, validator>>
  BY DEF MonitorRound
<1> DEFINE Round(c, j) ==
         /\ thrown' = thrown \cup Before(c, j)
         /\ tree' = (tree \/ After(c, j) # {})
         /\ consumed' = consumed + CountFresh(After(c, j) \ stored)
         /\ \E dropped \in SUBSET (After(c, j) \ stored) :
               /\ stored' = stored \cup ((After(c, j) \ stored) \ dropped)
               /\ lost' = lost \cup dropped
<1>3a. PICK c \in Consumers : \E j \in 0 .. Len(queue[c]) : Round(c, j)
  BY DEF MonitorRound, Consume
<1>3. PICK j \in 0 .. Len(queue[c]) : Round(c, j)
  BY <1>3a
<1> DEFINE early == Before(c, j)
           late  == After(c, j)
<1>4. early \cup late = Waiting /\ early \cap late = {}
  BY <1>1, BeforeAndAfter
<1>5. late \ stored = late
  BY <1>1, <1>4 DEF Whereabouts, Arrived
<1>6. PICK dropped \in SUBSET late :
         stored' = stored \cup (late \ dropped) /\ lost' = lost \cup dropped
  BY <1>3, <1>5
<1>7. /\ thrown' = thrown \cup early /\ tree' = (tree \/ late # {})
      /\ consumed' = consumed + Cardinality(late)
  BY <1>3, <1>5 DEF CountFresh
<1> HIDE DEF early, late
<1>8. /\ config' = config /\ Items' = Items /\ ItemCount' = ItemCount
      /\ Producers' = Producers /\ Consumers' = Consumers
      /\ Held' = Held /\ Arrived' = Arrived \cup late
  BY <1>2, <1>6 DEF Items, ItemCount, Producers, NumProducers, Consumers, NumConsumers, Held, Arrived
<1>9. Waiting \subseteq Items /\ early \subseteq Items /\ late \subseteq Items
  BY <1>1, <1>4, PlacesFinite
<1>10. queue' \in [Consumers -> Seq(Items)] /\ \A d \in Consumers : queue'[d] = <<>>
  BY <1>2
<1>11. Waiting' = {}
  <2>1. \A x : x \in ContentsOf(queue', Consumers) <=>
                 \E d \in Consumers : \E i \in 1 .. Len(queue'[d]) : x = queue'[d][i]
    <3>1. \A d \in Consumers : queue'[d] \in Seq(Items)
      BY <1>10
    <3> QED  BY <3>1, ContentsAre
  <2>2. Waiting' = ContentsOf(queue', Consumers)
    BY <1>8 DEF Waiting, Contents, ContentsOf
  <2> QED  BY <1>10, <2>1, <2>2
<1>12. Whereabouts'
  <2>1. /\ Held \cap Arrived' = {} /\ Held \cap thrown' = {} /\ Arrived' \cap thrown' = {}
        /\ stored' \cap lost' = {}
        /\ Held \cup Arrived' \cup thrown' = 0 .. producerIndex - 1
    BY <1>1, <1>4, <1>6, <1>7, <1>8 DEF Whereabouts, Arrived
  <2>2. \A d \in Consumers : Len(queue'[d]) <= Capacity
    BY <1>1, <1>10, Sizes
  <2>3. \A d \in Consumers : 1 .. Len(queue'[d]) = {}
    BY <1>10
  <2>4. \A p, q \in Producers : pending'[p] = pending'[q] /\ pending'[p] # NoItem => p = q
    BY <1>1, <1>2 DEF Whereabouts
  <2> QED  BY <1>2, <1>8, <1>11, <2>1, <2>2, <2>3, <2>4 DEF Whereabouts
<1>13. /\ Cardinality(late) \in Nat /\ Cardinality(early) \in Nat
       /\ Cardinality(Arrived') = Cardinality(Arrived) + Cardinality(late)
       /\ Cardinality(Waiting) = Cardinality(early) + Cardinality(late)
       /\ Cardinality(thrown') = Cardinality(thrown) + Cardinality(early)
  <2>1. /\ IsFiniteSet(late) /\ IsFiniteSet(early)
        /\ IsFiniteSet(Arrived) /\ IsFiniteSet(thrown)
    BY <1>1, <1>9, Sizes, PlacesFinite, FS_Subset
  <2>2. Arrived \cap late = {} /\ thrown \cap early = {}
    BY <1>1, <1>4 DEF Whereabouts
  <2>3. Cardinality(late) \in Nat /\ Cardinality(early) \in Nat
    BY <2>1, FS_CardinalityType
  <2> QED  BY <1>4, <1>7, <1>8, <2>1, <2>2, <2>3, DisjointUnion
<1>14. CountersMatch'
  <2>1. consumed = Cardinality(Arrived)
        /\ produced = consumed + Cardinality(Waiting) + Cardinality(thrown)
    BY <1>1 DEF CountersMatch, Arrived
  <2>2. Cardinality(thrown) \in Nat /\ consumed \in Nat /\ produced \in Nat
    BY <1>1, PlacesFinite, FS_CardinalityType DEF TypeOK
  <2>3. consumed' = Cardinality(Arrived') /\ Cardinality(Waiting') = 0
    BY <1>7, <1>11, <1>13, <2>1, FS_EmptySet
  <2>4. produced' = consumed' + Cardinality(Waiting') + Cardinality(thrown')
    BY <1>2, <1>7, <1>13, <2>1, <2>2, <2>3
  <2> QED  BY <2>3, <2>4 DEF CountersMatch, Arrived
<1>15. consumed' \in 0 .. ItemCount
  <2>1. Arrived' \in SUBSET Items /\ {} \in SUBSET Items
    BY <1>1, <1>8, <1>9 DEF TypeOK, Arrived
  <2>2. Cardinality(Arrived') \in Nat /\ Cardinality(Arrived') <= ItemCount
    BY <1>1, <2>1, Sizes, FS_Subset, FS_CardinalityType
  <2> QED  BY <1>1, <1>14, <2>2, Sizes DEF CountersMatch, Arrived
<1>16. TypeOK'
  <2>1. stored' \subseteq Items /\ lost' \subseteq Items /\ thrown' \subseteq Items
    BY <1>1, <1>6, <1>7, <1>9 DEF TypeOK
  <2>2. tree' \in BOOLEAN
    BY <1>7
  <2>3. task' \in [{"monitor", "validator", "cleanup"} ->
                     {"running", "leaving", "returned", "halted"}]
    BY <1>1, <1>2 DEF TypeOK
  <2> QED  BY <1>1, <1>2, <1>8, <1>10, <1>15, <2>1, <2>2, <2>3 DEF TypeOK, validator
<1>17. VerdictInv'
  <2>1. Arrived' # {} => tree'
    BY <1>1, <1>7, <1>8 DEF VerdictInv
  <2>2. /\ phase' = phase /\ index' = index /\ complete' = complete
        /\ passed' = passed /\ failed' = failed
    BY <1>2 DEF validator
  <2>3. CASE phase = 0
    BY <1>1, <2>1, <2>2, <2>3, <1>8 DEF VerdictInv, HonestVerdict
  <2>4. CASE phase > 0
    <3>1. Waiting = {} /\ thrown = {}
      BY <1>1, <1>9, <2>4 DEF VerdictInv, HonestVerdict, Whereabouts, Arrived
    <3>2. stored' = stored /\ lost' = lost /\ thrown' = thrown /\ (tree => tree')
      BY <1>4, <1>6, <1>7, <3>1
    <3> QED  BY <1>1, <1>8, <2>1, <2>2, <3>2 DEF VerdictInv, HonestVerdict
  <2> QED  BY <1>1, <2>3, <2>4 DEF TypeOK
<1> QED  BY <1>12, <1>14, <1>16, <1>17 DEF IndInv

\* Looking one item up adds it to those looked at.
Below(S, n) == {k \in S : k < n}

LEMMA CountOneMore ==
    ASSUME TypeOK, NEW S \in SUBSET Items, NEW i \in Items
    PROVE  /\ Cardinality(Below(S, i)) \in Nat
           /\ Cardinality(Below(S, i + 1)) =
                IF i \in S THEN Cardinality(Below(S, i)) + 1 ELSE Cardinality(Below(S, i))
           /\ Cardinality(Below(S, i + 1)) \in 0 .. ItemCount
<1>1. /\ IsFiniteSet(S) /\ Cardinality(S) \in Nat /\ Cardinality(S) <= ItemCount
      /\ ItemCount \in Nat
  BY Sizes, FS_Subset, FS_CardinalityType
<1>2. Below(S, i) \in SUBSET S /\ Below(S, i + 1) \in SUBSET S
  BY DEF Below
<1>3. /\ IsFiniteSet(Below(S, i)) /\ Cardinality(Below(S, i)) \in Nat
      /\ Cardinality(Below(S, i + 1)) \in Nat /\ Cardinality(Below(S, i + 1)) <= Cardinality(S)
  BY <1>1, <1>2, FS_Subset, FS_CardinalityType
<1>4. ~(i < i) /\ \A k \in S : k < i + 1 <=> k < i \/ k = i
  <2>1. i \in Int /\ \A k \in S : k \in Int
    BY DEF Items
  <2> QED  BY <2>1
<1>5. CASE i \in S
  <2>1. i \notin Below(S, i) /\ Below(S, i + 1) = Below(S, i) \cup {i}
    BY <1>4, <1>5 DEF Below
  <2>2. Cardinality(Below(S, i) \cup {i}) = Cardinality(Below(S, i)) + 1
    BY <1>3, <2>1, FS_AddElement
  <2> QED  BY <1>1, <1>3, <1>5, <2>1, <2>2
<1>6. CASE i \notin S
  <2>1. Below(S, i + 1) = Below(S, i)
    BY <1>4, <1>6 DEF Below
  <2> QED  BY <1>1, <1>3, <1>6, <2>1
<1> QED  BY <1>5, <1>6

\* A look-up counts the item it was about, once, on the side it belongs to.
LEMMA CheckInv ==
    ASSUME IndInv, NEW i \in Items, Check(i), phase' = 1,
           UNCHANGED <<config, items, complete, task>>,
           tree, thrown = {}, Arrived = Items, ~complete,
           passed = Cardinality(Below(stored, i)), failed = Cardinality(Below(lost, i))
    PROVE  IndInv'
<1>1. TypeOK /\ Whereabouts /\ CountersMatch /\ VerdictInv
  BY DEF IndInv
<1>2. /\ UNCHANGED <<config, producerIndex, pending, queue, tree, stored, lost, thrown,
                     produced, consumed, complete, task>>
  BY DEF items
<1>3. /\ Items' = Items /\ ItemCount' = ItemCount /\ Producers' = Producers
      /\ Consumers' = Consumers /\ Held' = Held /\ Arrived' = Arrived /\ Waiting' = Waiting
  BY <1>2 DEF Items, ItemCount, Producers, NumProducers, Consumers, NumConsumers,
              Held, Arrived, Waiting, Contents
<1>4. Whereabouts' /\ CountersMatch'
  BY <1>1, <1>2, <1>3 DEF Whereabouts, CountersMatch
<1>5. index' = i + 1 /\ index' \in 0 .. ItemCount
  BY <1>1, Sizes DEF Check, Items
<1>6. /\ passed' = Cardinality(Below(stored, i + 1))
      /\ passed' \in 0 .. ItemCount
  <2>1. stored \in SUBSET Items
    BY <1>1 DEF TypeOK
  <2> QED  BY <1>1, <2>1, CountOneMore DEF Check
<1>7. /\ failed' = Cardinality(Below(lost, i + 1))
      /\ failed' \in 0 .. ItemCount
  <2>1. lost \in SUBSET Items
    BY <1>1 DEF TypeOK
  <2>2. i \in lost <=> i \notin stored
    BY <1>1 DEF Whereabouts, Arrived
  <2> QED  BY <1>1, <2>1, <2>2, CountOneMore DEF Check
<1>8. TypeOK'
  BY <1>1, <1>2, <1>3, <1>5, <1>6, <1>7 DEF TypeOK
<1>9. VerdictInv'
  BY <1>2, <1>3, <1>5, <1>6, <1>7 DEF VerdictInv, HonestVerdict, Arrived, Below
<1> QED  BY <1>4, <1>8, <1>9 DEF IndInv

LEMMA ValidatorInv ==
    ASSUME IndInv, Validator
    PROVE  IndInv'
<1>1. TypeOK /\ Whereabouts /\ CountersMatch /\ VerdictInv
  BY DEF IndInv
<1>2. /\ ItemCount \in Nat \ {0} /\ IsFiniteSet(Items) /\ Cardinality(Items) = ItemCount
      /\ stored \subseteq Items /\ lost \subseteq Items /\ thrown \subseteq Items
  BY <1>1, Sizes DEF TypeOK
<1>3. ASSUME ValidatorStart PROVE IndInv'
  <2>1. Arrived = Items
    <3>1. Arrived \in SUBSET Items
      BY <1>2 DEF Arrived
    <3>2. Cardinality(Arrived) \in Nat /\ Cardinality(Arrived) <= ItemCount
      BY <1>2, <3>1, FS_Subset, FS_CardinalityType
    <3>3. Cardinality(Arrived) >= ItemCount
      BY <1>1, <1>3 DEF ValidatorStart, Consumption, CountersMatch, Arrived
    <3>4. Cardinality(Items) = Cardinality(Arrived)
      BY <1>2, <3>2, <3>3
    <3> QED  BY <1>2, <3>1, <3>4, FS_Subset
  <2>2. 0 \in Items
    <3>1. ItemCount \in Nat \ {0}
      BY <1>2
    <3> QED  BY <3>1 DEF Items
  <2>3. tree /\ thrown = {} /\ passed = 0 /\ failed = 0 /\ ~complete
    BY <1>1, <1>2, <1>3, <2>1, <2>2 DEF ValidatorStart, VerdictInv, Whereabouts
  <2>4. Cardinality(Below(stored, 0)) = 0 /\ Cardinality(Below(lost, 0)) = 0
    <3>1. \A k \in Items : ~(k < 0)
      BY DEF Items
    <3>2. Below(stored, 0) = {} /\ Below(lost, 0) = {}
      BY <1>2, <3>1 DEF Below
    <3> QED  BY <3>2, FS_EmptySet
  <2> QED  BY <1>3, <2>1, <2>2, <2>3, <2>4, CheckInv DEF ValidatorStart
<1>4. ASSUME ValidatorRound PROVE IndInv'
  <2>1. index \in Items
    BY <1>1, <1>2, <1>4 DEF ValidatorRound, TypeOK, Items
  <2>2. /\ tree /\ thrown = {} /\ Arrived = Items /\ ~complete /\ phase' = 1
        /\ passed = Cardinality(Below(stored, index)) /\ failed = Cardinality(Below(lost, index))
    BY <1>1, <1>4 DEF ValidatorRound, VerdictInv, HonestVerdict, Arrived, Below
  <2> QED  BY <1>4, <2>1, <2>2, CheckInv DEF ValidatorRound
<1>5. ASSUME UNCHANGED <<config, items, index, passed, failed>>, phase' \in 0 .. 3,
             complete' \in BOOLEAN, TypeOK', VerdictInv'
      PROVE  IndInv'
  <2>1. /\ Producers' = Producers /\ Consumers' = Consumers
        /\ Held' = Held /\ Arrived' = Arrived /\ Waiting' = Waiting
    BY <1>5 DEF items, NumProducers, NumConsumers, Producers, Consumers,
                Held, Arrived, Waiting, Contents
  <2>2. Whereabouts' /\ CountersMatch'
    BY <1>1, <1>5, <2>1 DEF items, Whereabouts, CountersMatch
  <2> QED  BY <1>5, <2>2 DEF IndInv
<1>6. ASSUME ValidatorComplete PROVE IndInv'
  <2>1. /\ UNCHANGED <<config, items, index, passed, failed, task>>
        /\ phase = 1 /\ index = ItemCount /\ complete' = TRUE /\ phase' = 3
    BY <1>6 DEF ValidatorComplete
  <2>2. TypeOK'
    BY <1>1, <2>1 DEF TypeOK, items, ItemCount, NumProducers, NumConsumers, Items, Producers, Consumers
  <2>3. passed + failed = ItemCount
    <3>1. \A k \in Items : k < ItemCount
      BY <1>2 DEF Items
    <3>2. /\ {k \in stored : k < index} = stored /\ {k \in lost : k < index} = lost
      BY <1>2, <2>1, <3>1
    <3>3. /\ passed = Cardinality({k \in stored : k < index})
          /\ failed = Cardinality({k \in lost : k < index})
          /\ stored \cup lost = Items
      BY <1>1, <2>1 DEF VerdictInv, HonestVerdict
    <3>4. passed = Cardinality(stored) /\ failed = Cardinality(lost)
      BY <3>2, <3>3
    <3>5. stored \cap lost = {} /\ IsFiniteSet(stored) /\ IsFiniteSet(lost)
      BY <1>1, PlacesFinite DEF Whereabouts
    <3> QED  BY <1>2, <3>3, <3>4, <3>5, DisjointUnion
  <2>4. VerdictInv'
    BY <1>1, <2>1, <2>3 DEF VerdictInv, HonestVerdict, Arrived, items, ItemCount, Items
  <2> QED  BY <1>5, <2>1, <2>2, <2>4
<1>7. ASSUME ValidatorReturn PROVE IndInv'
  <2>1. /\ UNCHANGED <<config, items, validator>>
        /\ task' = [task EXCEPT !["validator"] = "returned"]
    BY <1>7 DEF ValidatorReturn
  <2>2. TypeOK'
    BY <1>1, <2>1 DEF TypeOK, items, validator, ItemCount, NumProducers, NumConsumers,
                      Items, Producers, Consumers
  <2>3. VerdictInv'
    BY <1>1, <2>1 DEF VerdictInv, HonestVerdict, Arrived, items, validator, ItemCount, Items
  <2> QED  BY <1>1, <1>5, <2>1, <2>2, <2>3 DEF validator, TypeOK
<1> QED  BY <1>3, <1>4, <1>6, <1>7 DEF Validator

LEMMA NextIndInv == IndInv /\ [Next]_vars => IndInv'
<1> SUFFICES ASSUME IndInv, [Next]_vars PROVE IndInv'
  OBVIOUS
<1>1. ASSUME NEW p \in AnyProducer, ProducerRound(p) PROVE IndInv'
  BY <1>1, ProducerInv
<1>2. ASSUME MonitorRound PROVE IndInv'
  BY <1>2, MonitorInv
<1>3. ASSUME Validator PROVE IndInv'
  BY <1>3, ValidatorInv
<1>4. ASSUME UNCHANGED <<config, items, validator>>,
             task' \in [{"monitor", "validator", "cleanup"} ->
                          {"running", "leaving", "returned", "halted"}]
      PROVE  IndInv'
  <2>1. /\ ItemCount' = ItemCount /\ Items' = Items
        /\ Producers' = Producers /\ Consumers' = Consumers
        /\ Held' = Held /\ Arrived' = Arrived /\ Waiting' = Waiting
    BY <1>4 DEF items, NumProducers, NumConsumers, Producers, Consumers, ItemCount, Items,
                Held, Arrived, Waiting, Contents
  <2>2. TypeOK'
    BY <1>4, <2>1 DEF IndInv, TypeOK, items, validator
  <2>3. Whereabouts' /\ CountersMatch'
    BY <1>4, <2>1 DEF IndInv, items, Whereabouts, CountersMatch
  <2>4. VerdictInv'
    BY <1>4, <2>1 DEF IndInv, VerdictInv, HonestVerdict, items, validator
  <2> QED  BY <2>2, <2>3, <2>4 DEF IndInv
<1>5. ASSUME Cleanup PROVE IndInv'
  BY <1>4, <1>5 DEF Cleanup, CleanupLeave, CleanupHalt, IndInv, TypeOK
<1>6. ASSUME UNCHANGED vars PROVE IndInv'
  BY <1>4, <1>6 DEF vars, items, validator, IndInv, TypeOK
<1> QED  BY <1>1, <1>2, <1>3, <1>5, <1>6 DEF Next, Halted

-----------------------------------------------------------------------------
(* From the places of the items to how many there are *)

\* A set is counted 1 if it has one element and 0 if it has none.
LEMMA OneOrNone ==
    ASSUME NEW S, NEW a, S = {} \/ S = {a}
    PROVE  Cardinality(S) = IF S = {} THEN 0 ELSE 1
BY FS_EmptySet, FS_Singleton

LEMMA CountThePlaces == TypeOK /\ Whereabouts => Conservation
<1> SUFFICES ASSUME TypeOK, Whereabouts, NEW k \in Items
             PROVE  Places(k) = IF k < producerIndex THEN 1 ELSE 0
  BY DEF Conservation
<1> DEFINE InStore(S) == k \in IF S = "tree" THEN stored \cup lost ELSE thrown
           stores == {S \in {"tree", "thrown"} : InStore(S)}
<1>1. Cardinality(Pending(k)) = IF k \in Held THEN 1 ELSE 0
  <2>1. k # NoItem /\ \A p \in Producers : p \in Pending(k) <=> pending[p] = k
    BY DEF Items, NoItem, Pending
  <2>2. CASE k \in Held
    <3>1. PICK p \in Producers : pending[p] = k
      BY <2>2 DEF Held
    <3>2. Pending(k) = {p}
      BY <2>1, <3>1 DEF Whereabouts, Pending
    <3> QED  BY <2>2, <3>2, OneOrNone
  <2>3. CASE k \notin Held
    <3>1. Pending(k) = {}
      BY <2>1, <2>3 DEF Held, Pending
    <3> QED  BY <2>3, <3>1, OneOrNone
  <2> QED  BY <2>2, <2>3
<1>2. Cardinality(Positions(k)) = IF k \in Waiting THEN 1 ELSE 0
  <2>1. \A c \in Consumers : Len(queue[c]) \in Nat /\ Len(queue[c]) <= Capacity
    BY DEF TypeOK, Whereabouts
  <2>2. Capacity \in Nat
    BY Sizes
  <2>3. \A x : x \in Waiting <=>
                 \E c \in Consumers : \E i \in 1 .. Len(queue[c]) : x = queue[c][i]
    BY WaitingAre DEF TypeOK
  <2>4. CASE k \in Waiting
    <3>1. PICK c \in Consumers : \E i \in 1 .. Len(queue[c]) : k = queue[c][i]
      BY <2>3, <2>4
    <3>2. PICK i \in 1 .. Len(queue[c]) : k = queue[c][i]
      BY <3>1
    <3>3. <<c, i>> \in Positions(k)
      BY <2>1, <2>2, <3>2 DEF Positions
    <3>4. ASSUME NEW at \in Positions(k) PROVE at = <<c, i>>
      <4>1. /\ at \in Consumers \X (1 .. Capacity)
            /\ at[2] <= Len(queue[at[1]]) /\ queue[at[1]][at[2]] = k
        BY <3>4 DEF Positions
      <4>2. at[1] \in Consumers /\ at[2] \in 1 .. Len(queue[at[1]]) /\ at = <<at[1], at[2]>>
        BY <2>1, <2>2, <4>1
      <4>3. at[1] = c /\ at[2] = i
        BY <3>2, <4>1, <4>2 DEF Whereabouts
      <4> QED  BY <4>2, <4>3
    <3>5. Positions(k) = {<<c, i>>}
      BY <3>3, <3>4
    <3> QED  BY <2>4, <3>5, OneOrNone
  <2>5. CASE k \notin Waiting
    <3>1. ASSUME NEW at \in Positions(k) PROVE FALSE
      <4>1. /\ at \in Consumers \X (1 .. Capacity)
            /\ at[2] <= Len(queue[at[1]]) /\ queue[at[1]][at[2]] = k
        BY <3>1 DEF Positions
      <4>2. at[1] \in Consumers /\ at[2] \in 1 .. Len(queue[at[1]])
        BY <2>1, <2>2, <4>1
      <4> QED  BY <2>3, <2>5, <4>1, <4>2
    <3>2. Positions(k) = {}
      BY <3>1
    <3> QED  BY <2>5, <3>2, OneOrNone
  <2> QED  BY <2>4, <2>5
<1>3. Cardinality(stores) = IF k \in Arrived \cup thrown THEN 1 ELSE 0
  <2>1. CASE k \in Arrived
    <3>1. stores = {"tree"}
      BY <2>1 DEF Whereabouts, Arrived
    <3> HIDE DEF stores
    <3> QED  BY <2>1, <3>1, OneOrNone
  <2>2. CASE k \in thrown
    <3>1. stores = {"thrown"}
      BY <2>2 DEF Whereabouts, Arrived
    <3> HIDE DEF stores
    <3> QED  BY <2>2, <3>1, OneOrNone
  <2>3. CASE k \notin Arrived \cup thrown
    <3>1. stores = {}
      BY <2>3 DEF Arrived
    <3> HIDE DEF stores
    <3> QED  BY <2>3, <3>1, OneOrNone
  <2> QED  BY <2>1, <2>2, <2>3
<1>4. Places(k) = Cardinality(Pending(k)) + Cardinality(Positions(k)) + Cardinality(stores)
  BY DEF Places
<1>5. k < producerIndex <=> k \in Held \cup Waiting \cup Arrived \cup thrown
  <2>1. k < producerIndex <=> k \in 0 .. producerIndex - 1
    BY DEF Items, TypeOK
  <2> QED  BY <2>1 DEF Whereabouts
<1> HIDE DEF stores
<1> QED  BY <1>1, <1>2, <1>3, <1>4, <1>5 DEF Whereabouts

-----------------------------------------------------------------------------
(* Theorems *)

\* Each part of the invariant holds in every reachable state: main.c's loops,
\* whichever runs next, for any numbers of producers, consumers and items.
THEOREM InductiveInvariant == Spec => []IndInv
<1>1. Spec => Init /\ [][Next]_vars
  BY DEF Spec
<1> QED  BY <1>1, InitIndInv, NextIndInv, PTL

\* The variables keep their types; in particular no counter of main.c exceeds
\* TEST_ITEM_COUNT.
THEOREM TypeCorrect == Spec => []TypeOK
<1>1. IndInv => TypeOK
  BY DEF IndInv
<1> QED  BY <1>1, InductiveInvariant, PTL

\* An item taken from the pool is in exactly one place until the end: no
\* producer loses one to a full topic, none is sent or stored twice.
THEOREM ItemsAreConserved == Spec => []Conservation
<1>1. IndInv => Conservation
  BY CountThePlaces DEF IndInv
<1> QED  BY <1>1, InductiveInvariant, PTL

\* What test_items_produced and test_items_consumed say is true of the items.
THEOREM CountersAreRight == Spec => []CountersMatch
<1>1. IndInv => CountersMatch
  BY DEF IndInv
<1> QED  BY <1>1, InductiveInvariant, PTL

\* The validator begins when all items have arrived, looks each up once and
\* fails those that are not in the tree.
THEOREM VerdictIsHonest == Spec => []HonestVerdict
<1>1. IndInv => HonestVerdict
  BY DEF IndInv, VerdictInv
<1> QED  BY <1>1, InductiveInvariant, PTL

\* Where btree_insert does not run out of memory, the summary can only be that
\* every item was found: the tests pass if they come to an end.
THEOREM WithMemoryAllPass ==
    ASSUME ~InsertMayFail
    PROVE  Spec => [](complete => passed = ItemCount /\ failed = 0)
<1>1. Init => lost = {}
  BY DEF Init
<1>2. lost = {} /\ [Next]_vars => (lost = {})'
  <2> SUFFICES ASSUME lost = {}, [Next]_vars PROVE lost' = {}
    OBVIOUS
  <2>1. ASSUME MonitorRound PROVE lost' = {}
    BY <2>1 DEF MonitorRound, Consume
  <2>2. ASSUME Next, ~MonitorRound PROVE lost' = {}
    BY <2>2 DEF Next, ProducerRound, Validator, ValidatorStart, ValidatorRound, ValidatorComplete,
       ValidatorReturn, Cleanup, CleanupLeave, CleanupHalt, Halted, vars, items, validator
  <2> QED  BY <2>1, <2>2 DEF vars
<1>3. IndInv /\ lost = {} => (complete => passed = ItemCount /\ failed = 0)
  <2> SUFFICES ASSUME IndInv, lost = {}, complete PROVE passed = ItemCount /\ failed = 0
    OBVIOUS
  <2>1. failed = Cardinality({k \in lost : k < index}) /\ passed + failed = ItemCount
    BY DEF IndInv, VerdictInv, HonestVerdict, TypeOK
  <2>2. failed = 0
    <3>1. {k \in lost : k < index} = {}
      OBVIOUS
    <3> QED  BY <2>1, <3>1, FS_EmptySet
  <2>3. passed \in Nat
    BY DEF IndInv, TypeOK
  <2> QED  BY <2>1, <2>2, <2>3
<1>4. Spec => Init /\ [][Next]_vars
  BY DEF Spec
<1> QED  BY <1>1, <1>2, <1>3, <1>4, InductiveInvariant, PTL
=============================================================================
