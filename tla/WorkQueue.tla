------------------------------ MODULE WorkQueue ------------------------------
(***************************************************************************)
(* The program of src/src/main.c: producer tasks take the items 0, 1, ...  *)
(* of a shared pool and publish each to the topic of one of the consumers, *)
(* the monitor task passes them to the consumers' callback, which stores   *)
(* them in a B-tree, the validator task looks every item up there, and the *)
(* cleanup task halts the machine.                                         *)
(*                                                                         *)
(* A task runs from one scheduler_sleep to the next without interruption,  *)
(* so that stretch is one action.  When a sleep ends is Scheduler's        *)
(* business: any task may be next here.  A topic is the bounded queue that *)
(* PubSub implements, the tree the map that BTree implements.              *)
(***************************************************************************)
EXTENDS Integers, Sequences, FiniteSets, SequencesExt

CONSTANTS
    Configs,        \* the builds looked at: how many producers, consumers, items
    Capacity,       \* messages a topic holds: PUBSUB_MESSAGE_QUEUE_SIZE - 1
    CreateMayFail,  \* can btree_create run out of memory?
    InsertMayFail   \* can btree_insert, and drop the item?

Positive == Nat \ {0}
ASSUME ConfigsAssumption ==
    Configs \subseteq [producers : Positive, consumers : Positive, items : Positive]
ASSUME CapacityAssumption == Capacity \in Positive
ASSUME MemoryAssumption == CreateMayFail \in BOOLEAN /\ InsertMayFail \in BOOLEAN

VARIABLES
    config,         \* the build that runs: it never changes
    producerIndex,  \* test_producer_index: the first item nobody has taken
    pending,        \* producer_pending_items
    queue,          \* the messages of topic test_items_consumer_c
    tree,           \* g_test_btree # NULL
    stored,         \* the keys btree_get finds
    lost,           \* history: the keys btree_insert dropped
    thrown,         \* history: the items met while there was no tree
    produced,       \* test_items_produced
    consumed,       \* test_items_consumed
    phase,          \* validator_phase
    index,          \* validation_index
    passed,         \* validation_passed
    failed,         \* validation_failed
    complete,       \* test_validation_complete
    task            \* where the tasks that end are in their function

ItemCount    == config.items       \* TEST_ITEM_COUNT
NumProducers == config.producers   \* NUM_PRODUCERS
NumConsumers == config.consumers   \* NUM_CONSUMERS

Items     == 0 .. ItemCount - 1
Producers == 1 .. NumProducers
Consumers == 0 .. NumConsumers - 1
NoItem    == -1

items     == <<producerIndex, pending, queue, tree, stored, lost, thrown, produced, consumed>>
validator == <<phase, index, passed, failed, complete>>
vars      == <<config, producerIndex, pending, queue, tree, stored, lost, thrown,
               produced, consumed, phase, index, passed, failed, complete, task>>

TypeOK ==
    /\ config \in Configs
    /\ producerIndex \in 0 .. ItemCount
    /\ pending \in [Producers -> Items \cup {NoItem}]
    /\ queue \in [Consumers -> Seq(Items)]
    /\ tree \in BOOLEAN
    /\ stored \subseteq Items /\ lost \subseteq Items /\ thrown \subseteq Items
    /\ produced \in 0 .. ItemCount /\ consumed \in 0 .. ItemCount
    /\ phase \in 0 .. 3 /\ index \in 0 .. ItemCount
    /\ passed \in 0 .. ItemCount /\ failed \in 0 .. ItemCount
    /\ complete \in BOOLEAN
    /\ task \in [{"monitor", "validator", "cleanup"} ->
                    {"running", "leaving", "returned", "halted"}]

Running == task["cleanup"] # "halted"

-----------------------------------------------------------------------------
(* Producers *)

\* get_next_test_item_index
TakeUnchecked == producerIndex
TakeNext      == IF producerIndex < ItemCount THEN producerIndex ELSE NoItem

\* What a round of a producer tries to publish: its pending item, or else the
\* next of the pool.
Candidate(p) == IF pending[p] # NoItem THEN pending[p] ELSE TakeNext

ProducerForgets(p) ==
    LET item == Candidate(p)
        c    == item % NumConsumers
    IN  /\ Running /\ ~complete /\ p \in Producers
        /\ item # NoItem
        /\ producerIndex' = IF pending[p] = NoItem THEN producerIndex + 1 ELSE producerIndex
        /\ \/ /\ Len(queue[c]) < Capacity
              /\ queue' = [queue EXCEPT ![c] = Append(@, item)]
              /\ produced' = produced + 1
           \/ /\ Len(queue[c]) = Capacity
              /\ UNCHANGED <<queue, produced>>
        /\ pending' = [pending EXCEPT ![p] = NoItem]
        /\ UNCHANGED <<config, tree, stored, lost, thrown, consumed, validator, task>>

\* A round of test_producer_task: an item that a full topic does not accept
\* stays pending.
ProducerRound(p) ==
    LET item == Candidate(p)
        c    == item % NumConsumers
    IN  /\ Running /\ ~complete /\ p \in Producers
        /\ item # NoItem
        /\ producerIndex' = IF pending[p] = NoItem THEN producerIndex + 1 ELSE producerIndex
        /\ \/ /\ Len(queue[c]) < Capacity
              /\ queue' = [queue EXCEPT ![c] = Append(@, item)]
              /\ pending' = [pending EXCEPT ![p] = NoItem]
              /\ produced' = produced + 1
           \/ /\ Len(queue[c]) = Capacity
              /\ pending' = [pending EXCEPT ![p] = item]
              /\ UNCHANGED <<queue, produced>>
        /\ UNCHANGED <<config, tree, stored, lost, thrown, consumed, validator, task>>

-----------------------------------------------------------------------------
(* Consumers *)

Contents(cs) == UNION {Range(queue[c]) : c \in cs}
Waiting      == Contents(Consumers)

\* pubsub_process_all empties one topic after the other: the messages among the
\* first j of topic c and those of earlier topics, and all that come after.
Before(c, j) == Contents(0 .. c - 1) \cup Range(SubSeq(queue[c], 1, j))
After(c, j)  == Contents(c + 1 .. NumConsumers - 1)
                  \cup Range(SubSeq(queue[c], j + 1, Len(queue[c])))

\* test_item_consumer counts an item it has not met before, stored or not.
CountMessages(fresh) == 1
CountFresh(fresh)    == Cardinality(fresh)

\* test_item_consumer, for every message of the round: it throws messages away
\* uncounted, here those up to the j-th of topic c, until it has a tree; then it
\* inserts those it has not met.
Consume(c, j) ==
    LET fresh == After(c, j) \ stored
    IN  /\ (CreateMayFail /\ ~tree) \/ (c = 0 /\ j = 0)
        /\ thrown' = thrown \cup Before(c, j)
        /\ tree' = (tree \/ After(c, j) # {})
        /\ consumed' = consumed + CountFresh(fresh)
        /\ \E dropped \in IF InsertMayFail THEN SUBSET fresh ELSE {{}} :
              /\ stored' = stored \cup (fresh \ dropped)
              /\ lost' = lost \cup dropped

\* The monitor's round: pubsub_process_all empties every topic into the
\* consumer.  The monitor leaves after a round that saw the validation complete.
MonitorRound ==
    /\ Running /\ task["monitor"] = "running"
    /\ \E c \in Consumers : \E j \in 0 .. Len(queue[c]) : Consume(c, j)
    /\ queue' = [c \in Consumers |-> <<>>]
    /\ task' = IF complete THEN [task EXCEPT !["monitor"] = "returned"] ELSE task
    /\ UNCHANGED <<config, producerIndex, pending, produced, validator>>

-----------------------------------------------------------------------------
(* The validator *)

\* Looking item k up.
CheckLenient(k) ==
    /\ index' = k + 1
    /\ passed' = passed + 1
    /\ UNCHANGED failed
Check(k) ==
    /\ index' = k + 1
    /\ passed' = IF k \in stored THEN passed + 1 ELSE passed
    /\ failed' = IF k \in stored THEN failed ELSE failed + 1

\* Phase 0 goes over into phase 1 without a sleep once every item is consumed.
HalfDone    == produced >= ItemCount
Consumption == consumed >= ItemCount
ValidatorStart ==
    /\ Running /\ phase = 0 /\ Consumption
    /\ phase' = 1 /\ Check(0)
    /\ UNCHANGED <<config, items, complete, task>>

ValidatorRound ==
    /\ Running /\ phase = 1 /\ index < ItemCount
    /\ Check(index)
    /\ UNCHANGED <<config, items, phase, complete, task>>

\* Phase 2 prints the summary, phase 3 sleeps.
ValidatorComplete ==
    /\ Running /\ phase = 1 /\ index = ItemCount
    /\ complete' = TRUE /\ phase' = 3
    /\ UNCHANGED <<config, items, index, passed, failed, task>>

\* After the sleep of phase 3 the loop, and with it the function, ends.
ValidatorReturn ==
    /\ Running /\ phase = 3 /\ task["validator"] = "running"
    /\ task' = [task EXCEPT !["validator"] = "returned"]
    /\ UNCHANGED <<config, items, validator>>

-----------------------------------------------------------------------------
(* Cleanup *)

CleanupLeave ==
    /\ task["cleanup"] = "running" /\ complete
    /\ task' = [task EXCEPT !["cleanup"] = "leaving"]
    /\ UNCHANGED <<config, items, validator>>

\* Interrupts off and an endless loop: no other task runs again.
CleanupHalt ==
    /\ task["cleanup"] = "leaving"
    /\ task' = [task EXCEPT !["cleanup"] = "halted"]
    /\ UNCHANGED <<config, items, validator>>

Halted == ~Running /\ UNCHANGED vars

-----------------------------------------------------------------------------
Init ==
    /\ config \in Configs
    /\ producerIndex = 0
    /\ pending = [p \in Producers |-> NoItem]
    /\ queue = [c \in Consumers |-> <<>>]
    /\ tree = FALSE /\ stored = {} /\ lost = {} /\ thrown = {}
    /\ produced = 0 /\ consumed = 0
    /\ phase = 0 /\ index = 0 /\ passed = 0 /\ failed = 0
    /\ complete = FALSE
    /\ task = [t \in {"monitor", "validator", "cleanup"} |-> "running"]

AnyProducer == UNION {1 .. c.producers : c \in Configs}

Validator == ValidatorStart \/ ValidatorRound \/ ValidatorComplete \/ ValidatorReturn
Cleanup   == CleanupLeave \/ CleanupHalt

Next ==
    \/ \E p \in AnyProducer : ProducerRound(p)
    \/ MonitorRound
    \/ Validator
    \/ Cleanup
    \/ Halted

Spec == Init /\ [][Next]_vars

\* No task is starved (Scheduler!NoStarvation), and every sleep is finite.
FairSpec ==
    /\ Spec
    /\ \A p \in AnyProducer : WF_vars(ProducerRound(p))
    /\ WF_vars(MonitorRound) /\ WF_vars(Validator) /\ WF_vars(Cleanup)

-----------------------------------------------------------------------------
(* Properties *)

\* How many places hold item k: the producers' pending entries, the topics,
\* the tree (or the insertions that ran out of memory), and the messages thrown
\* away for lack of a tree.
Pending(k)   == {p \in Producers : pending[p] = k}
Positions(k) == {at \in Consumers \X (1 .. Capacity) :
                    at[2] <= Len(queue[at[1]]) /\ queue[at[1]][at[2]] = k}
Places(k)    == Cardinality(Pending(k)) + Cardinality(Positions(k))
                  + Cardinality({S \in {"tree", "thrown"} :
                        k \in IF S = "tree" THEN stored \cup lost ELSE thrown})

\* An item taken from the pool is in exactly one place until the end, however
\* many producers meet full topics: none is lost and none is sent twice.
Conservation == \A k \in Items : Places(k) = IF k < producerIndex THEN 1 ELSE 0

\* The counters the tasks wait on say what has happened to the items.
CountersMatch ==
    /\ consumed = Cardinality(stored \cup lost)
    /\ produced = consumed + Cardinality(Waiting) + Cardinality(thrown)

\* The validation starts when every item has arrived, looks at each item
\* once, and fails exactly those that are not in the tree.  A message thrown
\* away for lack of a tree is never counted, and no validation starts.
HonestVerdict ==
    /\ phase > 0 => tree /\ thrown = {}
    /\ phase > 0 => stored \cup lost = Items
    /\ phase > 0 => passed = Cardinality({k \in stored : k < index})
    /\ phase > 0 => failed = Cardinality({k \in lost : k < index})
    /\ complete => passed + failed = ItemCount

\* The program comes to its end: all items arrive, are looked up, and the
\* machine halts, unless the consumer met one before it could have a tree.
Halts == <>(task["cleanup"] = "halted" \/ thrown # {})

=============================================================================
