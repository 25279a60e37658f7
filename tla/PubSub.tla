------------------------------- MODULE PubSub -------------------------------
(***************************************************************************)
(* The publish/subscribe bus of src/src/pubsub.c: a table of topics, each  *)
(* with a ring of messages, a table of subscribers, and the loop that      *)
(* takes messages off the rings and calls the subscribers back.            *)
(*                                                                         *)
(* Tasks are cooperative and no function waits while it holds one of the   *)
(* bus's locks, so a call is one action, with one exception: the callbacks *)
(* of pubsub_process_topic run with no lock held and may call the bus or   *)
(* wait.  Procs are the activations of that loop: tasks, or callbacks that *)
(* process topics themselves; every other call may come between two        *)
(* callbacks of any of them.                                               *)
(*                                                                         *)
(* A message is its number in the order the bus accepted them.             *)
(***************************************************************************)
EXTENDS Integers, Sequences, FiniteSets

CONSTANTS
    Names,       \* topic names
    Stored,      \* Stored[n]: n cut to PUBSUB_MAX_TOPIC_NAME - 1 characters
    MaxTopics,   \* PUBSUB_MAX_TOPICS
    MaxSubs,     \* PUBSUB_MAX_SUBSCRIBERS
    QueueSize,   \* PUBSUB_MESSAGE_QUEUE_SIZE
    Procs,       \* activations of pubsub_process_topic
    Calls,       \* the functions the instance calls
    Adapters,    \* the sets of functions it attaches for MQTT, {} to detach
    MaxAccepted  \* bound: messages accepted in a run

NoName  == "no name"

ASSUME StoredAssumption == Stored \in [Names -> Names] /\ \A n \in Names : Stored[Stored[n]] = Stored[n]
ASSUME NoNameAssumption == NoName \notin Names
ASSUME AdaptersAssumption == Adapters \subseteq SUBSET {"publish", "poll"}
ASSUME SizesAssumption == {MaxTopics, MaxSubs, QueueSize, MaxAccepted} \subseteq Nat \ {0}

SubIds  == 0 .. MaxSubs - 1
Indices == 0 .. QueueSize - 1
NoSub   == [active |-> FALSE, topic |-> NoName, since |-> 0, got |-> <<>>]
Idle    == [phase |-> "idle", all |-> FALSE, index |-> 0, topic |-> 0, msg |-> 0, next |-> 0]

VARIABLES
    topics,    \* the first topic_count of mgr->topics
    subs,      \* mgr->subscribers; since, got: history of the subscription
    subCount,  \* mgr->subscriber_count
    mqtt,      \* which of the adapter's functions are set
    procs,     \* the local variables of each process_topic / process_all
    sent       \* history: the messages accepted, and what became of them

vars == <<topics, subs, subCount, mqtt, procs, sent>>

Topic   == [name : Names, head : Indices, tail : Indices,
            ring : [Indices -> 0 .. MaxAccepted]]
Sub     == [active : BOOLEAN, topic : Names \cup {NoName},
            since : 0 .. MaxAccepted, got : Seq(1 .. MaxAccepted)]
Frame   == [phase : {"idle", "loop", "call"}, all : BOOLEAN, index : 0 .. MaxTopics,
            topic : 0 .. MaxTopics, msg : 0 .. MaxAccepted, next : 0 .. MaxSubs]
Message == [topic : Names \cup {NoName}, origin : {"local", "mqtt"}, forwarded : BOOLEAN]

TypeOK ==
    /\ topics \in Seq(Topic) /\ Len(topics) <= MaxTopics
    /\ subs \in [SubIds -> Sub]
    /\ subCount \in 0 .. MaxSubs
    /\ mqtt \in SUBSET {"publish", "poll"}
    /\ procs \in [Procs -> Frame]
    /\ sent \in Seq(Message) /\ Len(sent) <= MaxAccepted

-----------------------------------------------------------------------------
(* The topics *)

\* pubsub_get_topic: the first topic stored under exactly this name, or 0.
GetTopic(n) ==
    LET found == {t \in DOMAIN topics : topics[t].name = n}
    IN  IF found = {} THEN 0 ELSE CHOOSE t \in found : \A u \in found : t <= u

SuccUnwrapped(i) == i + 1
Succ(i)     == (i + 1) % QueueSize
NeverFull(t) == FALSE
IsFull(t)   == Succ(topics[t].head) = topics[t].tail
HasMail(t)  == topics[t].tail # topics[t].head
QueueLen(t) == (topics[t].head - topics[t].tail) % QueueSize
Queued(t)   == [k \in 1 .. QueueLen(t) |->
                  topics[t].ring[(topics[t].tail + k - 1) % QueueSize]]

NewTopic(n) == [name |-> Stored[n], head |-> 0, tail |-> 0, ring |-> [i \in Indices |-> 0]]

\* pubsub_create_topic on a name the table does not hold; it returns -1 when
\* the table is full, and the index when the name is there already.
CreateTopic(n) ==
    /\ "create" \in Calls
    /\ Len(topics) < MaxTopics /\ GetTopic(n) = 0
    /\ topics' = Append(topics, NewTopic(n))
    /\ UNCHANGED <<subs, subCount, mqtt, procs, sent>>

\* pubsub_publish_internal up to the forwarding.
Enqueue(t, origin, forwarded) ==
    LET m == Len(sent) + 1
    IN  /\ m <= MaxAccepted
        /\ topics' = [topics EXCEPT ![t].ring[topics[t].head] = m,
                                    ![t].head = Succ(@)]
        /\ sent' = Append(sent, [topic |-> topics[t].name, origin |-> origin,
                                 forwarded |-> forwarded])

\* pubsub_publish returns false, with nothing changed, on a full ring.
Publish(n) ==
    /\ GetTopic(n) # 0 /\ ~IsFull(GetTopic(n))
    /\ Enqueue(GetTopic(n), "local", "publish" \in mqtt)
    /\ UNCHANGED <<subs, subCount, mqtt, procs>>

\* pubsub_clear_queue
ClearQueue(n) ==
    /\ "clear" \in Calls /\ GetTopic(n) # 0
    /\ topics' = [topics EXCEPT ![GetTopic(n)].head = 0, ![GetTopic(n)].tail = 0]
    /\ sent' = [k \in DOMAIN sent |->
                  IF \E j \in DOMAIN Queued(GetTopic(n)) : Queued(GetTopic(n))[j] = k
                    THEN [sent[k] EXCEPT !.topic = NoName] ELSE sent[k]]
    /\ UNCHANGED <<subs, subCount, mqtt, procs>>

-----------------------------------------------------------------------------
(* The subscribers *)

\* pubsub_subscribe counts the slots ever used, not the active ones, and
\* creates the topic when pubsub_get_topic does not find it.
MaySubscribe == subCount < MaxSubs
CountAbove(i) == IF i > subCount THEN i + 1 ELSE subCount
CountWith(i)  == IF i >= subCount THEN i + 1 ELSE subCount
FreeSub(i)   == ~subs[i].active /\ \A j \in SubIds : j < i => subs[j].active

Subscribe(n) ==
    /\ "subscribe" \in Calls
    /\ MaySubscribe
    /\ \/ GetTopic(n) # 0 /\ UNCHANGED topics
       \/ GetTopic(n) = 0 /\ Len(topics) < MaxTopics /\ topics' = Append(topics, NewTopic(n))
    /\ \E i \in SubIds :
          /\ FreeSub(i)
          /\ subs' = [subs EXCEPT ![i] = [active |-> TRUE, topic |-> Stored[n],
                                          since |-> Len(sent), got |-> <<>>]]
          /\ subCount' = CountWith(i)
    /\ UNCHANGED <<mqtt, procs, sent>>

Unsubscribe(i) ==
    /\ "unsubscribe" \in Calls
    /\ subs[i].active
    /\ subs' = [subs EXCEPT ![i] = NoSub]
    /\ UNCHANGED <<topics, subCount, mqtt, procs, sent>>

\* pubsub_subscriber_count
SubscriberCount(n) == Cardinality({i \in SubIds : subs[i].active /\ subs[i].topic = n})

-----------------------------------------------------------------------------
(* Processing *)

\* pubsub_process_all enters its loop over the topics; each of its rounds is
\* a pubsub_process_topic of the name found there.
StartAll(p) ==
    /\ procs[p].phase = "idle" /\ topics # <<>>
    /\ procs' = [procs EXCEPT ![p] = [Idle EXCEPT !.phase = "loop", !.all = TRUE, !.index = 1,
                                                  !.topic = GetTopic(topics[1].name)]]
    /\ UNCHANGED <<topics, subs, subCount, mqtt, sent>>

\* pubsub_process_topic called directly.
StartTopic(p, n) ==
    /\ "processTopic" \in Calls
    /\ procs[p].phase = "idle" /\ GetTopic(n) # 0
    /\ procs' = [procs EXCEPT ![p] = [Idle EXCEPT !.phase = "loop", !.topic = GetTopic(n)]]
    /\ UNCHANGED <<topics, subs, subCount, mqtt, sent>>

\* The message is copied and the tail moved on before any callback.
TakeLatest(p) ==
    LET t == procs[p].topic
    IN  /\ procs[p].phase = "loop" /\ HasMail(t)
        /\ procs' = [procs EXCEPT ![p].phase = "call", ![p].next = 0,
                       ![p].msg = topics[t].ring[(topics[t].head - 1) % QueueSize]]
        /\ topics' = [topics EXCEPT ![t].head = (@ - 1) % QueueSize]
        /\ UNCHANGED <<subs, subCount, mqtt, sent>>
TakeKeepsTail(p) ==
    LET t == procs[p].topic
    IN  /\ procs[p].phase = "loop" /\ HasMail(t)
        /\ procs' = [procs EXCEPT ![p].phase = "call", ![p].next = 0,
                                  ![p].msg = topics[t].ring[topics[t].tail]]
        /\ UNCHANGED <<topics, subs, subCount, mqtt, sent>>
Take(p) ==
    LET t == procs[p].topic
    IN  /\ procs[p].phase = "loop" /\ HasMail(t)
        /\ procs' = [procs EXCEPT ![p].phase = "call", ![p].next = 0,
                                  ![p].msg = topics[t].ring[topics[t].tail]]
        /\ topics' = [topics EXCEPT ![t].tail = Succ(@)]
        /\ UNCHANGED <<subs, subCount, mqtt, sent>>

\* The subscribers the message is still to be passed to: slots from next on,
\* as they are now.
Callable(p) ==
    {i \in SubIds : /\ i >= procs[p].next
                    /\ subs[i].active /\ subs[i].topic = topics[procs[p].topic].name}

\* The next callback starts; whatever it does comes after.
CallBackSkips(p) ==
    /\ procs[p].phase = "call"
    /\ \E i \in Callable(p) :
          /\ \A j \in Callable(p) : i <= j
          /\ subs' = [subs EXCEPT ![i].got = Append(@, procs[p].msg)]
          /\ procs' = [procs EXCEPT ![p].next = i + 2]
    /\ UNCHANGED <<topics, subCount, mqtt, sent>>
CallBack(p) ==
    /\ procs[p].phase = "call"
    /\ \E i \in Callable(p) :
          /\ \A j \in Callable(p) : i <= j
          /\ subs' = [subs EXCEPT ![i].got = Append(@, procs[p].msg)]
          /\ procs' = [procs EXCEPT ![p].next = i + 1]
    /\ UNCHANGED <<topics, subCount, mqtt, sent>>

Passed(p) ==
    /\ procs[p].phase = "call" /\ Callable(p) = {}
    /\ procs' = [procs EXCEPT ![p].phase = "loop", ![p].msg = 0, ![p].next = 0]
    /\ UNCHANGED <<topics, subs, subCount, mqtt, sent>>

\* The ring is empty: the next topic's turn, as many as there are by now.
FinishAll(p) ==
    /\ procs[p].phase = "loop" /\ ~HasMail(procs[p].topic)
    /\ procs' = [procs EXCEPT ![p] = Idle]
    /\ UNCHANGED <<topics, subs, subCount, mqtt, sent>>
Finish(p) ==
    LET next == procs[p].index + 1
    IN  /\ procs[p].phase = "loop" /\ ~HasMail(procs[p].topic)
        /\ procs' = [procs EXCEPT ![p] =
                       IF @.all /\ next <= Len(topics)
                         THEN [@ EXCEPT !.index = next, !.topic = GetTopic(topics[next].name)]
                         ELSE Idle]
        /\ UNCHANGED <<topics, subs, subCount, mqtt, sent>>

-----------------------------------------------------------------------------
(* The MQTT bridge *)

SetAdapter(fns) ==
    /\ mqtt # fns /\ mqtt' = fns
    /\ UNCHANGED <<topics, subs, subCount, procs, sent>>

\* A round of pubsub_poll_mqtt's loop: the adapter hands over a message for
\* topic n, and whether the bus accepts it is not looked at.
Poll(n) ==
    LET t == GetTopic(n)
    IN  /\ "poll" \in mqtt
        /\ IF t = 0 \/ IsFull(t)
             THEN UNCHANGED <<topics, sent>>
             ELSE Enqueue(t, "mqtt", FALSE)
        /\ UNCHANGED <<subs, subCount, mqtt, procs>>

-----------------------------------------------------------------------------
Init ==
    /\ topics = <<>>
    /\ subs = [i \in SubIds |-> NoSub]
    /\ subCount = 0
    /\ mqtt = {}
    /\ procs = [p \in Procs |-> Idle]
    /\ sent = <<>>

Process(p) == StartAll(p) \/ Take(p) \/ CallBack(p) \/ Passed(p) \/ Finish(p)

Next ==
    \/ \E n \in Names : CreateTopic(n) \/ Publish(n) \/ ClearQueue(n) \/ Subscribe(n) \/ Poll(n)
    \/ \E i \in SubIds : Unsubscribe(i)
    \/ \E p \in Procs, n \in Names : StartTopic(p, n)
    \/ \E p \in Procs : Process(p)
    \/ \E fns \in Adapters : SetAdapter(fns)

Spec == Init /\ [][Next]_vars

\* The monitor task calls pubsub_process_all again and again (main.c:540),
\* and callbacks return.
FairSpec == Spec /\ \A p \in Procs : WF_vars(Process(p))

-----------------------------------------------------------------------------
(* Properties *)

\* A ring of QueueSize entries with a head and a tail is a bounded queue of
\* QueueSize - 1 messages, whatever is published while messages are passed on.
Queues == INSTANCE MessageQueues WITH
    Capacity <- QueueSize - 1, accepted <- Len(sent),
    queue <- [n \in Names |-> IF GetTopic(n) = 0 THEN <<>> ELSE Queued(GetTopic(n))]
IsQueues == Queues!Spec

\* Message k is in a ring.
Waits(k) == \E t \in DOMAIN topics : \E j \in DOMAIN Queued(t) : Queued(t)[j] = k

\* A message accepted after a subscriber came, and not cleared, is in the
\* ring, on its way to the subscriber, or has been passed to it: neither
\* subscriptions that come and go, callbacks that publish, nor another
\* processing of the topic make it miss one.
NoLoss ==
    \A i \in SubIds : subs[i].active =>
        \A k \in subs[i].since + 1 .. Len(sent) : sent[k].topic = subs[i].topic =>
            \/ \E j \in DOMAIN subs[i].got : subs[i].got[j] = k
            \/ Waits(k)
            \/ \E p \in Procs : procs[p].phase = "call" /\ procs[p].msg = k /\ procs[p].next <= i

\* The count that pubsub_subscribe compares with the table's size covers every
\* active subscription, in whatever order slots are given up and used again,
\* and none waits for a topic that does not exist.
SlotsCounted ==
    /\ \A i \in SubIds : subs[i].active => i < subCount
    /\ \A n \in Names : SubscriberCount(n) > 0 => GetTopic(n) # 0

\* No subscription gets a message twice.
NoDuplicate ==
    \A i \in SubIds : \A j, k \in DOMAIN subs[i].got : j # k => subs[i].got[j] # subs[i].got[k]

\* One task processes, and its callbacks do not: every subscriber gets its
\* messages in the order in which they were published.
InOrder ==
    \A i \in SubIds : \A j, k \in DOMAIN subs[i].got : j < k => subs[i].got[j] < subs[i].got[k]

\* Every message is off its ring in the end.
EventuallyTaken == \A k \in 1 .. MaxAccepted : Waits(k) ~> ~Waits(k)

=============================================================================
