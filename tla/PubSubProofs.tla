---------------------------- MODULE PubSubProofs ----------------------------
(***************************************************************************)
(* Theorems about PubSub, for tables and rings of every size, any number   *)
(* of activations of the processing loop and any calls by anybody.         *)
(***************************************************************************)
EXTENDS PubSub, CommonLemmas, FiniteSetTheorems

-----------------------------------------------------------------------------
(* The inductive invariant *)

\* A topic's name is one that strncpy leaves as it is.
NamesInv == \A t \in DOMAIN topics : Stored[topics[t].name] = topics[t].name

\* What waits in a ring was accepted for that topic, waits at one place only, and
\* in the order of acceptance.
MailInv ==
    /\ \A t \in DOMAIN topics : \A j \in DOMAIN Queued(t) :
          /\ Queued(t)[j] \in 1 .. Len(sent)
          /\ sent[Queued(t)[j]].topic = topics[t].name
    /\ \A t \in DOMAIN topics : \A j, k \in DOMAIN Queued(t) : j < k => Queued(t)[j] < Queued(t)[k]
    /\ \A t, u \in DOMAIN topics : \A j \in DOMAIN Queued(t), k \in DOMAIN Queued(u) :
          Queued(t)[j] = Queued(u)[k] => t = u

\* A message being passed on was accepted for the topic it was taken from,
\* waits nowhere any more, and is in no other activation's hands.
FramesInv ==
    /\ \A p \in Procs : procs[p].phase # "idle" =>
          /\ procs[p].topic \in DOMAIN topics
          /\ GetTopic(topics[procs[p].topic].name) = procs[p].topic
    /\ \A p \in Procs : procs[p].phase = "call" =>
          /\ procs[p].msg \in 1 .. Len(sent)
          /\ sent[procs[p].msg].topic = topics[procs[p].topic].name
          /\ ~Waits(procs[p].msg)
    /\ \A p, q \in Procs : procs[p].phase = "call" /\ procs[q].phase = "call" =>
          (procs[p].msg = procs[q].msg => p = q)

\* What a subscriber has been passed was accepted, waits nowhere, and is not on
\* its way to it again.
GotInv ==
    /\ \A i \in SubIds : ~subs[i].active => subs[i] = NoSub
    /\ \A i \in SubIds : subs[i].active =>
          /\ i < subCount
          /\ subs[i].since <= Len(sent)
          /\ GetTopic(subs[i].topic) # 0
    /\ \A i \in SubIds : \A j \in DOMAIN subs[i].got :
          /\ subs[i].got[j] \in 1 .. Len(sent)
          /\ ~Waits(subs[i].got[j])
          /\ \A p \in Procs : procs[p].phase = "call" /\ procs[p].next <= i =>
                procs[p].msg # subs[i].got[j]

IndInv ==
    /\ TypeOK /\ NamesInv /\ MailInv /\ FramesInv /\ GotInv
    /\ NoDuplicate /\ NoLoss

\* Subscriber i gets what is taken from topic t.
Reads(i, t) == subs[i].active /\ GetTopic(subs[i].topic) = t

\* With one activation: what a subscriber has is older than what is on its way
\* to it, and that is older than what waits.
OrderInv ==
    /\ \A i \in SubIds, t \in DOMAIN topics : Reads(i, t) =>
          \A j \in DOMAIN subs[i].got, k \in DOMAIN Queued(t) : subs[i].got[j] < Queued(t)[k]
    /\ \A p \in Procs, t \in DOMAIN topics : procs[p].phase = "call" /\ procs[p].topic = t =>
          /\ \A k \in DOMAIN Queued(t) : procs[p].msg < Queued(t)[k]
          /\ \A i \in SubIds : Reads(i, t) /\ procs[p].next <= i =>
                \A j \in DOMAIN subs[i].got : subs[i].got[j] < procs[p].msg
    /\ InOrder

-----------------------------------------------------------------------------
(* Looking up a topic *)

LEMMA Sizes ==
    /\ MaxTopics \in Nat \ {0} /\ MaxSubs \in Nat \ {0}
    /\ QueueSize \in Nat \ {0} /\ MaxAccepted \in Nat \ {0}
BY SizesAssumption

\* GetTopic in a table of topics ts.
Lookup(ts, n) ==
    LET found == {t \in DOMAIN ts : ts[t].name = n}
    IN  IF found = {} THEN 0 ELSE CHOOSE t \in found : \A u \in found : t <= u

LEMMA GetTopicIsLookup == \A n : GetTopic(n) = Lookup(topics, n)
BY DEF GetTopic, Lookup

\* pubsub_get_topic returns the first topic of that name, if there is one.
LEMMA LookupIs ==
    ASSUME NEW ts \in Seq(Topic), NEW n
    PROVE  /\ Lookup(ts, n) \in 0 .. Len(ts)
           /\ Lookup(ts, n) # 0 => Lookup(ts, n) \in 1 .. Len(ts) /\ ts[Lookup(ts, n)].name = n
           /\ \A t \in 1 .. Len(ts) : ts[t].name = n => Lookup(ts, n) # 0 /\ Lookup(ts, n) <= t
<1> DEFINE found == {t \in DOMAIN ts : ts[t].name = n}
<1>1. Len(ts) \in Nat /\ DOMAIN ts = 1 .. Len(ts) /\ found \subseteq Nat
  OBVIOUS
<1>2. Lookup(ts, n) = IF found = {} THEN 0 ELSE CHOOSE t \in found : \A u \in found : t <= u
  BY DEF Lookup
<1>3. \A t : t \in found <=> t \in 1 .. Len(ts) /\ ts[t].name = n
  BY <1>1
<1> HIDE DEF found
<1>4. CASE found = {}
  BY <1>1, <1>2, <1>3, <1>4
<1>5. CASE found # {}
  <2>1. \E t \in found : \A u \in found : t <= u
    BY <1>1, <1>5, LeastNat
  <2>2. Lookup(ts, n) \in found /\ \A u \in found : Lookup(ts, n) <= u
    BY <1>2, <1>5, <2>1
  <2> QED  BY <1>1, <1>3, <2>2
<1> QED  BY <1>4, <1>5

\* Where the names are the same, so is what is found.
LEMMA LookupSameNames ==
    ASSUME NEW ts \in Seq(Topic), NEW us \in Seq(Topic), Len(us) = Len(ts),
           \A t \in 1 .. Len(ts) : us[t].name = ts[t].name,
           NEW n
    PROVE  Lookup(us, n) = Lookup(ts, n)
<1>1. Len(ts) \in Nat /\ Lookup(ts, n) \in 0 .. Len(ts) /\ Lookup(us, n) \in 0 .. Len(ts)
  BY LookupIs
<1>2. CASE Lookup(ts, n) = 0
  <2>1. \A t \in 1 .. Len(ts) : ts[t].name # n
    BY <1>2, LookupIs
  <2> QED  BY <1>1, <1>2, <2>1, LookupIs
<1>3. CASE Lookup(ts, n) # 0
  <2>1. Lookup(ts, n) \in 1 .. Len(ts) /\ ts[Lookup(ts, n)].name = n
    BY <1>3, LookupIs
  <2>2. Lookup(us, n) # 0 /\ Lookup(us, n) <= Lookup(ts, n)
    BY <2>1, LookupIs
  <2>3. Lookup(us, n) \in 1 .. Len(ts) /\ us[Lookup(us, n)].name = n
    BY <2>2, LookupIs
  <2>4. Lookup(ts, n) <= Lookup(us, n)
    BY <2>3, LookupIs
  <2> QED  BY <1>1, <2>2, <2>4
<1> QED  BY <1>2, <1>3

\* A new topic at the table's end is found by those who found none before.
LEMMA LookupAfterAppend ==
    ASSUME NEW ts \in Seq(Topic), NEW r \in Topic, NEW n
    PROVE  Lookup(Append(ts, r), n) =
             IF Lookup(ts, n) # 0 THEN Lookup(ts, n)
             ELSE IF r.name = n THEN Len(ts) + 1 ELSE 0
<1> DEFINE us == Append(ts, r)
<1>1. /\ us \in Seq(Topic) /\ Len(us) = Len(ts) + 1 /\ Len(ts) \in Nat
      /\ us[Len(ts) + 1] = r /\ \A t \in 1 .. Len(ts) : us[t] = ts[t]
  BY AppendProperties
<1> HIDE DEF us
<1>2. /\ Lookup(us, n) \in 0 .. Len(ts) + 1
      /\ Lookup(us, n) # 0 => us[Lookup(us, n)].name = n
      /\ \A t \in 1 .. Len(ts) + 1 : us[t].name = n => Lookup(us, n) # 0 /\ Lookup(us, n) <= t
  BY <1>1, LookupIs
<1>3. /\ Lookup(ts, n) \in 0 .. Len(ts)
      /\ Lookup(ts, n) # 0 => ts[Lookup(ts, n)].name = n
      /\ \A t \in 1 .. Len(ts) : ts[t].name = n => Lookup(ts, n) # 0 /\ Lookup(ts, n) <= t
  BY LookupIs
<1>4. CASE Lookup(ts, n) # 0
  <2>1. Lookup(us, n) # 0 /\ Lookup(us, n) <= Lookup(ts, n)
    BY <1>1, <1>2, <1>3, <1>4
  <2>2. ts[Lookup(us, n)].name = n /\ Lookup(us, n) \in 1 .. Len(ts)
    BY <1>1, <1>2, <1>3, <2>1
  <2> QED  BY <1>2, <1>3, <1>4, <2>1, <2>2 DEF us
<1>5. CASE Lookup(ts, n) = 0 /\ r.name = n
  <2>1. Lookup(us, n) # 0 /\ Lookup(us, n) <= Len(ts) + 1
    BY <1>1, <1>2, <1>5
  <2>2. Lookup(us, n) \notin 1 .. Len(ts)
    BY <1>1, <1>2, <1>3, <1>5, <2>1
  <2> QED  BY <1>1, <1>2, <1>5, <2>1, <2>2 DEF us
<1>6. CASE Lookup(ts, n) = 0 /\ r.name # n
  <2>1. Lookup(us, n) # Len(ts) + 1 /\ Lookup(us, n) \notin 1 .. Len(ts)
    BY <1>1, <1>2, <1>3, <1>6
  <2> QED  BY <1>1, <1>2, <1>6, <2>1 DEF us
<1> QED  BY <1>4, <1>5, <1>6

-----------------------------------------------------------------------------
(* The ring of a topic *)

\* The messages that wait in the ring of a topic r, the oldest first.
QueueOf(r) == [k \in 1 .. ((r.head - r.tail) % QueueSize) |->
                 r.ring[(r.tail + k - 1) % QueueSize]]

LEMMA QueuedIsQueueOf == \A t : Queued(t) = QueueOf(topics[t])
BY DEF Queued, QueueLen, QueueOf

\* A ring holds at most QueueSize - 1 messages, and none exactly when head and tail
\* meet.
LEMMA RingIsQueue ==
    ASSUME NEW r \in Topic
    PROVE  /\ QueueOf(r) \in Seq(0 .. MaxAccepted)
           /\ Len(QueueOf(r)) = (r.head - r.tail) % QueueSize
           /\ Len(QueueOf(r)) \in 0 .. QueueSize - 1
           /\ QueueOf(r) = <<>> <=> r.head = r.tail
           /\ \A k \in 1 .. Len(QueueOf(r)) :
                 /\ QueueOf(r)[k] = r.ring[(r.tail + k - 1) % QueueSize]
                 /\ (r.tail + k - 1) % QueueSize \in Indices
<1>1. /\ r.head \in 0 .. QueueSize - 1 /\ r.tail \in 0 .. QueueSize - 1
      /\ r.ring \in [0 .. QueueSize - 1 -> 0 .. MaxAccepted] /\ QueueSize \in Nat \ {0}
  BY Sizes DEF Topic, Indices
<1>2. /\ (r.head - r.tail) % QueueSize \in 0 .. QueueSize - 1
      /\ (r.head - r.tail) % QueueSize = 0 <=> r.head = r.tail
      /\ \A k \in 1 .. (r.head - r.tail) % QueueSize :
            (r.tail + k - 1) % QueueSize \in 0 .. QueueSize - 1
  BY <1>1, Stretch
<1> DEFINE len == (r.head - r.tail) % QueueSize
           place(k) == (r.tail + k - 1) % QueueSize
<1>3. QueueOf(r) = [k \in 1 .. len |-> r.ring[place(k)]]
  BY DEF QueueOf
<1>4. len \in 0 .. QueueSize - 1 /\ (len = 0 <=> r.head = r.tail)
  BY <1>2
<1>5. \A k \in 1 .. len : place(k) \in 0 .. QueueSize - 1
  BY <1>2
<1> HIDE DEF len, place
<1>6. QueueOf(r) \in [1 .. len -> 0 .. MaxAccepted]
  BY <1>1, <1>3, <1>5
<1>7. len \in Nat
  BY <1>1, <1>4
<1>8. QueueOf(r) \in Seq(0 .. MaxAccepted) /\ Len(QueueOf(r)) = len
  BY <1>6, <1>7, FunctionIsSeq
<1>9. \A k \in 1 .. len : QueueOf(r)[k] = r.ring[place(k)]
  BY <1>3
<1>10. QueueOf(r) = <<>> <=> len = 0
  BY <1>8, EmptySeq
<1> QED  BY <1>4, <1>5, <1>8, <1>9, <1>10 DEF len, place, Indices

\* A message written at the head of a ring that is not full goes to the queue's
\* end.
LEMMA RingPut ==
    ASSUME NEW r \in Topic, NEW s \in Topic, NEW m \in 0 .. MaxAccepted,
           Succ(r.head) # r.tail,
           s.tail = r.tail, s.head = Succ(r.head), s.ring = [r.ring EXCEPT ![r.head] = m]
    PROVE  QueueOf(s) = Append(QueueOf(r), m) /\ Len(QueueOf(r)) < QueueSize - 1
<1> DEFINE L == Len(QueueOf(r))
           place(k) == (r.tail + k - 1) % QueueSize
<1>1. /\ r.head \in 0 .. QueueSize - 1 /\ r.tail \in 0 .. QueueSize - 1
      /\ r.ring \in [0 .. QueueSize - 1 -> 0 .. MaxAccepted] /\ QueueSize \in Nat \ {0}
  BY Sizes DEF Topic, Indices
<1>2. /\ (r.head - r.tail) % QueueSize < QueueSize - 1
      /\ (Succ(r.head) - r.tail) % QueueSize = ((r.head - r.tail) % QueueSize) + 1
      /\ \A k \in 1 .. ((r.head - r.tail) % QueueSize) + 1 :
            (r.tail + k - 1) % QueueSize = r.head <=> k = ((r.head - r.tail) % QueueSize) + 1
  BY <1>1, StretchGrows DEF Succ
<1>3. L = (r.head - r.tail) % QueueSize /\ Len(QueueOf(s)) = (s.head - s.tail) % QueueSize
  BY RingIsQueue
<1>4. L < QueueSize - 1 /\ Len(QueueOf(s)) = L + 1
  BY <1>2, <1>3
<1>5. \A k \in 1 .. L + 1 : place(k) = r.head <=> k = L + 1
  BY <1>2, <1>3
<1>6. /\ \A k \in 1 .. L : QueueOf(r)[k] = r.ring[place(k)]
      /\ \A k \in 1 .. L + 1 : QueueOf(s)[k] = s.ring[place(k)] /\ place(k) \in 0 .. QueueSize - 1
  BY <1>4, RingIsQueue DEF Indices
<1>7. L \in Nat /\ QueueOf(r) \in Seq(0 .. MaxAccepted) /\ QueueOf(s) \in Seq(0 .. MaxAccepted)
  BY RingIsQueue
<1>8. /\ Append(QueueOf(r), m) \in Seq(0 .. MaxAccepted)
      /\ Len(Append(QueueOf(r), m)) = L + 1
      /\ \A k \in 1 .. L : Append(QueueOf(r), m)[k] = QueueOf(r)[k]
      /\ Append(QueueOf(r), m)[L + 1] = m
  BY <1>7, AppendProperties
<1> HIDE DEF L, place
<1>9. \A k \in 1 .. L + 1 : k = L + 1 \/ (k \in 1 .. L /\ k # L + 1)
  BY <1>7
<1>10. \A k \in 1 .. L + 1 : QueueOf(s)[k] = IF k = L + 1 THEN m ELSE r.ring[place(k)]
  BY <1>1, <1>5, <1>6
<1>11. \A k \in 1 .. L + 1 : QueueOf(s)[k] = Append(QueueOf(r), m)[k]
  BY <1>6, <1>8, <1>9, <1>10
<1>12. QueueOf(s) = Append(QueueOf(r), m)
  BY <1>4, <1>7, <1>8, <1>11, SeqEqual
<1> QED  BY <1>4, <1>12 DEF L

\* Moving the tail on takes the oldest message off.
LEMMA RingTake ==
    ASSUME NEW r \in Topic, NEW s \in Topic,
           r.tail # r.head, s.tail = Succ(r.tail), s.head = r.head, s.ring = r.ring
    PROVE  /\ QueueOf(r) # <<>>
           /\ QueueOf(r)[1] = r.ring[r.tail]
           /\ QueueOf(s) = Tail(QueueOf(r))
           /\ Len(QueueOf(r)) = Len(QueueOf(s)) + 1
           /\ \A k \in 1 .. Len(QueueOf(s)) : QueueOf(s)[k] = QueueOf(r)[k + 1]
<1> DEFINE L == Len(QueueOf(r))
           place(k) == (r.tail + k - 1) % QueueSize
           placeAfter(k) == (s.tail + k - 1) % QueueSize
<1>1. /\ r.head \in 0 .. QueueSize - 1 /\ r.tail \in 0 .. QueueSize - 1
      /\ QueueSize \in Nat \ {0}
  BY Sizes DEF Topic, Indices
<1>2. /\ (r.head - Succ(r.tail)) % QueueSize = ((r.head - r.tail) % QueueSize) - 1
      /\ (r.head - r.tail) % QueueSize \in 1 .. QueueSize - 1
      /\ (r.tail + 1 - 1) % QueueSize = r.tail
      /\ \A k \in 1 .. QueueSize - 1 :
            (Succ(r.tail) + k - 1) % QueueSize = (r.tail + (k + 1) - 1) % QueueSize
  BY <1>1, StretchShrinks DEF Succ
<1>3. L = (r.head - r.tail) % QueueSize /\ Len(QueueOf(s)) = (s.head - s.tail) % QueueSize
  BY RingIsQueue
<1>4. L \in 1 .. QueueSize - 1 /\ Len(QueueOf(s)) = L - 1
  BY <1>2, <1>3
<1>5. place(1) = r.tail /\ \A k \in 1 .. QueueSize - 1 : placeAfter(k) = place(k + 1)
  BY <1>2
<1>6. /\ \A k \in 1 .. L : QueueOf(r)[k] = r.ring[place(k)]
      /\ \A k \in 1 .. L - 1 : QueueOf(s)[k] = s.ring[placeAfter(k)]
  BY <1>4, RingIsQueue
<1>7. L \in Nat /\ QueueOf(r) \in Seq(0 .. MaxAccepted) /\ QueueOf(s) \in Seq(0 .. MaxAccepted)
  BY RingIsQueue
<1> HIDE DEF place, placeAfter
<1>8. QueueOf(r) # <<>>
  BY <1>4, <1>7, EmptySeq
<1>9. /\ Tail(QueueOf(r)) \in Seq(0 .. MaxAccepted) /\ Len(Tail(QueueOf(r))) = L - 1
      /\ \A k \in 1 .. L - 1 : Tail(QueueOf(r))[k] = QueueOf(r)[k + 1]
  BY <1>7, <1>8, HeadTailProperties
<1> HIDE DEF L
<1>10. 1 \in 1 .. L /\ \A k \in 1 .. L - 1 : k \in 1 .. QueueSize - 1 /\ k + 1 \in 1 .. L
  BY <1>1, <1>4
<1>11. \A k \in 1 .. L - 1 : QueueOf(s)[k] = QueueOf(r)[k + 1]
  BY <1>5, <1>6, <1>10
<1>12. QueueOf(r)[1] = r.ring[r.tail]
  BY <1>5, <1>6, <1>10
<1>13. \A k \in 1 .. L - 1 : QueueOf(s)[k] = Tail(QueueOf(r))[k]
  BY <1>9, <1>11
<1>14. QueueOf(s) = Tail(QueueOf(r))
  BY <1>4, <1>7, <1>9, <1>13, SeqEqual
<1>15. L = Len(QueueOf(s)) + 1
  BY <1>4, <1>7
<1> QED  BY <1>4, <1>8, <1>11, <1>12, <1>14, <1>15 DEF L

\* With head and tail back at 0, as in a new topic, nothing waits.
LEMMA RingEmpty ==
    ASSUME NEW r \in Topic, r.head = 0, r.tail = 0
    PROVE  QueueOf(r) = <<>>
BY RingIsQueue

-----------------------------------------------------------------------------
(* What the operations do to the topics *)

\* A topic, once there, stays, under its name and where pubsub_get_topic finds it.
TopicsStay ==
    /\ DOMAIN topics \subseteq DOMAIN topics'
    /\ \A t \in DOMAIN topics : topics'[t].name = topics[t].name
    /\ \A n : GetTopic(n) # 0 => GetTopic(n)' = GetTopic(n)

\* The facts about sequences that TypeOK gives.
LEMMA Shapes ==
    ASSUME TypeOK
    PROVE  /\ topics \in Seq(Topic) /\ DOMAIN topics = 1 .. Len(topics)
           /\ Len(topics) \in 0 .. MaxTopics
           /\ sent \in Seq(Message) /\ DOMAIN sent = 1 .. Len(sent)
           /\ Len(sent) \in 0 .. MaxAccepted
           /\ \A t \in DOMAIN topics :
                 /\ topics[t] \in Topic
                 /\ Queued(t) = QueueOf(topics[t])
                 /\ Queued(t) \in Seq(0 .. MaxAccepted)
                 /\ DOMAIN Queued(t) = 1 .. Len(Queued(t)) /\ Len(Queued(t)) \in Nat
           /\ \A n : GetTopic(n) # 0 =>
                 GetTopic(n) \in DOMAIN topics /\ topics[GetTopic(n)].name = n
           /\ \A t \in DOMAIN topics :
                 GetTopic(topics[t].name) # 0 /\ GetTopic(topics[t].name) <= t
           /\ \A n : GetTopic(n) \in 0 .. MaxTopics
<1>1. /\ topics \in Seq(Topic) /\ DOMAIN topics = 1 .. Len(topics)
      /\ Len(topics) \in 0 .. MaxTopics
      /\ sent \in Seq(Message) /\ DOMAIN sent = 1 .. Len(sent)
      /\ Len(sent) \in 0 .. MaxAccepted
  BY Sizes DEF TypeOK
<1>2. ASSUME NEW t \in DOMAIN topics
      PROVE  /\ topics[t] \in Topic
             /\ Queued(t) = QueueOf(topics[t])
             /\ Queued(t) \in Seq(0 .. MaxAccepted)
             /\ DOMAIN Queued(t) = 1 .. Len(Queued(t)) /\ Len(Queued(t)) \in Nat
  BY <1>1, QueuedIsQueueOf, RingIsQueue
<1>3. \A n : GetTopic(n) # 0 => GetTopic(n) \in DOMAIN topics /\ topics[GetTopic(n)].name = n
  BY <1>1, GetTopicIsLookup, LookupIs
<1>4. \A t \in DOMAIN topics : GetTopic(topics[t].name) # 0 /\ GetTopic(topics[t].name) <= t
  BY <1>1, GetTopicIsLookup, LookupIs
<1>5. \A n : GetTopic(n) \in 0 .. Len(topics)
  BY <1>1, GetTopicIsLookup, LookupIs
<1>6. \A n : GetTopic(n) \in 0 .. MaxTopics
  BY <1>1, <1>5, Sizes
<1> QED  BY <1>1, <1>2, <1>3, <1>4, <1>6

\* pubsub_create_topic: an empty queue more.
LEMMA TopicAppended ==
    ASSUME TypeOK, NamesInv, NEW n \in Names, Len(topics) < MaxTopics,
           topics' = Append(topics, NewTopic(n))
    PROVE  /\ topics' \in Seq(Topic) /\ Len(topics') <= MaxTopics
           /\ TopicsStay /\ NamesInv'
           /\ GetTopic(Stored[n])' # 0
           /\ DOMAIN topics' = DOMAIN topics \cup {Len(topics) + 1}
           /\ \A t \in DOMAIN topics : Queued(t)' = Queued(t)
           /\ \A u : u = Len(topics) + 1 => Queued(u)' = <<>>
           /\ \A k : Waits(k)' <=> Waits(k)
           /\ \A x : GetTopic(x)' = IF GetTopic(x) # 0 THEN GetTopic(x)
                                    ELSE IF Stored[n] = x THEN Len(topics) + 1 ELSE 0
<1>1. /\ Stored[n] \in Names /\ Stored[Stored[n]] = Stored[n]
      /\ NewTopic(n) \in Topic /\ NewTopic(n).name = Stored[n]
      /\ NewTopic(n).head = 0 /\ NewTopic(n).tail = 0
  BY StoredAssumption, Sizes DEF NewTopic, Topic, Indices
<1>2. /\ topics \in Seq(Topic) /\ DOMAIN topics = 1 .. Len(topics) /\ Len(topics) \in Nat
  BY Shapes
<1>3. /\ topics' \in Seq(Topic) /\ Len(topics') = Len(topics) + 1
      /\ DOMAIN topics' = 1 .. Len(topics) + 1
      /\ topics'[Len(topics) + 1] = NewTopic(n)
      /\ \A t \in 1 .. Len(topics) : topics'[t] = topics[t]
  BY <1>1, <1>2, AppendProperties
<1>4. \A t : Queued(t)' = QueueOf(topics'[t])
  BY DEF Queued, QueueLen, QueueOf
<1>5. \A t \in DOMAIN topics : Queued(t)' = Queued(t)
  BY <1>2, <1>3, <1>4, QueuedIsQueueOf
<1>6. \A u : u = Len(topics) + 1 => Queued(u)' = <<>>
  BY <1>1, <1>3, <1>4, RingEmpty
<1>7. DOMAIN topics' = DOMAIN topics \cup {Len(topics) + 1}
  BY <1>2, <1>3
<1>8. \A x : GetTopic(x)' = Lookup(topics', x)
  BY DEF GetTopic, Lookup
<1>9. \A x : GetTopic(x)' = IF GetTopic(x) # 0 THEN GetTopic(x)
                            ELSE IF Stored[n] = x THEN Len(topics) + 1 ELSE 0
  BY <1>1, <1>2, <1>8, GetTopicIsLookup, LookupAfterAppend
<1>10. GetTopic(Stored[n])' # 0
  BY <1>2, <1>9
<1>11. TopicsStay
  BY <1>2, <1>3, <1>7, <1>9 DEF TopicsStay
<1>12. NamesInv'
  BY <1>1, <1>2, <1>3, <1>7 DEF NamesInv
<1>13. \A k : Waits(k)' <=> Waits(k)
  <2>1. PICK u : u = Len(topics) + 1
    OBVIOUS
  <2>2. DOMAIN Queued(u)' = {}
    BY <1>6, <2>1
  <2>3. ASSUME NEW k  PROVE  Waits(k)' <=> Waits(k)
    <3>1. Waits(k)' <=> \E t \in DOMAIN topics' : \E j \in DOMAIN Queued(t)' : Queued(t)'[j] = k
      BY DEF Waits
    <3>2. Waits(k) <=> \E t \in DOMAIN topics : \E j \in DOMAIN Queued(t)' : Queued(t)'[j] = k
      BY <1>5 DEF Waits
    <3> QED  BY <1>7, <2>1, <2>2, <3>1, <3>2
  <2> QED  BY <2>3
<1>14. Len(topics') <= MaxTopics
  BY <1>2, <1>3, Sizes
<1> QED  BY <1>3, <1>5, <1>6, <1>7, <1>9, <1>10, <1>11, <1>12, <1>13, <1>14

\* An operation on the ring of one topic leaves names and the other queues alone.
LEMMA RingChanged ==
    ASSUME TypeOK, NamesInv, NEW t \in DOMAIN topics, NEW r \in Topic,
           r.name = topics[t].name, topics' = [topics EXCEPT ![t] = r]
    PROVE  /\ topics' \in Seq(Topic) /\ Len(topics') = Len(topics)
           /\ DOMAIN topics' = DOMAIN topics
           /\ \A u \in DOMAIN topics : topics'[u].name = topics[u].name
           /\ TopicsStay /\ NamesInv'
           /\ \A n : GetTopic(n)' = GetTopic(n)
           /\ \A u \in DOMAIN topics : u # t => Queued(u)' = Queued(u)
           /\ Queued(t)' = QueueOf(r)
<1>1. topics \in Seq(Topic) /\ DOMAIN topics = 1 .. Len(topics) /\ Len(topics) \in Nat
  BY Shapes
<1>2. /\ topics' \in Seq(Topic) /\ Len(topics') = Len(topics)
      /\ topics'[t] = r /\ \A u \in DOMAIN topics : u # t => topics'[u] = topics[u]
  BY <1>1, ExceptSeq
<1>3. DOMAIN topics' = DOMAIN topics
  BY <1>1, <1>2
<1>4. \A u \in DOMAIN topics : topics'[u].name = topics[u].name
  BY <1>2
<1>5. \A u : Queued(u)' = QueueOf(topics'[u])
  BY DEF Queued, QueueLen, QueueOf
<1>6. \A n : GetTopic(n)' = Lookup(topics', n)
  BY DEF GetTopic, Lookup
<1>7. \A n : GetTopic(n)' = GetTopic(n)
  BY <1>1, <1>2, <1>4, <1>6, GetTopicIsLookup, LookupSameNames
<1>8. TopicsStay
  BY <1>3, <1>4, <1>7 DEF TopicsStay
<1>9. NamesInv'
  BY <1>3, <1>4 DEF NamesInv
<1>10. \A u \in DOMAIN topics : u # t => Queued(u)' = Queued(u)
  BY <1>2, <1>5, QueuedIsQueueOf
<1> QED  BY <1>2, <1>3, <1>4, <1>5, <1>7, <1>8, <1>9, <1>10

\* pubsub_publish_internal: the new message goes to the end of the topic's queue.
LEMMA Enqueued ==
    ASSUME TypeOK, NamesInv, MailInv, NEW t \in DOMAIN topics, ~IsFull(t),
           NEW origin \in {"local", "mqtt"}, NEW forwarded \in BOOLEAN,
           Enqueue(t, origin, forwarded)
    PROVE  /\ topics' \in Seq(Topic) /\ Len(topics') = Len(topics)
           /\ DOMAIN topics' = DOMAIN topics
           /\ TopicsStay /\ NamesInv'
           /\ \A n : GetTopic(n)' = GetTopic(n)
           /\ \A u \in DOMAIN topics : u # t => Queued(u)' = Queued(u)
           /\ Queued(t)' = Append(Queued(t), Len(sent) + 1)
           /\ \A u \in DOMAIN topics : \A j \in DOMAIN Queued(u)' :
                 \/ Queued(u)'[j] = Len(sent) + 1
                 \/ \E i \in DOMAIN Queued(u) : Queued(u)'[j] = Queued(u)[i]
           /\ Len(Queued(t)) < QueueSize - 1
           /\ sent' \in Seq(Message) /\ Len(sent') = Len(sent) + 1 /\ Len(sent') <= MaxAccepted
           /\ \A k \in 1 .. Len(sent) : sent'[k] = sent[k]
           /\ \A k : k = Len(sent) + 1 =>
                 sent'[k] = [topic |-> topics[t].name, origin |-> origin, forwarded |-> forwarded]
           /\ MailInv'
           /\ \A k \in 1 .. Len(sent) : Waits(k)' <=> Waits(k)
           /\ \A k : k = Len(sent) + 1 => Waits(k)'
<1>1. PICK m : m = Len(sent) + 1
  OBVIOUS
<1>2. /\ topics \in Seq(Topic) /\ DOMAIN topics = 1 .. Len(topics) /\ Len(topics) \in Nat
      /\ topics[t] \in Topic /\ Len(sent) \in Nat /\ sent \in Seq(Message)
      /\ \A u \in DOMAIN topics : /\ Queued(u) = QueueOf(topics[u])
                                  /\ Queued(u) \in Seq(0 .. MaxAccepted)
                                  /\ DOMAIN Queued(u) = 1 .. Len(Queued(u)) /\ Len(Queued(u)) \in Nat
  BY Shapes
<1>3. m \in 0 .. MaxAccepted /\ m \in Nat /\ m <= MaxAccepted
  BY <1>1, <1>2, Sizes DEF Enqueue
<1> DEFINE r == [topics[t] EXCEPT !.ring = [@ EXCEPT ![topics[t].head] = m], !.head = Succ(@)]
<1>4. /\ topics[t].head \in Indices /\ topics[t].tail \in Indices /\ topics[t].name \in Names
      /\ topics[t].ring \in [Indices -> 0 .. MaxAccepted]
  BY <1>2 DEF Topic
<1>5. Succ(topics[t].head) \in Indices
  BY <1>4, Sizes, Circle DEF Succ, Indices
<1>6. /\ r \in Topic /\ r.name = topics[t].name /\ r.tail = topics[t].tail
      /\ r.head = Succ(topics[t].head)
      /\ r.ring = [topics[t].ring EXCEPT ![topics[t].head] = m]
  BY <1>2, <1>3, <1>4, <1>5 DEF Topic
<1>7. topics' = [topics EXCEPT ![t] = r]
  BY <1>1, <1>2 DEF Enqueue, Topic
<1> HIDE DEF r
<1>8. /\ topics' \in Seq(Topic) /\ Len(topics') = Len(topics)
      /\ DOMAIN topics' = DOMAIN topics
      /\ \A u \in DOMAIN topics : topics'[u].name = topics[u].name
      /\ TopicsStay /\ NamesInv'
      /\ \A n : GetTopic(n)' = GetTopic(n)
      /\ \A u \in DOMAIN topics : u # t => Queued(u)' = Queued(u)
      /\ Queued(t)' = QueueOf(r)
  BY <1>6, <1>7, RingChanged
<1>9. QueueOf(r) = Append(Queued(t), m) /\ Len(Queued(t)) < QueueSize - 1
  BY <1>2, <1>3, <1>6, RingPut DEF IsFull
<1>10. /\ sent' \in Seq(Message) /\ Len(sent') = m
       /\ \A k \in 1 .. Len(sent) : sent'[k] = sent[k]
       /\ sent'[m] = [topic |-> topics[t].name, origin |-> origin, forwarded |-> forwarded]
  BY <1>1, <1>2, <1>4, AppendProperties DEF Enqueue, Message
<1>11. /\ Queued(t)' \in Seq(0 .. MaxAccepted) /\ Len(Queued(t)') = Len(Queued(t)) + 1
       /\ DOMAIN Queued(t)' = 1 .. Len(Queued(t)) + 1
       /\ \A j \in 1 .. Len(Queued(t)) : Queued(t)'[j] = Queued(t)[j]
       /\ Queued(t)'[Len(Queued(t)) + 1] = m
  BY <1>2, <1>3, <1>8, <1>9, AppendProperties
<1>12. /\ \A u \in DOMAIN topics : \A j \in DOMAIN Queued(u) : Queued(u)[j] \in 1 .. Len(sent)
       /\ \A u \in DOMAIN topics : \A j \in DOMAIN Queued(u)' :
             \/ j \in DOMAIN Queued(u) /\ Queued(u)'[j] = Queued(u)[j]
             \/ u = t /\ j = Len(Queued(t)) + 1 /\ Queued(u)'[j] = m
       /\ \A u \in DOMAIN topics : \A j \in DOMAIN Queued(u) :
             j \in DOMAIN Queued(u)' /\ Queued(u)'[j] = Queued(u)[j]
  <2>1. \A u \in DOMAIN topics : \A j \in DOMAIN Queued(u) : Queued(u)[j] \in 1 .. Len(sent)
    BY DEF MailInv
  <2>2. DOMAIN Queued(t) = 1 .. Len(Queued(t)) /\ Len(Queued(t)) \in Nat
    BY <1>2
  <2>3. \A j \in 1 .. Len(Queued(t)) + 1 : j \in 1 .. Len(Queued(t)) \/ j = Len(Queued(t)) + 1
    BY <2>2
  <2>4. \A j \in DOMAIN Queued(t)' :
           \/ j \in DOMAIN Queued(t) /\ Queued(t)'[j] = Queued(t)[j]
           \/ j = Len(Queued(t)) + 1 /\ Queued(t)'[j] = m
    BY <1>11, <2>2, <2>3
  <2>5. \A j \in DOMAIN Queued(t) : j \in DOMAIN Queued(t)' /\ Queued(t)'[j] = Queued(t)[j]
    BY <1>11, <2>2
  <2> QED  BY <1>8, <2>1, <2>4, <2>5
<1>13. MailInv'
  <2>1. ASSUME NEW u \in DOMAIN topics, NEW j \in DOMAIN Queued(u)'
        PROVE  Queued(u)'[j] \in 1 .. Len(sent') /\ sent'[Queued(u)'[j]].topic = topics'[u].name
    <3>1. CASE j \in DOMAIN Queued(u) /\ Queued(u)'[j] = Queued(u)[j]
      <4>1. Queued(u)[j] \in 1 .. Len(sent) /\ sent[Queued(u)[j]].topic = topics[u].name
        BY <3>1 DEF MailInv
      <4> QED  BY <1>1, <1>2, <1>8, <1>10, <3>1, <4>1
    <3>2. CASE u = t /\ j = Len(Queued(t)) + 1 /\ Queued(u)'[j] = m
      BY <1>1, <1>2, <1>8, <1>10, <3>2
    <3> QED  BY <1>12, <3>1, <3>2
  <2>2. ASSUME NEW u \in DOMAIN topics, NEW j \in DOMAIN Queued(u)', NEW k \in DOMAIN Queued(u)',
               j < k
        PROVE  Queued(u)'[j] < Queued(u)'[k]
    <3>1. u # t => DOMAIN Queued(u)' = 1 .. Len(Queued(u)) /\ Len(Queued(u)) \in Nat
      BY <1>2, <1>8
    <3>2. j \in Nat /\ k \in Nat
      BY <1>2, <1>11, <3>1
    <3>4. j \in DOMAIN Queued(u) /\ Queued(u)'[j] = Queued(u)[j]
      <4>1. CASE u # t
        BY <1>8, <4>1
      <4>2. CASE u = t
        <5>1. j \in 1 .. Len(Queued(t))
          BY <1>2, <1>11, <2>2, <3>2, <4>2
        <5> QED  BY <1>2, <1>11, <4>2, <5>1
      <4> QED  BY <4>1, <4>2
    <3>5. CASE k \in DOMAIN Queued(u) /\ Queued(u)'[k] = Queued(u)[k]
      BY <2>2, <3>4, <3>5 DEF MailInv
    <3>6. CASE Queued(u)'[k] = m
      <4>1. Queued(u)[j] \in 1 .. Len(sent)
        BY <1>12, <3>4
      <4> QED  BY <1>1, <1>2, <3>4, <3>6, <4>1
    <3> QED  BY <1>12, <3>5, <3>6
  <2>3. ASSUME NEW u \in DOMAIN topics, NEW v \in DOMAIN topics,
               NEW j \in DOMAIN Queued(u)', NEW k \in DOMAIN Queued(v)',
               Queued(u)'[j] = Queued(v)'[k]
        PROVE  u = v
    <3>1. \A i \in 1 .. Len(sent) : i # m
      BY <1>1, <1>2
    <3>2. CASE j \in DOMAIN Queued(u) /\ Queued(u)'[j] = Queued(u)[j]
      <4>1. Queued(v)'[k] # m
        BY <1>12, <2>3, <3>1, <3>2
      <4>2. k \in DOMAIN Queued(v) /\ Queued(v)'[k] = Queued(v)[k]
        BY <1>12, <4>1
      <4> QED  BY <2>3, <3>2, <4>2 DEF MailInv
    <3>3. CASE u = t /\ Queued(u)'[j] = m
      BY <1>12, <2>3, <3>1, <3>3
    <3> QED  BY <1>12, <3>2, <3>3
  <2> QED  BY <1>8, <2>1, <2>2, <2>3 DEF MailInv
<1>14. \A k : Waits(k)' <=> \E u \in DOMAIN topics : \E j \in DOMAIN Queued(u)' : Queued(u)'[j] = k
  BY <1>8 DEF Waits
<1>15. Waits(m)'
  <2>1. Len(Queued(t)) + 1 \in DOMAIN Queued(t)'
    BY <1>2, <1>11
  <2> QED  BY <1>11, <1>14, <2>1
<1>16. \A k \in 1 .. Len(sent) : Waits(k)' <=> Waits(k)
  <2>1. \A k \in 1 .. Len(sent) : k # m
    BY <1>1, <1>2
  <2>2. \A k : Waits(k) <=> \E u \in DOMAIN topics : \E j \in DOMAIN Queued(u) : Queued(u)[j] = k
    BY DEF Waits
  <2> QED  BY <1>12, <1>14, <2>1, <2>2
<1>17. \A u \in DOMAIN topics : \A j \in DOMAIN Queued(u)' :
          Queued(u)'[j] = m \/ \E i \in DOMAIN Queued(u) : Queued(u)'[j] = Queued(u)[i]
  BY <1>12
<1> QED  BY <1>1, <1>3, <1>8, <1>9, <1>10, <1>13, <1>15, <1>16, <1>17

\* pubsub_clear_queue empties one queue.
LEMMA Cleared ==
    ASSUME TypeOK, NamesInv, MailInv, NEW n \in Names, ClearQueue(n)
    PROVE  /\ topics' \in Seq(Topic) /\ Len(topics') = Len(topics)
           /\ DOMAIN topics' = DOMAIN topics
           /\ TopicsStay /\ NamesInv'
           /\ \A x : GetTopic(x)' = GetTopic(x)
           /\ \A u \in DOMAIN topics : Queued(u)' = IF u = GetTopic(n) THEN <<>> ELSE Queued(u)
           /\ sent' \in Seq(Message) /\ Len(sent') = Len(sent)
           /\ \A k \in 1 .. Len(sent) :
                 /\ sent'[k].origin = sent[k].origin /\ sent'[k].forwarded = sent[k].forwarded
                 /\ Waits(k)' => Waits(k)
                 /\ IF Waits(k) /\ ~Waits(k)' THEN sent'[k].topic = NoName
                                              ELSE sent'[k] = sent[k]
           /\ MailInv'
<1> DEFINE t == GetTopic(n)
           r == [topics[t] EXCEPT !.head = 0, !.tail = 0]
<1>1. /\ topics \in Seq(Topic) /\ DOMAIN topics = 1 .. Len(topics) /\ Len(topics) \in Nat
      /\ t \in DOMAIN topics /\ topics[t] \in Topic /\ topics[t].name = n
      /\ Len(sent) \in Nat /\ sent \in Seq(Message) /\ DOMAIN sent = 1 .. Len(sent)
  BY Shapes DEF ClearQueue
<1>2. 0 \in Indices
  BY Sizes DEF Indices
<1>3. r \in Topic /\ r.name = topics[t].name /\ r.tail = 0 /\ r.head = 0
  BY <1>1, <1>2 DEF Topic
<1>4. topics' = [topics EXCEPT ![t] = r]
  BY <1>1 DEF ClearQueue, Topic
<1> HIDE DEF r
<1>5. /\ topics' \in Seq(Topic) /\ Len(topics') = Len(topics)
      /\ DOMAIN topics' = DOMAIN topics
      /\ \A u \in DOMAIN topics : topics'[u].name = topics[u].name
      /\ TopicsStay /\ NamesInv'
      /\ \A x : GetTopic(x)' = GetTopic(x)
  <2>1. PICK u : u = t
    OBVIOUS
  <2> QED  BY <1>1, <1>3, <1>4, <2>1, RingChanged
<1>6. \A u \in DOMAIN topics : Queued(u)' = IF u = t THEN <<>> ELSE Queued(u)
  <2>1. QueueOf(r) = <<>>
    BY <1>3, RingEmpty
  <2>2. PICK u : u = t
    OBVIOUS
  <2>3. /\ \A v \in DOMAIN topics : v # u => Queued(v)' = Queued(v)
        /\ Queued(u)' = QueueOf(r)
    BY <1>1, <1>3, <1>4, <2>2, RingChanged
  <2> QED  BY <2>1, <2>2, <2>3
<1> DEFINE Gone(k) == \E j \in DOMAIN Queued(t) : Queued(t)[j] = k
<1>7. sent' = [k \in 1 .. Len(sent) |->
                 IF Gone(k) THEN [sent[k] EXCEPT !.topic = NoName] ELSE sent[k]]
  BY <1>1 DEF ClearQueue
<1> HIDE DEF Gone
<1>8. \A k \in 1 .. Len(sent) :
         /\ sent[k] \in Message
         /\ sent'[k] \in Message
         /\ sent'[k].origin = sent[k].origin /\ sent'[k].forwarded = sent[k].forwarded
         /\ IF Gone(k) THEN sent'[k].topic = NoName ELSE sent'[k] = sent[k]
  <2> TAKE k \in 1 .. Len(sent)
  <2>1. sent[k] \in Message
    BY <1>1, ElementOfSeq
  <2>2. sent'[k] = IF Gone(k) THEN [sent[k] EXCEPT !.topic = NoName] ELSE sent[k]
    BY <1>7
  <2> QED  BY <2>1, <2>2 DEF Message
<1>9. sent' \in Seq(Message) /\ Len(sent') = Len(sent)
  <2>1. sent' \in [1 .. Len(sent) -> Message]
    BY <1>7, <1>8
  <2> QED  BY <1>1, <2>1, FunctionIsSeq
<1>10. \A k : Waits(k)' <=> \E u \in DOMAIN topics \ {t} : \E j \in DOMAIN Queued(u) : Queued(u)[j] = k
  <2>1. \A k : Waits(k)' <=> \E u \in DOMAIN topics : \E j \in DOMAIN Queued(u)' : Queued(u)'[j] = k
    BY <1>5 DEF Waits
  <2>2. PICK v : v = t
    OBVIOUS
  <2>3. DOMAIN Queued(v)' = {}
    BY <1>1, <1>6, <2>2
  <2> HIDE DEF t
  <2> QED  BY <1>6, <2>1, <2>2, <2>3
<1>11. \A k : Waits(k) <=> Gone(k) \/ \E u \in DOMAIN topics \ {t} :
                                         \E j \in DOMAIN Queued(u) : Queued(u)[j] = k
  BY <1>1 DEF Waits, Gone
<1>12. \A k : ~(Gone(k) /\ \E u \in DOMAIN topics \ {t} : \E j \in DOMAIN Queued(u) : Queued(u)[j] = k)
  BY <1>1 DEF Gone, MailInv
<1>13. \A k : (Waits(k)' => Waits(k)) /\ (Gone(k) <=> Waits(k) /\ ~Waits(k)')
  BY <1>10, <1>11, <1>12
<1>14. MailInv'
  <2> HIDE DEF t
  <2>1. \A u \in DOMAIN topics : \A j \in DOMAIN Queued(u)' :
           u # t /\ j \in DOMAIN Queued(u) /\ Queued(u)'[j] = Queued(u)[j]
    BY <1>6
  <2>2. ASSUME NEW u \in DOMAIN topics, NEW j \in DOMAIN Queued(u)'
        PROVE  Queued(u)'[j] \in 1 .. Len(sent') /\ sent'[Queued(u)'[j]].topic = topics'[u].name
    <3>1. Queued(u)[j] \in 1 .. Len(sent) /\ sent[Queued(u)[j]].topic = topics[u].name
      BY <2>1 DEF MailInv
    <3>2. ~Gone(Queued(u)[j])
      BY <1>12, <2>1
    <3> QED  BY <1>5, <1>8, <1>9, <2>1, <3>1, <3>2
  <2>3. \A u \in DOMAIN topics : \A j, k \in DOMAIN Queued(u)' :
           j < k => Queued(u)'[j] < Queued(u)'[k]
    BY <2>1 DEF MailInv
  <2>4. \A u, v \in DOMAIN topics : \A j \in DOMAIN Queued(u)', k \in DOMAIN Queued(v)' :
           Queued(u)'[j] = Queued(v)'[k] => u = v
    BY <2>1 DEF MailInv
  <2> QED  BY <1>5, <2>2, <2>3, <2>4 DEF MailInv
<1> QED  BY <1>5, <1>6, <1>8, <1>9, <1>13, <1>14

\* pubsub_process_topic's copy: the oldest message leaves its queue.
LEMMA Taken ==
    ASSUME TypeOK, NamesInv, MailInv, NEW p \in Procs, Take(p),
           NEW t \in DOMAIN topics, t = procs[p].topic,
           NEW m, m = topics[t].ring[topics[t].tail]
    PROVE  /\ topics' \in Seq(Topic) /\ Len(topics') = Len(topics)
           /\ DOMAIN topics' = DOMAIN topics
           /\ TopicsStay /\ NamesInv'
           /\ \A n : GetTopic(n)' = GetTopic(n)
           /\ \A u \in DOMAIN topics : u # t => Queued(u)' = Queued(u)
           /\ Queued(t) # <<>> /\ Queued(t)' = Tail(Queued(t))
           /\ m \in 1 .. Len(sent) /\ sent[m].topic = topics[t].name
           /\ \A u \in DOMAIN topics : \A j \in DOMAIN Queued(u)' :
                 /\ u = t => m < Queued(u)'[j]
                 /\ \E i \in DOMAIN Queued(u) : Queued(u)'[j] = Queued(u)[i]
           /\ \E j \in DOMAIN Queued(t) : Queued(t)[j] = m
           /\ MailInv'
           /\ Waits(m) /\ ~Waits(m)'
           /\ \A k : k # m => (Waits(k)' <=> Waits(k))
<1>1. /\ topics \in Seq(Topic) /\ DOMAIN topics = 1 .. Len(topics) /\ Len(topics) \in Nat
      /\ topics[t] \in Topic /\ Len(sent) \in Nat
      /\ \A u \in DOMAIN topics : /\ Queued(u) = QueueOf(topics[u])
                                  /\ DOMAIN Queued(u) = 1 .. Len(Queued(u)) /\ Len(Queued(u)) \in Nat
  BY Shapes
<1> DEFINE r == [topics[t] EXCEPT !.tail = Succ(@)]
<1>2. /\ topics[t].head \in Indices /\ topics[t].tail \in Indices
      /\ topics[t].head # topics[t].tail
  BY <1>1 DEF Topic, Take, HasMail
<1>3. Succ(topics[t].tail) \in Indices
  BY <1>2, Sizes, Circle DEF Succ, Indices
<1>4. /\ r \in Topic /\ r.name = topics[t].name /\ r.tail = Succ(topics[t].tail)
      /\ r.head = topics[t].head /\ r.ring = topics[t].ring
  BY <1>1, <1>3 DEF Topic
<1>5. topics' = [topics EXCEPT ![t] = r]
  BY <1>1 DEF Take, Topic
<1> HIDE DEF r
<1>6. /\ topics' \in Seq(Topic) /\ Len(topics') = Len(topics)
      /\ DOMAIN topics' = DOMAIN topics
      /\ \A u \in DOMAIN topics : topics'[u].name = topics[u].name
      /\ TopicsStay /\ NamesInv'
      /\ \A n : GetTopic(n)' = GetTopic(n)
      /\ \A u \in DOMAIN topics : u # t => Queued(u)' = Queued(u)
      /\ Queued(t)' = QueueOf(r)
  BY <1>4, <1>5, RingChanged
<1>7. /\ Queued(t) # <<>> /\ Queued(t)[1] = m
      /\ Queued(t)' = Tail(Queued(t))
      /\ Len(Queued(t)) = Len(Queued(t)') + 1
      /\ \A k \in 1 .. Len(Queued(t)') : Queued(t)'[k] = Queued(t)[k + 1]
  <2>1. /\ QueueOf(topics[t]) # <<>> /\ QueueOf(topics[t])[1] = m
        /\ QueueOf(r) = Tail(QueueOf(topics[t]))
        /\ Len(QueueOf(topics[t])) = Len(QueueOf(r)) + 1
        /\ \A k \in 1 .. Len(QueueOf(r)) : QueueOf(r)[k] = QueueOf(topics[t])[k + 1]
    BY <1>1, <1>2, <1>4, RingTake
  <2>2. Queued(t) = QueueOf(topics[t]) /\ Queued(t)' = QueueOf(r)
    BY <1>1, <1>6
  <2> QED  BY <2>1, <2>2
<1>8. DOMAIN Queued(t)' = 1 .. Len(Queued(t)') /\ Len(Queued(t)') \in Nat
  BY <1>4, <1>6, RingIsQueue
<1>9. 1 \in DOMAIN Queued(t)
  BY <1>1, <1>7, <1>8
<1>10. \A j \in DOMAIN Queued(t)' :
          j + 1 \in DOMAIN Queued(t) /\ 1 < j + 1 /\ Queued(t)'[j] = Queued(t)[j + 1]
  BY <1>1, <1>7, <1>8
<1>11. \A j \in DOMAIN Queued(t) : j = 1 \/ (j - 1 \in DOMAIN Queued(t)' /\ Queued(t)'[j - 1] = Queued(t)[j])
  <2> TAKE j \in DOMAIN Queued(t)
  <2>1. j = 1 \/ j - 1 \in DOMAIN Queued(t)'
    BY <1>1, <1>7, <1>8
  <2>2. j \in Nat /\ (j - 1) + 1 = j
    BY <1>1
  <2> QED  BY <1>10, <2>1, <2>2
<1>12. m \in 1 .. Len(sent) /\ sent[m].topic = topics[t].name
  BY <1>7, <1>9 DEF MailInv
<1>13. \A j \in DOMAIN Queued(t)' : m < Queued(t)'[j]
  BY <1>7, <1>9, <1>10 DEF MailInv
<1>14. \A k : Waits(k) <=> \E u \in DOMAIN topics : \E j \in DOMAIN Queued(u) : Queued(u)[j] = k
  BY DEF Waits
<1>15. \A k : Waits(k)' <=> \E u \in DOMAIN topics : \E j \in DOMAIN Queued(u)' : Queued(u)'[j] = k
  BY <1>6 DEF Waits
<1>16. Waits(m)
  BY <1>7, <1>9, <1>14
<1>17. ~Waits(m)'
  <2> SUFFICES ASSUME NEW u \in DOMAIN topics, NEW j \in DOMAIN Queued(u)', Queued(u)'[j] = m
               PROVE  FALSE
    BY <1>15
  <2>1. u = t
    <3>1. u # t => j \in DOMAIN Queued(u) /\ Queued(u)[j] = Queued(t)[1]
      BY <1>6, <1>7
    <3> QED  BY <1>9, <3>1 DEF MailInv
  <2> QED  BY <1>12, <1>13, <2>1
<1>18. \A k : k # m => (Waits(k)' <=> Waits(k))
  <2> TAKE k
  <2> HAVE k # m
  <2>1. ASSUME NEW u \in DOMAIN topics, NEW j \in DOMAIN Queued(u)', Queued(u)'[j] = k
        PROVE  \E i \in DOMAIN Queued(u) : Queued(u)[i] = k
    BY <1>6, <1>10, <2>1
  <2>2. ASSUME NEW u \in DOMAIN topics, NEW j \in DOMAIN Queued(u), Queued(u)[j] = k
        PROVE  \E i \in DOMAIN Queued(u)' : Queued(u)'[i] = k
    <3>1. CASE u = t
      <4>1. j # 1
        BY <1>7, <2>2, <3>1
      <4> QED  BY <1>11, <2>2, <3>1, <4>1
    <3>2. CASE u # t
      BY <1>6, <2>2, <3>2
    <3> QED  BY <3>1, <3>2
  <2> QED  BY <1>14, <1>15, <2>1, <2>2
<1>19. \A u \in DOMAIN topics : \A j \in DOMAIN Queued(u)' :
          \E i \in DOMAIN Queued(u) : i = (IF u = t THEN j + 1 ELSE j) /\ Queued(u)'[j] = Queued(u)[i]
  BY <1>6, <1>10
<1>20. /\ \A u \in DOMAIN topics : \A j \in DOMAIN Queued(u)' :
             /\ u = t => m < Queued(u)'[j]
             /\ \E i \in DOMAIN Queued(u) : Queued(u)'[j] = Queued(u)[i]
       /\ \E j \in DOMAIN Queued(t) : Queued(t)[j] = m
  BY <1>7, <1>9, <1>13, <1>19
<1>21. MailInv'
  <2>1. ASSUME NEW u \in DOMAIN topics, NEW j \in DOMAIN Queued(u)'
        PROVE  Queued(u)'[j] \in 1 .. Len(sent') /\ sent'[Queued(u)'[j]].topic = topics'[u].name
    <3>1. sent' = sent
      BY DEF Take
    <3> QED  BY <1>6, <1>19, <3>1 DEF MailInv
  <2>2. ASSUME NEW u \in DOMAIN topics, NEW j \in DOMAIN Queued(u)', NEW k \in DOMAIN Queued(u)',
               j < k
        PROVE  Queued(u)'[j] < Queued(u)'[k]
    <3>1. PICK i \in DOMAIN Queued(u) : i = (IF u = t THEN j + 1 ELSE j) /\ Queued(u)'[j] = Queued(u)[i]
      BY <1>19
    <3>2. PICK l \in DOMAIN Queued(u) : l = (IF u = t THEN k + 1 ELSE k) /\ Queued(u)'[k] = Queued(u)[l]
      BY <1>19
    <3>3. j \in Nat /\ k \in Nat
      BY <1>1, <1>6, <1>8
    <3>4. i < l
      BY <2>2, <3>1, <3>2, <3>3
    <3> QED  BY <3>1, <3>2, <3>4 DEF MailInv
  <2>3. ASSUME NEW u \in DOMAIN topics, NEW v \in DOMAIN topics,
               NEW j \in DOMAIN Queued(u)', NEW k \in DOMAIN Queued(v)',
               Queued(u)'[j] = Queued(v)'[k]
        PROVE  u = v
    BY <1>19, <2>3 DEF MailInv
  <2> QED  BY <1>6, <2>1, <2>2, <2>3 DEF MailInv
<1> QED  BY <1>6, <1>7, <1>12, <1>16, <1>17, <1>18, <1>20, <1>21, Zenon

\* Where the topics are left alone, so are the queues.
LEMMA TopicsSame ==
    ASSUME topics' = topics
    PROVE  /\ TopicsStay
           /\ \A n : GetTopic(n)' = GetTopic(n)
           /\ \A t : Queued(t)' = Queued(t)
           /\ \A k : Waits(k)' <=> Waits(k)
<1>1. \A n : GetTopic(n)' = GetTopic(n)
  BY DEF GetTopic
<1>2. \A t : Queued(t)' = Queued(t)
  BY DEF Queued, QueueLen
<1>3. \A k : Waits(k)' <=> Waits(k)
  BY <1>2 DEF Waits
<1> QED  BY <1>1, <1>2, <1>3 DEF TopicsStay

-----------------------------------------------------------------------------
(* Every step keeps the inductive invariant *)

\* What all steps but Take do with the messages: none is accepted twice, and none
\* stops waiting unless it is cleared.
MailKept ==
    /\ TopicsStay /\ NamesInv' /\ MailInv'
    /\ Len(sent) <= Len(sent')
    /\ \A k \in 1 .. Len(sent) : (Waits(k)' => Waits(k)) /\ (~Waits(k) => sent'[k] = sent[k])
    /\ \A k \in 1 .. Len(sent') : \/ Waits(k)'
                                  \/ sent'[k].topic = NoName
                                  \/ k <= Len(sent) /\ ~Waits(k) /\ sent'[k] = sent[k]
    /\ \A t \in DOMAIN topics : \A j \in DOMAIN Queued(t)' :
          Queued(t)'[j] > Len(sent) \/ \E i \in DOMAIN Queued(t) : Queued(t)'[j] = Queued(t)[i]

\* Such a step, with the processing loops where they are, keeps what is known of
\* the messages in their hands.
LEMMA FramesKept ==
    ASSUME IndInv, MailKept, TypeOK',
           \A p \in Procs : \/ procs'[p] = procs[p]
                            \/ procs'[p].phase = "idle"
                            \/ /\ procs'[p].phase = "loop"
                               /\ procs'[p].topic \in DOMAIN topics
                               /\ GetTopic(topics[procs'[p].topic].name) = procs'[p].topic
    PROVE  FramesInv'
<1>1. Len(sent) \in Nat /\ Len(sent') \in Nat /\ Len(sent) <= Len(sent')
  BY Shapes DEF IndInv, MailKept, TypeOK
<1>2. ASSUME NEW p \in Procs, procs'[p].phase # "idle"
      PROVE  /\ procs'[p].topic \in DOMAIN topics
             /\ GetTopic(topics[procs'[p].topic].name) = procs'[p].topic
  BY <1>2 DEF IndInv, FramesInv
<1>3. ASSUME NEW p \in Procs, procs'[p].phase # "idle"
      PROVE  /\ procs'[p].topic \in DOMAIN topics'
             /\ GetTopic(topics[procs[p].topic].name)' = procs'[p].topic
  <2>1. /\ procs'[p].topic \in DOMAIN topics'
        /\ topics'[procs'[p].topic].name = topics[procs'[p].topic].name
    BY <1>2, <1>3 DEF MailKept, TopicsStay
  <2>2. GetTopic(topics[procs'[p].topic].name) # 0
    <3>1. procs'[p].topic \in DOMAIN topics
      BY <1>2, <1>3
    <3> QED  BY <3>1, Shapes DEF IndInv
  <2>3. PICK n : n = topics[procs'[p].topic].name
    OBVIOUS
  <2>4. GetTopic(n)' = procs'[p].topic
    BY <1>2, <1>3, <2>2, <2>3 DEF MailKept, TopicsStay
  <2> QED  BY <2>1, <2>3, <2>4
<1>4. ASSUME NEW p \in Procs, procs'[p].phase = "call"
      PROVE  /\ procs'[p].msg \in 1 .. Len(sent')
             /\ sent'[procs'[p].msg].topic = topics'[procs'[p].topic].name
             /\ ~Waits(procs[p].msg)'
  <2>1. procs'[p] = procs[p]
    BY <1>4
  <2>2. PICK m : m = procs[p].msg
    OBVIOUS
  <2>3. /\ m \in 1 .. Len(sent) /\ ~Waits(m)
        /\ sent[m].topic = topics[procs[p].topic].name
        /\ procs[p].topic \in DOMAIN topics
    BY <1>4, <2>1, <2>2 DEF IndInv, FramesInv
  <2>4. sent'[m] = sent[m] /\ ~Waits(m)' /\ topics'[procs[p].topic].name = topics[procs[p].topic].name
    BY <2>3 DEF MailKept, TopicsStay
  <2> QED  BY <1>1, <2>1, <2>2, <2>3, <2>4
<1>5. \A p, q \in Procs : procs'[p].phase = "call" /\ procs'[q].phase = "call" =>
         (procs'[p].msg = procs'[q].msg => p = q)
  BY DEF IndInv, FramesInv
<1> QED  BY <1>3, <1>4, <1>5 DEF FramesInv

\* And, with the subscribers left alone, what is known of what they have been passed.
LEMMA SubsKept ==
    ASSUME IndInv, MailKept, TypeOK', subs' = subs, subCount' = subCount,
           \A p \in Procs : procs'[p].phase = "call" \/ procs[p].phase = "call" =>
                               procs'[p] = procs[p]
    PROVE  GotInv' /\ NoDuplicate' /\ NoLoss'
<1>1. Len(sent) \in Nat /\ Len(sent') \in Nat /\ Len(sent) <= Len(sent')
  BY Shapes DEF IndInv, MailKept, TypeOK
<1>2. GotInv'
  <2>1. ASSUME NEW i \in SubIds, subs[i].active
        PROVE  i < subCount /\ subs[i].since <= Len(sent') /\ GetTopic(subs[i].topic)' # 0
    <3>1. i < subCount /\ subs[i].since <= Len(sent) /\ GetTopic(subs[i].topic) # 0
      BY <2>1 DEF IndInv, GotInv
    <3>2. subs[i].since \in Nat
      BY DEF IndInv, TypeOK, Sub
    <3>3. PICK n : n = subs[i].topic
      OBVIOUS
    <3>4. GetTopic(n)' # 0
      BY <3>1, <3>3 DEF MailKept, TopicsStay
    <3> QED  BY <1>1, <3>1, <3>2, <3>3, <3>4
  <2>2. ASSUME NEW i \in SubIds, NEW j \in DOMAIN subs[i].got
        PROVE  /\ subs[i].got[j] \in 1 .. Len(sent')
               /\ ~Waits(subs[i].got[j])'
               /\ \A p \in Procs : procs'[p].phase = "call" /\ procs'[p].next <= i =>
                     procs'[p].msg # subs[i].got[j]
    <3>1. PICK m : m = subs[i].got[j]
      OBVIOUS
    <3>2. m \in 1 .. Len(sent) /\ ~Waits(m)
      BY <3>1 DEF IndInv, GotInv
    <3>3. ~Waits(m)'
      BY <3>2 DEF MailKept
    <3>4. \A p \in Procs : procs'[p].phase = "call" /\ procs'[p].next <= i => procs'[p].msg # m
      BY <3>1 DEF IndInv, GotInv
    <3> QED  BY <1>1, <3>1, <3>2, <3>3, <3>4
  <2>3. \A i \in SubIds : ~subs[i].active => subs[i] = NoSub
    BY DEF IndInv, GotInv
  <2> QED  BY <2>1, <2>2, <2>3 DEF GotInv
<1>3. NoDuplicate'
  BY DEF IndInv, NoDuplicate
<1>4. NoLoss'
  <2> SUFFICES ASSUME NEW i \in SubIds, subs[i].active,
                      NEW k \in subs[i].since + 1 .. Len(sent'), sent'[k].topic = subs[i].topic
               PROVE  \/ \E j \in DOMAIN subs[i].got : subs[i].got[j] = k
                      \/ Waits(k)'
                      \/ \E p \in Procs : /\ procs'[p].phase = "call" /\ procs'[p].msg = k
                                          /\ procs'[p].next <= i
    BY DEF NoLoss
  <2>1. subs[i].since \in Nat /\ k \in 1 .. Len(sent')
    BY <1>1 DEF IndInv, TypeOK, Sub
  <2>2. subs[i].topic # NoName
    <3>1. GetTopic(subs[i].topic) # 0
      BY DEF IndInv, GotInv
    <3>2. GetTopic(subs[i].topic) \in DOMAIN topics /\ topics[GetTopic(subs[i].topic)].name = subs[i].topic
      BY <3>1, Shapes DEF IndInv
    <3>3. topics[GetTopic(subs[i].topic)] \in Topic
      BY <3>2, Shapes DEF IndInv
    <3> QED  BY <3>2, <3>3, NoNameAssumption DEF Topic
  <2>3. Waits(k)' \/ (k <= Len(sent) /\ ~Waits(k) /\ sent'[k] = sent[k])
    BY <2>1, <2>2 DEF MailKept
  <2>4. CASE k <= Len(sent) /\ ~Waits(k) /\ sent'[k] = sent[k]
    <3>1. k \in subs[i].since + 1 .. Len(sent)
      BY <1>1, <2>1, <2>4
    <3>2. \/ \E j \in DOMAIN subs[i].got : subs[i].got[j] = k
          \/ \E p \in Procs : procs[p].phase = "call" /\ procs[p].msg = k /\ procs[p].next <= i
      BY <2>4, <3>1 DEF IndInv, NoLoss
    <3> QED  BY <3>2
  <2> QED  BY <2>3, <2>4
<1> QED  BY <1>2, <1>3, <1>4

\* Which operations those are: one that leaves topics and messages alone,
LEMMA KeptWhenSame ==
    ASSUME IndInv, topics' = topics, sent' = sent
    PROVE  MailKept
<1>1. Len(sent) \in Nat
  BY Shapes DEF IndInv
<1>2. /\ TopicsStay /\ \A t : Queued(t)' = Queued(t) /\ \A k : Waits(k)' <=> Waits(k)
  BY TopicsSame
<1>3. NamesInv'
  BY DEF IndInv, NamesInv
<1>4. MailInv'
  BY <1>2 DEF IndInv, MailInv
<1> QED  BY <1>1, <1>2, <1>3, <1>4 DEF MailKept

\* one that creates a topic,
LEMMA KeptWhenAppended ==
    ASSUME IndInv, NEW n \in Names, Len(topics) < MaxTopics,
           topics' = Append(topics, NewTopic(n)), sent' = sent
    PROVE  MailKept /\ topics' \in Seq(Topic) /\ Len(topics') <= MaxTopics
                    /\ GetTopic(Stored[n])' # 0
<1>1. PICK u : u = Len(topics) + 1
  OBVIOUS
<1>2. /\ topics' \in Seq(Topic) /\ Len(topics') <= MaxTopics
      /\ TopicsStay /\ NamesInv' /\ GetTopic(Stored[n])' # 0
      /\ DOMAIN topics' = DOMAIN topics \cup {u}
      /\ \A t \in DOMAIN topics : Queued(t)' = Queued(t)
      /\ Queued(u)' = <<>>
      /\ \A k : Waits(k)' <=> Waits(k)
  BY <1>1, TopicAppended DEF IndInv
<1>3. \A t \in DOMAIN topics' : \A j \in DOMAIN Queued(t)' :
         t \in DOMAIN topics /\ j \in DOMAIN Queued(t) /\ Queued(t)'[j] = Queued(t)[j]
  <2>1. DOMAIN Queued(u)' = {}
    BY <1>2
  <2> QED  BY <1>2, <2>1
<1>4. MailInv'
  <2>1. \A t \in DOMAIN topics : topics'[t].name = topics[t].name
    BY <1>2 DEF TopicsStay
  <2>2. ASSUME NEW t \in DOMAIN topics', NEW j \in DOMAIN Queued(t)'
        PROVE  Queued(t)'[j] \in 1 .. Len(sent') /\ sent'[Queued(t)'[j]].topic = topics'[t].name
    BY <1>3, <2>1 DEF IndInv, MailInv
  <2>3. ASSUME NEW t \in DOMAIN topics', NEW j \in DOMAIN Queued(t)', NEW k \in DOMAIN Queued(t)',
               j < k
        PROVE  Queued(t)'[j] < Queued(t)'[k]
    BY <1>3, <2>3 DEF IndInv, MailInv
  <2>4. ASSUME NEW t \in DOMAIN topics', NEW v \in DOMAIN topics',
               NEW j \in DOMAIN Queued(t)', NEW k \in DOMAIN Queued(v)',
               Queued(t)'[j] = Queued(v)'[k]
        PROVE  t = v
    BY <1>3, <2>4 DEF IndInv, MailInv
  <2> QED  BY <2>2, <2>3, <2>4 DEF MailInv
<1>5. Len(sent) \in Nat
  BY Shapes DEF IndInv
<1> QED  BY <1>2, <1>4, <1>5 DEF MailKept

\* one that accepts a message,
LEMMA KeptWhenEnqueued ==
    ASSUME IndInv, NEW t \in DOMAIN topics, ~IsFull(t),
           NEW origin \in {"local", "mqtt"}, NEW forwarded \in BOOLEAN,
           Enqueue(t, origin, forwarded)
    PROVE  /\ MailKept /\ topics' \in Seq(Topic) /\ Len(topics') <= MaxTopics
           /\ sent' \in Seq(Message) /\ Len(sent') <= MaxAccepted
<1>1. PICK m : m = Len(sent) + 1
  OBVIOUS
<1>2. /\ topics' \in Seq(Topic) /\ Len(topics') = Len(topics)
      /\ TopicsStay /\ NamesInv' /\ MailInv'
      /\ sent' \in Seq(Message) /\ Len(sent') = m /\ Len(sent') <= MaxAccepted
      /\ \A k \in 1 .. Len(sent) : sent'[k] = sent[k] /\ (Waits(k)' <=> Waits(k))
      /\ Waits(m)'
      /\ sent'[m] = [topic |-> topics[t].name, origin |-> origin, forwarded |-> forwarded]
      /\ \A u \in DOMAIN topics : \A j \in DOMAIN Queued(u)' :
            Queued(u)'[j] = m \/ \E i \in DOMAIN Queued(u) : Queued(u)'[j] = Queued(u)[i]
  BY <1>1, Enqueued DEF IndInv
<1>3. /\ Len(sent) \in Nat /\ DOMAIN sent = 1 .. Len(sent) /\ Len(topics) <= MaxTopics
  BY Shapes DEF IndInv, TypeOK
<1>4. DOMAIN sent' = 1 .. m /\ \A k \in 1 .. m : k \in 1 .. Len(sent) \/ k = m
  BY <1>1, <1>2, <1>3
<1>5. Len(sent) <= Len(sent')
  BY <1>1, <1>2, <1>3
<1>6. \A k \in 1 .. Len(sent') : \/ Waits(k)'
                                 \/ k <= Len(sent) /\ ~Waits(k) /\ sent'[k] = sent[k]
  <2>1. \A k \in 1 .. Len(sent) : Waits(k)' \/ (k <= Len(sent) /\ ~Waits(k) /\ sent'[k] = sent[k])
    BY <1>2, <1>3
  <2> QED  BY <1>2, <1>4, <2>1
<1>7. m > Len(sent)
  BY <1>1, <1>3
<1> QED  BY <1>2, <1>3, <1>5, <1>6, <1>7 DEF MailKept

\* and one that clears a queue.
LEMMA KeptWhenCleared ==
    ASSUME IndInv, NEW n \in Names, ClearQueue(n)
    PROVE  /\ MailKept /\ topics' \in Seq(Topic) /\ Len(topics') <= MaxTopics
           /\ sent' \in Seq(Message) /\ Len(sent') <= MaxAccepted
<1>1. /\ topics' \in Seq(Topic) /\ Len(topics') = Len(topics)
      /\ TopicsStay /\ NamesInv' /\ MailInv'
      /\ sent' \in Seq(Message) /\ Len(sent') = Len(sent)
      /\ \A k \in 1 .. Len(sent) :
            /\ sent'[k].origin = sent[k].origin /\ sent'[k].forwarded = sent[k].forwarded
            /\ Waits(k)' => Waits(k)
            /\ IF Waits(k) /\ ~Waits(k)' THEN sent'[k].topic = NoName
                                         ELSE sent'[k] = sent[k]
      /\ \A u \in DOMAIN topics : \A j \in DOMAIN Queued(u)' :
            \E i \in DOMAIN Queued(u) : Queued(u)'[j] = Queued(u)[i]
  BY Cleared DEF IndInv
<1>2. /\ Len(sent) \in Nat /\ DOMAIN sent = 1 .. Len(sent) /\ Len(topics) <= MaxTopics
      /\ Len(sent) <= MaxAccepted
  BY Shapes DEF IndInv, TypeOK
<1>3. DOMAIN sent' = 1 .. Len(sent) /\ \A k \in 1 .. Len(sent) : k <= Len(sent)
  BY <1>1, <1>2
<1>4. Len(sent) <= Len(sent')
  BY <1>1, <1>2
<1> QED  BY <1>1, <1>2, <1>3, <1>4 DEF MailKept

-----------------------------------------------------------------------------
\* pubsub_create_topic
LEMMA CreateTopicStep ==
    ASSUME IndInv, NEW n \in Names, CreateTopic(n)
    PROVE  IndInv'
<1>1. MailKept /\ topics' \in Seq(Topic) /\ Len(topics') <= MaxTopics
  BY KeptWhenAppended DEF CreateTopic
<1>2. TypeOK'
  BY <1>1 DEF IndInv, TypeOK, CreateTopic
<1>3. FramesInv' /\ GotInv' /\ NoDuplicate' /\ NoLoss'
  BY <1>1, <1>2, FramesKept, SubsKept DEF CreateTopic
<1> QED  BY <1>1, <1>2, <1>3 DEF IndInv, MailKept

\* pubsub_publish
LEMMA PublishStep ==
    ASSUME IndInv, NEW n \in Names, Publish(n)
    PROVE  IndInv'
<1>1. GetTopic(n) \in DOMAIN topics
  BY Shapes DEF IndInv, Publish
<1>2. /\ MailKept /\ topics' \in Seq(Topic) /\ Len(topics') <= MaxTopics
      /\ sent' \in Seq(Message) /\ Len(sent') <= MaxAccepted
  <2>1. ("publish" \in mqtt) \in BOOLEAN
    OBVIOUS
  <2>2. ~IsFull(GetTopic(n)) /\ Enqueue(GetTopic(n), "local", "publish" \in mqtt)
    BY DEF Publish
  <2> QED  BY <1>1, <2>1, <2>2, KeptWhenEnqueued
<1>3. TypeOK'
  BY <1>2 DEF IndInv, TypeOK, Publish
<1>4. FramesInv' /\ GotInv' /\ NoDuplicate' /\ NoLoss'
  BY <1>2, <1>3, FramesKept, SubsKept DEF Publish
<1> QED  BY <1>2, <1>3, <1>4 DEF IndInv, MailKept

\* pubsub_poll_mqtt
LEMMA PollStep ==
    ASSUME IndInv, NEW n \in Names, Poll(n)
    PROVE  IndInv'
<1>1. CASE GetTopic(n) = 0 \/ IsFull(GetTopic(n))
  <2>1. UNCHANGED vars
    BY <1>1 DEF Poll, vars
  <2>2. MailKept
    BY <2>1, KeptWhenSame DEF vars
  <2>3. TypeOK'
    BY <2>1 DEF IndInv, TypeOK, vars
  <2>4. FramesInv' /\ GotInv' /\ NoDuplicate' /\ NoLoss'
    BY <2>1, <2>2, <2>3, FramesKept, SubsKept DEF vars
  <2> QED  BY <2>2, <2>3, <2>4 DEF IndInv, MailKept
<1>2. CASE ~(GetTopic(n) = 0 \/ IsFull(GetTopic(n)))
  <2>1. GetTopic(n) \in DOMAIN topics
    BY <1>2, Shapes DEF IndInv
  <2>2. /\ MailKept /\ topics' \in Seq(Topic) /\ Len(topics') <= MaxTopics
        /\ sent' \in Seq(Message) /\ Len(sent') <= MaxAccepted
    BY <1>2, <2>1, KeptWhenEnqueued DEF Poll
  <2>3. TypeOK'
    BY <2>2 DEF IndInv, TypeOK, Poll
  <2>4. FramesInv' /\ GotInv' /\ NoDuplicate' /\ NoLoss'
    BY <2>2, <2>3, FramesKept, SubsKept DEF Poll
  <2> QED  BY <2>2, <2>3, <2>4 DEF IndInv, MailKept
<1> QED  BY <1>1, <1>2

\* pubsub_clear_queue
LEMMA ClearQueueStep ==
    ASSUME IndInv, NEW n \in Names, ClearQueue(n)
    PROVE  IndInv'
<1>1. /\ MailKept /\ topics' \in Seq(Topic) /\ Len(topics') <= MaxTopics
      /\ sent' \in Seq(Message) /\ Len(sent') <= MaxAccepted
  BY KeptWhenCleared
<1>2. TypeOK'
  BY <1>1 DEF IndInv, TypeOK, ClearQueue
<1>3. FramesInv' /\ GotInv' /\ NoDuplicate' /\ NoLoss'
  BY <1>1, <1>2, FramesKept, SubsKept DEF ClearQueue
<1> QED  BY <1>1, <1>2, <1>3 DEF IndInv, MailKept

\* A step that leaves topics, subscribers and messages alone, and moves only
\* processing loops that are not passing a message.
LEMMA LoopsMove ==
    ASSUME IndInv, topics' = topics, sent' = sent, subs' = subs, subCount' = subCount,
           mqtt' \in SUBSET {"publish", "poll"}, procs' \in [Procs -> Frame],
           \A p \in Procs : \/ procs'[p] = procs[p]
                            \/ /\ procs[p].phase # "call"
                               /\ \/ procs'[p].phase = "idle"
                                  \/ /\ procs'[p].phase = "loop"
                                     /\ procs'[p].topic \in DOMAIN topics
                                     /\ GetTopic(topics[procs'[p].topic].name) = procs'[p].topic
    PROVE  IndInv'
<1>1. MailKept
  BY KeptWhenSame
<1>2. TypeOK'
  BY DEF IndInv, TypeOK
<1>3. FramesInv'
  BY <1>1, <1>2, FramesKept
<1>4. GotInv' /\ NoDuplicate' /\ NoLoss'
  BY <1>1, <1>2, SubsKept
<1> QED  BY <1>1, <1>2, <1>3, <1>4 DEF IndInv, MailKept

\* pubsub_set_mqtt_adapter, and steps that change nothing.
LEMMA SetAdapterStep ==
    ASSUME IndInv, (\E fns \in Adapters : SetAdapter(fns)) \/ UNCHANGED vars
    PROVE  IndInv'
<1>1. mqtt' \in SUBSET {"publish", "poll"}
  BY AdaptersAssumption DEF SetAdapter, vars, IndInv, TypeOK
<1>2. procs \in [Procs -> Frame]
  BY DEF IndInv, TypeOK
<1> QED  BY <1>1, <1>2, LoopsMove DEF SetAdapter, vars

\* What a loop holds when it turns to topic t.
LEMMA LoopFrame ==
    ASSUME IndInv, NEW t \in DOMAIN topics,
           NEW f, f.phase = "loop", f.topic = GetTopic(topics[t].name)
    PROVE  f.topic \in DOMAIN topics /\ GetTopic(topics[f.topic].name) = f.topic
<1>1. GetTopic(topics[t].name) # 0
  BY Shapes DEF IndInv
<1> QED  BY <1>1, Shapes DEF IndInv

\* pubsub_process_all is called,
LEMMA StartAllStep ==
    ASSUME IndInv, NEW p \in Procs, StartAll(p)
    PROVE  IndInv'
<1> DEFINE f == [Idle EXCEPT !.phase = "loop", !.all = TRUE, !.index = 1,
                             !.topic = GetTopic(topics[1].name)]
<1>1. /\ topics' = topics /\ sent' = sent /\ subs' = subs /\ subCount' = subCount
      /\ mqtt' = mqtt /\ procs[p].phase = "idle" /\ topics # <<>>
      /\ procs' = [procs EXCEPT ![p] = f]
  BY DEF StartAll
<1>2. 1 \in DOMAIN topics
  BY <1>1, Shapes, EmptySeq DEF IndInv
<1>3. f \in Frame /\ f.phase = "loop" /\ f.topic = GetTopic(topics[1].name)
  <2>1. GetTopic(topics[1].name) \in 0 .. MaxTopics
    BY Shapes DEF IndInv
  <2>2. Idle \in Frame
    BY Sizes DEF Idle, Frame
  <2>3. 1 \in 0 .. MaxTopics
    BY Sizes
  <2> QED  BY <2>1, <2>2, <2>3 DEF Frame
<1> HIDE DEF f
<1>4. f.topic \in DOMAIN topics /\ GetTopic(topics[f.topic].name) = f.topic
  BY <1>2, <1>3, LoopFrame
<1>5. procs' \in [Procs -> Frame] /\ procs'[p] = f /\ \A q \in Procs : q # p => procs'[q] = procs[q]
  BY <1>1, <1>3 DEF IndInv, TypeOK
<1>6. mqtt' \in SUBSET {"publish", "poll"}
  BY <1>1 DEF IndInv, TypeOK
<1> QED  BY <1>1, <1>3, <1>4, <1>5, <1>6, LoopsMove

\* or pubsub_process_topic is.
LEMMA StartTopicStep ==
    ASSUME IndInv, NEW p \in Procs, NEW n \in Names, StartTopic(p, n)
    PROVE  IndInv'
<1> DEFINE f == [Idle EXCEPT !.phase = "loop", !.topic = GetTopic(n)]
<1>1. /\ topics' = topics /\ sent' = sent /\ subs' = subs /\ subCount' = subCount
      /\ mqtt' = mqtt /\ procs[p].phase = "idle" /\ GetTopic(n) # 0
      /\ procs' = [procs EXCEPT ![p] = f]
  BY DEF StartTopic
<1>2. GetTopic(n) \in DOMAIN topics /\ topics[GetTopic(n)].name = n
  BY <1>1, Shapes DEF IndInv
<1>3. f \in Frame /\ f.phase = "loop" /\ f.topic = GetTopic(n)
  <2>1. GetTopic(n) \in 0 .. MaxTopics
    BY Shapes DEF IndInv
  <2>2. Idle \in Frame
    BY Sizes DEF Idle, Frame
  <2> QED  BY <2>1, <2>2 DEF Frame
<1> HIDE DEF f
<1>4. f.topic \in DOMAIN topics /\ GetTopic(topics[f.topic].name) = f.topic
  BY <1>2, <1>3
<1>5. procs' \in [Procs -> Frame] /\ procs'[p] = f /\ \A q \in Procs : q # p => procs'[q] = procs[q]
  BY <1>1, <1>3 DEF IndInv, TypeOK
<1>6. mqtt' \in SUBSET {"publish", "poll"}
  BY <1>1 DEF IndInv, TypeOK
<1> QED  BY <1>1, <1>3, <1>4, <1>5, <1>6, LoopsMove

\* The loop finds the ring empty.
LEMMA FinishStep ==
    ASSUME IndInv, NEW p \in Procs, Finish(p)
    PROVE  IndInv'
<1> DEFINE next == procs[p].index + 1
           f == [procs[p] EXCEPT !.index = next, !.topic = GetTopic(topics[next].name)]
<1>1. /\ topics' = topics /\ sent' = sent /\ subs' = subs /\ subCount' = subCount
      /\ mqtt' = mqtt /\ procs[p].phase = "loop" /\ procs[p] \in Frame
  BY DEF Finish, IndInv, TypeOK
<1>2. mqtt' \in SUBSET {"publish", "poll"}
  BY <1>1 DEF IndInv, TypeOK
<1>3. CASE procs[p].all /\ next <= Len(topics)
  <2>1. procs' = [procs EXCEPT ![p] = f]
    BY <1>3 DEF Finish, IndInv, TypeOK
  <2>2. next \in DOMAIN topics /\ next \in 0 .. MaxTopics
    BY <1>1, <1>3, Shapes, Sizes DEF IndInv, Frame
  <2>3. GetTopic(topics[next].name) \in 0 .. MaxTopics
    BY Shapes DEF IndInv
  <2>4. f \in Frame /\ f.phase = "loop" /\ f.topic = GetTopic(topics[next].name)
    BY <1>1, <2>2, <2>3 DEF Frame
  <2> HIDE DEF f, next
  <2>5. f.topic \in DOMAIN topics /\ GetTopic(topics[f.topic].name) = f.topic
    BY <2>2, <2>4, LoopFrame
  <2>6. procs' \in [Procs -> Frame] /\ procs'[p] = f /\ \A q \in Procs : q # p => procs'[q] = procs[q]
    BY <2>1, <2>4 DEF IndInv, TypeOK
  <2> QED  BY <1>1, <1>2, <2>4, <2>5, <2>6, LoopsMove
<1>4. CASE ~(procs[p].all /\ next <= Len(topics))
  <2>1. procs' = [procs EXCEPT ![p] = Idle]
    BY <1>4 DEF Finish, IndInv, TypeOK
  <2>2. Idle \in Frame /\ Idle.phase = "idle"
    BY Sizes DEF Idle, Frame
  <2>3. procs' \in [Procs -> Frame] /\ procs'[p] = Idle /\ \A q \in Procs : q # p => procs'[q] = procs[q]
    BY <2>1, <2>2 DEF IndInv, TypeOK
  <2> QED  BY <1>1, <1>2, <2>2, <2>3, LoopsMove
<1> QED  BY <1>3, <1>4

\* A subscription comes or goes: the slot it takes or leaves has nothing yet.
LEMMA SlotReplaced ==
    ASSUME IndInv, MailKept, sent' = sent, procs' = procs, NEW i \in SubIds,
           NEW new \in Sub, subs' = [subs EXCEPT ![i] = new], new.got = <<>>,
           ~new.active => new = NoSub,
           new.active => /\ i < subCount' /\ new.since = Len(sent)
                         /\ GetTopic(new.topic)' # 0,
           subCount' \in 0 .. MaxSubs, subCount <= subCount'
    PROVE  GotInv' /\ NoDuplicate' /\ NoLoss'
<1>1. /\ Len(sent) \in Nat /\ subCount \in 0 .. MaxSubs /\ DOMAIN new.got = {}
      /\ subs \in [SubIds -> Sub] /\ MaxSubs \in Nat
  BY Shapes, Sizes DEF IndInv, TypeOK
<1>2. subs'[i] = new /\ \A j \in SubIds : j # i => subs'[j] = subs[j]
  BY <1>1
<1>3. GotInv'
  <2>1. ASSUME NEW j \in SubIds, subs'[j].active
        PROVE  j < subCount' /\ subs'[j].since <= Len(sent) /\ GetTopic(subs[j].topic)' # 0
    <3>1. CASE j = i
      BY <1>1, <1>2, <2>1, <3>1
    <3>2. CASE j # i
      <4>1. subs[j].active
        BY <1>2, <2>1, <3>2
      <4>2. j < subCount /\ subs[j].since <= Len(sent) /\ GetTopic(subs[j].topic) # 0
        BY <4>1 DEF IndInv, GotInv
      <4>3. PICK n : n = subs[j].topic
        OBVIOUS
      <4>4. GetTopic(n)' # 0
        BY <4>2, <4>3 DEF MailKept, TopicsStay
      <4>5. j < subCount'
        BY <1>1, <4>2 DEF SubIds
      <4> QED  BY <1>2, <3>2, <4>2, <4>3, <4>4, <4>5
    <3> QED  BY <3>1, <3>2
  <2>2. ASSUME NEW j \in SubIds, NEW k \in DOMAIN subs'[j].got
        PROVE  /\ subs'[j].got[k] \in 1 .. Len(sent)
               /\ ~Waits(subs[j].got[k])'
               /\ \A p \in Procs : procs[p].phase = "call" /\ procs[p].next <= j =>
                     procs[p].msg # subs'[j].got[k]
    <3>1. j # i /\ subs'[j] = subs[j]
      BY <1>1, <1>2
    <3>2. PICK m : m = subs[j].got[k]
      OBVIOUS
    <3>3. /\ m \in 1 .. Len(sent) /\ ~Waits(m)
          /\ \A p \in Procs : procs[p].phase = "call" /\ procs[p].next <= j => procs[p].msg # m
      BY <3>1, <3>2 DEF IndInv, GotInv
    <3>4. ~Waits(m)'
      BY <3>3 DEF MailKept
    <3> QED  BY <3>1, <3>2, <3>3, <3>4
  <2>3. \A j \in SubIds : ~subs'[j].active => subs'[j] = NoSub
    BY <1>2 DEF IndInv, GotInv
  <2> QED  BY <2>1, <2>2, <2>3 DEF GotInv
<1>4. NoDuplicate'
  <2>1. \A j \in SubIds : \A k, l \in DOMAIN subs'[j].got : k # l => subs'[j].got[k] # subs'[j].got[l]
    BY <1>1, <1>2 DEF IndInv, NoDuplicate
  <2> QED  BY <2>1 DEF NoDuplicate
<1>5. NoLoss'
  <2> SUFFICES ASSUME NEW j \in SubIds, subs'[j].active,
                      NEW k \in subs'[j].since + 1 .. Len(sent), sent[k].topic = subs'[j].topic
               PROVE  \/ \E l \in DOMAIN subs'[j].got : subs'[j].got[l] = k
                      \/ Waits(k)'
                      \/ \E p \in Procs : /\ procs[p].phase = "call" /\ procs[p].msg = k
                                          /\ procs[p].next <= j
    BY DEF NoLoss
  <2>1. j # i /\ subs'[j] = subs[j] /\ subs[j].since \in Nat
    BY <1>1, <1>2 DEF Sub
  <2>2. k \in 1 .. Len(sent) /\ sent' = sent
    BY <1>1, <2>1
  <2>3. sent[k].topic # NoName
    <3>1. GetTopic(subs[j].topic) # 0
      BY <2>1 DEF IndInv, GotInv
    <3>2. GetTopic(subs[j].topic) \in DOMAIN topics /\ topics[GetTopic(subs[j].topic)].name = subs[j].topic
      BY <3>1, Shapes DEF IndInv
    <3>3. topics[GetTopic(subs[j].topic)] \in Topic
      BY <3>2, Shapes DEF IndInv
    <3> QED  BY <2>1, <3>2, <3>3, NoNameAssumption DEF Topic
  <2>4. Waits(k) => Waits(k)'
    BY <2>2, <2>3 DEF MailKept
  <2>5. \/ \E l \in DOMAIN subs[j].got : subs[j].got[l] = k
        \/ Waits(k)
        \/ \E p \in Procs : procs[p].phase = "call" /\ procs[p].msg = k /\ procs[p].next <= j
    BY <2>1 DEF IndInv, NoLoss
  <2> QED  BY <2>1, <2>4, <2>5
<1> QED  BY <1>3, <1>4, <1>5

\* pubsub_subscribe
LEMMA SubscribeStep ==
    ASSUME IndInv, NEW n \in Names, Subscribe(n)
    PROVE  IndInv'
<1>1. /\ MailKept /\ topics' \in Seq(Topic) /\ Len(topics') <= MaxTopics
      /\ GetTopic(Stored[n])' # 0
  <2>1. CASE GetTopic(n) # 0 /\ UNCHANGED topics
    <3>1. GetTopic(n) \in DOMAIN topics /\ topics[GetTopic(n)].name = n
      BY <2>1, Shapes DEF IndInv
    <3>2. Stored[n] = n
      BY <3>1 DEF IndInv, NamesInv
    <3>3. GetTopic(n)' # 0
      BY <2>1, TopicsSame
    <3> QED  BY <2>1, <3>2, <3>3, KeptWhenSame DEF IndInv, TypeOK, Subscribe
  <2>2. CASE GetTopic(n) = 0 /\ Len(topics) < MaxTopics /\ topics' = Append(topics, NewTopic(n))
    BY <2>2, KeptWhenAppended DEF Subscribe
  <2> QED  BY <2>1, <2>2 DEF Subscribe
<1> DEFINE new == [active |-> TRUE, topic |-> Stored[n], since |-> Len(sent), got |-> <<>>]
<1>2. PICK i \in SubIds : subs' = [subs EXCEPT ![i] = new] /\ subCount' = CountWith(i)
  BY DEF Subscribe
<1>3. /\ Len(sent) \in 0 .. MaxAccepted /\ subs \in [SubIds -> Sub]
      /\ subCount \in 0 .. MaxSubs /\ MaxSubs \in Nat
  BY Shapes, Sizes DEF IndInv, TypeOK
<1>4. /\ new \in Sub /\ new.active /\ new.got = <<>> /\ new.since = Len(sent)
      /\ new.topic = Stored[n]
  BY <1>3, StoredAssumption DEF Sub
<1> HIDE DEF new
<1>5. subCount' \in 0 .. MaxSubs /\ subCount <= subCount' /\ i < subCount'
  BY <1>2, <1>3 DEF CountWith, SubIds
<1>6. subs' \in [SubIds -> Sub]
  BY <1>2, <1>3, <1>4
<1>7. TypeOK'
  BY <1>1, <1>5, <1>6 DEF IndInv, TypeOK, Subscribe
<1>8. FramesInv'
  BY <1>1, <1>7, FramesKept DEF Subscribe
<1>9. GotInv' /\ NoDuplicate' /\ NoLoss'
  <2>1. PICK x : x = new.topic /\ GetTopic(x)' # 0
    BY <1>1, <1>4
  <2> QED  BY <1>1, <1>2, <1>4, <1>5, <2>1, SlotReplaced DEF Subscribe
<1> QED  BY <1>1, <1>7, <1>8, <1>9 DEF IndInv, MailKept

\* pubsub_unsubscribe
LEMMA UnsubscribeStep ==
    ASSUME IndInv, NEW i \in SubIds, Unsubscribe(i)
    PROVE  IndInv'
<1>1. MailKept
  BY KeptWhenSame DEF Unsubscribe
<1>2. NoSub \in Sub /\ ~NoSub.active /\ NoSub.got = <<>>
  BY Sizes DEF NoSub, Sub
<1>3. /\ subs \in [SubIds -> Sub] /\ subCount \in 0 .. MaxSubs /\ MaxSubs \in Nat
  BY Sizes DEF IndInv, TypeOK
<1>4. TypeOK'
  BY <1>2, <1>3 DEF IndInv, TypeOK, Unsubscribe
<1>5. FramesInv'
  BY <1>1, <1>4, FramesKept DEF Unsubscribe
<1>6. GotInv' /\ NoDuplicate' /\ NoLoss'
  <2>1. subCount' \in 0 .. MaxSubs /\ subCount <= subCount'
    BY <1>3 DEF Unsubscribe
  <2> QED  BY <1>1, <1>2, <2>1, SlotReplaced DEF Unsubscribe
<1> QED  BY <1>1, <1>4, <1>5, <1>6 DEF IndInv, MailKept

\* pubsub_process_topic copies the oldest message and moves the tail on.
LEMMA TakeStep ==
    ASSUME IndInv, NEW p \in Procs, Take(p)
    PROVE  IndInv'
<1>1. PICK t \in DOMAIN topics : t = procs[p].topic
  BY DEF Take, IndInv, FramesInv
<1>2. PICK m : m = topics[t].ring[topics[t].tail]
  OBVIOUS
<1>3. /\ topics' \in Seq(Topic) /\ Len(topics') = Len(topics)
      /\ DOMAIN topics' = DOMAIN topics
      /\ TopicsStay /\ NamesInv' /\ MailInv'
      /\ \A n : GetTopic(n)' = GetTopic(n)
      /\ m \in 1 .. Len(sent) /\ sent[m].topic = topics[t].name
      /\ Waits(m) /\ ~Waits(m)'
      /\ \A k : k # m => (Waits(k)' <=> Waits(k))
  <2>1. TypeOK /\ NamesInv /\ MailInv
    BY DEF IndInv
  <2> QED  BY <1>1, <1>2, <2>1, Taken
<1>4. /\ Len(sent) \in 0 .. MaxAccepted /\ MaxAccepted \in Nat
      /\ Len(topics) <= MaxTopics /\ procs \in [Procs -> Frame]
      /\ DOMAIN sent = 1 .. Len(sent)
  BY Shapes, Sizes DEF IndInv, TypeOK
<1>5. \A k : Waits(k)' => Waits(k)
  BY <1>3
<1>6. /\ sent' = sent /\ subs' = subs /\ subCount' = subCount /\ mqtt' = mqtt
      /\ procs[p].phase = "loop"
      /\ procs' = [procs EXCEPT ![p].phase = "call", ![p].next = 0, ![p].msg = m]
  BY <1>1, <1>2 DEF Take
<1>7. /\ procs'[p].phase = "call" /\ procs'[p].next = 0 /\ procs'[p].msg = m
      /\ procs'[p].topic = procs[p].topic
      /\ procs'[p] \in Frame
      /\ \A q \in Procs : q # p => procs'[q] = procs[q]
  <2>1. procs[p] \in Frame /\ m \in 0 .. MaxAccepted /\ 0 \in 0 .. MaxSubs
    BY <1>3, <1>4, Sizes
  <2> QED  BY <1>4, <1>6, <2>1 DEF Frame
<1>8. TypeOK'
  <2>1. procs' \in [Procs -> Frame]
    BY <1>4, <1>6, <1>7
  <2> QED  BY <1>3, <1>4, <1>6, <2>1 DEF IndInv, TypeOK
<1>9. FramesInv'
  <2>1. ASSUME NEW q \in Procs, procs'[q].phase # "idle"
        PROVE  /\ procs'[q].topic \in DOMAIN topics'
               /\ GetTopic(topics[procs[q].topic].name)' = procs'[q].topic
    <3>1. procs'[q].topic = procs[q].topic /\ procs[q].phase # "idle"
      BY <1>6, <1>7, <2>1
    <3>2. procs[q].topic \in DOMAIN topics /\ GetTopic(topics[procs[q].topic].name) = procs[q].topic
      BY <3>1 DEF IndInv, FramesInv
    <3>3. topics'[procs[q].topic].name = topics[procs[q].topic].name
      BY <1>3, <3>2 DEF TopicsStay
    <3>4. PICK n : n = topics[procs[q].topic].name
      OBVIOUS
    <3>5. GetTopic(n)' = procs[q].topic
      BY <1>3, <3>2, <3>4
    <3> QED  BY <1>3, <3>1, <3>2, <3>3, <3>4, <3>5
  <2>2. ASSUME NEW q \in Procs, procs'[q].phase = "call"
        PROVE  /\ procs'[q].msg \in 1 .. Len(sent')
               /\ sent'[procs'[q].msg].topic = topics'[procs'[q].topic].name
               /\ ~Waits(procs[q].msg)'
    <3>1. CASE q = p
      <4>1. topics'[t].name = topics[t].name
        BY <1>3 DEF TopicsStay
      <4> QED  BY <1>1, <1>3, <1>6, <1>7, <3>1, <4>1
    <3>2. CASE q # p
      <4>1. procs'[q] = procs[q] /\ procs[q].phase = "call"
        BY <1>7, <2>2, <3>2
      <4>2. PICK k : k = procs[q].msg
        OBVIOUS
      <4>3. /\ k \in 1 .. Len(sent) /\ ~Waits(k) /\ procs[q].topic \in DOMAIN topics
            /\ sent[k].topic = topics[procs[q].topic].name
        BY <4>1, <4>2 DEF IndInv, FramesInv
      <4>4. ~Waits(k)' /\ topics'[procs[q].topic].name = topics[procs[q].topic].name
        BY <1>3, <1>5, <4>3 DEF TopicsStay
      <4> QED  BY <1>6, <4>1, <4>2, <4>3, <4>4
    <3> QED  BY <3>1, <3>2
  <2>3. ASSUME NEW q \in Procs, NEW r \in Procs,
               procs'[q].phase = "call", procs'[r].phase = "call", procs'[q].msg = procs'[r].msg
        PROVE  q = r
    <3>1. \A x \in Procs : x # p /\ procs'[x].phase = "call" => procs'[x].msg # m
      BY <1>3, <1>7 DEF IndInv, FramesInv
    <3>2. q # p /\ r # p => q = r
      BY <1>7, <2>3 DEF IndInv, FramesInv
    <3> QED  BY <1>7, <2>3, <3>1, <3>2
  <2> QED  BY <2>1, <2>2, <2>3 DEF FramesInv
<1>10. GotInv'
  <2>1. ASSUME NEW i \in SubIds, subs[i].active
        PROVE  i < subCount /\ subs[i].since <= Len(sent) /\ GetTopic(subs[i].topic)' # 0
    <3>1. i < subCount /\ subs[i].since <= Len(sent) /\ GetTopic(subs[i].topic) # 0
      BY <2>1 DEF IndInv, GotInv
    <3>2. PICK n : n = subs[i].topic
      OBVIOUS
    <3>3. GetTopic(n)' # 0
      BY <1>3, <3>1, <3>2
    <3> QED  BY <1>6, <3>1, <3>2, <3>3
  <2>2. ASSUME NEW i \in SubIds, NEW j \in DOMAIN subs[i].got
        PROVE  /\ subs[i].got[j] \in 1 .. Len(sent)
               /\ ~Waits(subs[i].got[j])'
               /\ \A q \in Procs : procs'[q].phase = "call" /\ procs'[q].next <= i =>
                     procs'[q].msg # subs[i].got[j]
    <3>1. PICK k : k = subs[i].got[j]
      OBVIOUS
    <3>2. /\ k \in 1 .. Len(sent) /\ ~Waits(k)
          /\ \A q \in Procs : procs[q].phase = "call" /\ procs[q].next <= i => procs[q].msg # k
      BY <3>1 DEF IndInv, GotInv
    <3>3. ~Waits(k)' /\ k # m
      BY <1>3, <1>5, <3>2
    <3> QED  BY <1>6, <1>7, <3>1, <3>2, <3>3
  <2>3. \A i \in SubIds : ~subs[i].active => subs[i] = NoSub
    BY DEF IndInv, GotInv
  <2>4. sent' = sent /\ subs' = subs /\ subCount' = subCount
    BY <1>6
  <2> QED  BY <2>1, <2>2, <2>3, <2>4 DEF GotInv
<1>11. NoDuplicate'
  BY <1>6 DEF IndInv, NoDuplicate
<1>12. NoLoss'
  <2> SUFFICES ASSUME NEW i \in SubIds, subs[i].active,
                      NEW k \in subs[i].since + 1 .. Len(sent), sent[k].topic = subs[i].topic
               PROVE  \/ \E j \in DOMAIN subs[i].got : subs[i].got[j] = k
                      \/ Waits(k)'
                      \/ \E q \in Procs : /\ procs'[q].phase = "call" /\ procs'[q].msg = k
                                          /\ procs'[q].next <= i
    <3>1. sent' = sent /\ subs' = subs
      BY <1>6
    <3> QED  BY <3>1 DEF NoLoss
  <2>1. CASE k = m
    <3>1. 0 <= i
      BY Sizes DEF SubIds
    <3> QED  BY <1>7, <2>1, <3>1
  <2>2. CASE k # m
    <3>1. \/ \E j \in DOMAIN subs[i].got : subs[i].got[j] = k
          \/ Waits(k)
          \/ \E q \in Procs : procs[q].phase = "call" /\ procs[q].msg = k /\ procs[q].next <= i
      BY DEF IndInv, NoLoss
    <3>2. \A q \in Procs : procs[q].phase = "call" => procs'[q] = procs[q]
      BY <1>6, <1>7
    <3> QED  BY <1>3, <2>2, <3>1, <3>2
  <2> QED  BY <2>1, <2>2
<1> QED  BY <1>3, <1>8, <1>9, <1>10, <1>11, <1>12 DEF IndInv

\* A callback is called.
LEMMA CallBackStep ==
    ASSUME IndInv, NEW p \in Procs, CallBack(p)
    PROVE  IndInv'
<1>1. MailKept
  BY KeptWhenSame DEF CallBack
<1>2. /\ topics' = topics /\ sent' = sent /\ subCount' = subCount /\ mqtt' = mqtt
      /\ procs[p].phase = "call"
  BY DEF CallBack
<1>3. PICK i \in Callable(p) : /\ \A j \in Callable(p) : i <= j
                               /\ subs' = [subs EXCEPT ![i].got = Append(@, procs[p].msg)]
                               /\ procs' = [procs EXCEPT ![p].next = i + 1]
  BY DEF CallBack
<1>4. PICK m : m = procs[p].msg
  OBVIOUS
<1>5. /\ m \in 1 .. Len(sent) /\ ~Waits(m)
      /\ sent[m].topic = topics[procs[p].topic].name
  BY <1>2, <1>4 DEF IndInv, FramesInv
<1>6. /\ Len(sent) \in 0 .. MaxAccepted /\ MaxAccepted \in Nat /\ MaxSubs \in Nat \ {0}
      /\ procs \in [Procs -> Frame] /\ subs \in [SubIds -> Sub]
  BY Shapes, Sizes DEF IndInv, TypeOK
<1>7. /\ i \in SubIds /\ subs[i].active /\ subs[i].topic = topics[procs[p].topic].name
      /\ procs[p].next <= i /\ i \in Nat /\ i + 1 \in 0 .. MaxSubs
      /\ procs[p].next \in Nat
  BY <1>6 DEF Callable, SubIds, Frame
<1>8. /\ procs'[p].phase = "call" /\ procs'[p].msg = m /\ procs'[p].next = i + 1
      /\ procs'[p].topic = procs[p].topic /\ procs'[p] \in Frame
      /\ \A q \in Procs : q # p => procs'[q] = procs[q]
  <2>1. procs[p] \in Frame
    BY <1>6
  <2> QED  BY <1>2, <1>3, <1>4, <1>6, <1>7, <2>1 DEF Frame
<1>9. /\ subs'[i].got = Append(subs[i].got, m) /\ subs'[i].active
      /\ subs'[i].topic = subs[i].topic /\ subs'[i].since = subs[i].since
      /\ subs[i].got \in Seq(1 .. MaxAccepted)
      /\ \A j \in SubIds : j # i => subs'[j] = subs[j]
      /\ subs' \in [SubIds -> Sub]
  <2>1. subs[i] \in Sub /\ subs[i].got \in Seq(1 .. MaxAccepted) /\ m \in 1 .. MaxAccepted
    BY <1>5, <1>6, <1>7 DEF Sub
  <2>2. Append(subs[i].got, m) \in Seq(1 .. MaxAccepted)
    BY <2>1
  <2>3. [subs[i] EXCEPT !.got = Append(@, m)] \in Sub
    BY <2>1, <2>2 DEF Sub
  <2>4. subs' = [subs EXCEPT ![i] = [subs[i] EXCEPT !.got = Append(@, m)]]
    BY <1>3, <1>4, <1>6
  <2> QED  BY <1>6, <1>7, <2>1, <2>3, <2>4 DEF Sub
<1>10. PICK L \in Nat : L = Len(subs[i].got)
  BY <1>9
<1>11. /\ DOMAIN subs[i].got = 1 .. L /\ DOMAIN subs'[i].got = 1 .. L + 1
       /\ \A j \in 1 .. L : subs'[i].got[j] = subs[i].got[j]
       /\ subs'[i].got[L + 1] = m
       /\ \A j \in 1 .. L + 1 : j \in 1 .. L \/ j = L + 1
  <2>1. m \in 1 .. MaxAccepted
    BY <1>5, <1>6
  <2>2. /\ Append(subs[i].got, m) \in Seq(1 .. MaxAccepted)
        /\ Len(Append(subs[i].got, m)) = L + 1
        /\ \A j \in 1 .. L : Append(subs[i].got, m)[j] = subs[i].got[j]
        /\ Append(subs[i].got, m)[L + 1] = m
    BY <1>9, <1>10, <2>1, AppendProperties
  <2>3. DOMAIN Append(subs[i].got, m) = 1 .. L + 1 /\ DOMAIN subs[i].got = 1 .. L
    BY <1>9, <1>10, <2>2
  <2>4. \A j \in 1 .. L + 1 : j \in 1 .. L \/ j = L + 1
    OBVIOUS
  <2> QED  BY <1>9, <2>2, <2>3, <2>4
<1>12. \A j \in 1 .. L : subs[i].got[j] # m
  BY <1>2, <1>4, <1>7, <1>11 DEF IndInv, GotInv
<1>13. TypeOK'
  <2>1. procs' \in [Procs -> Frame]
    BY <1>3, <1>6, <1>8
  <2> QED  BY <1>2, <1>9, <2>1 DEF IndInv, TypeOK
<1>14. FramesInv'
  <2>1. \A q \in Procs : /\ procs'[q].phase = procs[q].phase /\ procs'[q].topic = procs[q].topic
                         /\ procs'[q].msg = procs[q].msg
    BY <1>2, <1>4, <1>8
  <2>2. /\ \A n : GetTopic(n)' = GetTopic(n)
        /\ \A k : Waits(k)' <=> Waits(k)
    BY <1>2, TopicsSame
  <2>3. ASSUME NEW q \in Procs, procs'[q].phase # "idle"
        PROVE  /\ procs'[q].topic \in DOMAIN topics'
               /\ GetTopic(topics[procs[q].topic].name)' = procs'[q].topic
    <3>1. PICK n : n = topics[procs[q].topic].name
      OBVIOUS
    <3>2. procs[q].topic \in DOMAIN topics /\ GetTopic(n) = procs[q].topic
      BY <2>1, <2>3, <3>1 DEF IndInv, FramesInv
    <3> QED  BY <1>2, <2>1, <2>2, <3>1, <3>2
  <2>4. ASSUME NEW q \in Procs, procs'[q].phase = "call"
        PROVE  /\ procs'[q].msg \in 1 .. Len(sent')
               /\ sent'[procs'[q].msg].topic = topics'[procs'[q].topic].name
               /\ ~Waits(procs[q].msg)'
    <3>1. PICK k : k = procs[q].msg
      OBVIOUS
    <3>2. k \in 1 .. Len(sent) /\ ~Waits(k) /\ sent[k].topic = topics[procs[q].topic].name
      BY <2>1, <2>4, <3>1 DEF IndInv, FramesInv
    <3> QED  BY <1>2, <2>1, <2>2, <3>1, <3>2
  <2>5. \A q, r \in Procs : procs'[q].phase = "call" /\ procs'[r].phase = "call" =>
           (procs'[q].msg = procs'[r].msg => q = r)
    BY <2>1 DEF IndInv, FramesInv
  <2> QED  BY <2>3, <2>4, <2>5 DEF FramesInv
<1>15. GotInv'
  <2>1. ASSUME NEW j \in SubIds, subs'[j].active
        PROVE  j < subCount' /\ subs'[j].since <= Len(sent') /\ GetTopic(subs[j].topic)' # 0
    <3>1. /\ subs[j].active /\ subs'[j].since = subs[j].since /\ subs'[j].topic = subs[j].topic
      BY <1>7, <1>9, <2>1
    <3>2. PICK n : n = subs[j].topic
      OBVIOUS
    <3>3. j < subCount /\ subs[j].since <= Len(sent) /\ GetTopic(n) # 0
      BY <3>1, <3>2 DEF IndInv, GotInv
    <3>4. GetTopic(n)' # 0
      BY <1>2, <3>3, TopicsSame
    <3> QED  BY <1>2, <3>1, <3>2, <3>3, <3>4
  <2>2. ASSUME NEW j \in SubIds, NEW k \in DOMAIN subs'[j].got
        PROVE  /\ subs'[j].got[k] \in 1 .. Len(sent')
               /\ ~Waits(subs[j].got[k])'
               /\ \A q \in Procs : procs'[q].phase = "call" /\ procs'[q].next <= j =>
                     procs'[q].msg # subs'[j].got[k]
    <3>1. PICK x : x = subs'[j].got[k]
      OBVIOUS
    <3>2. \A q \in Procs : procs'[q].phase = "call" /\ procs'[q].next <= j =>
             /\ procs[q].phase = "call" /\ procs[q].msg = procs'[q].msg
             /\ procs[q].next <= j /\ (q = p => j # i)
      <4>1. j \in Nat
        BY <1>6 DEF SubIds
      <4> QED  BY <1>2, <1>4, <1>7, <1>8, <4>1
    <3>3. CASE k \in DOMAIN subs[j].got /\ x = subs[j].got[k]
      <4>1. /\ x \in 1 .. Len(sent) /\ ~Waits(x)
            /\ \A q \in Procs : procs[q].phase = "call" /\ procs[q].next <= j => procs[q].msg # x
        BY <3>3 DEF IndInv, GotInv
      <4>2. ~Waits(x)'
        BY <1>2, <4>1, TopicsSame
      <4> QED  BY <1>2, <3>1, <3>2, <4>1, <4>2
    <3>4. CASE j = i /\ x = m
      <4>1. ~Waits(x)'
        BY <1>2, <1>5, <3>4, TopicsSame
      <4>2. \A q \in Procs : procs'[q].phase = "call" /\ procs'[q].next <= j => procs'[q].msg # m
        BY <1>2, <1>4, <3>2, <3>4 DEF IndInv, FramesInv
      <4> QED  BY <1>2, <1>5, <3>1, <3>4, <4>1, <4>2
    <3> QED  BY <1>9, <1>11, <3>1, <3>3, <3>4
  <2>3. \A j \in SubIds : ~subs'[j].active => subs'[j] = NoSub
    BY <1>9 DEF IndInv, GotInv
  <2> QED  BY <2>1, <2>2, <2>3 DEF GotInv
<1>16. NoDuplicate'
  <2>1. \A k, l \in DOMAIN subs'[i].got : k # l => subs'[i].got[k] # subs'[i].got[l]
    <3>1. \A k, l \in 1 .. L : k # l => subs[i].got[k] # subs[i].got[l]
      BY <1>7, <1>11 DEF IndInv, NoDuplicate
    <3> QED  BY <1>11, <1>12, <3>1
  <2>2. \A j \in SubIds : \A k, l \in DOMAIN subs'[j].got : k # l => subs'[j].got[k] # subs'[j].got[l]
    <3> TAKE j \in SubIds
    <3>1. CASE j = i
      BY <2>1, <3>1
    <3>2. CASE j # i
      BY <1>9, <3>2 DEF IndInv, NoDuplicate
    <3> QED  BY <3>1, <3>2
  <2> QED  BY <2>2 DEF NoDuplicate
<1>17. NoLoss'
  <2> SUFFICES ASSUME NEW j \in SubIds, subs'[j].active,
                      NEW k \in subs'[j].since + 1 .. Len(sent), sent[k].topic = subs'[j].topic
               PROVE  \/ \E l \in DOMAIN subs'[j].got : subs'[j].got[l] = k
                      \/ Waits(k)'
                      \/ \E q \in Procs : /\ procs'[q].phase = "call" /\ procs'[q].msg = k
                                          /\ procs'[q].next <= j
    BY <1>2 DEF NoLoss
  <2>1. /\ subs[j].active /\ subs'[j].since = subs[j].since /\ subs'[j].topic = subs[j].topic
    BY <1>7, <1>9
  <2>2. \/ \E l \in DOMAIN subs[j].got : subs[j].got[l] = k
        \/ Waits(k)
        \/ \E q \in Procs : procs[q].phase = "call" /\ procs[q].msg = k /\ procs[q].next <= j
    BY <2>1 DEF IndInv, NoLoss
  <2>3. CASE \E l \in DOMAIN subs[j].got : subs[j].got[l] = k
    <3>1. \E l \in DOMAIN subs'[j].got : subs'[j].got[l] = k
      <4>1. CASE j = i
        <5>1. \A l \in 1 .. L : l \in 1 .. L + 1
          OBVIOUS
        <5> QED  BY <1>11, <2>3, <4>1, <5>1
      <4>2. CASE j # i
        BY <1>9, <2>3, <4>2
      <4> QED  BY <4>1, <4>2
    <3> QED  BY <3>1
  <2>4. CASE Waits(k)
    BY <1>2, <2>4, TopicsSame
  <2>5. ASSUME NEW q \in Procs, procs[q].phase = "call", procs[q].msg = k, procs[q].next <= j
        PROVE  \/ \E l \in DOMAIN subs'[j].got : subs'[j].got[l] = k
               \/ procs'[q].phase = "call" /\ procs'[q].msg = k /\ procs'[q].next <= j
    <3>1. CASE q # p
      BY <1>8, <2>5, <3>1
    <3>2. CASE q = p /\ j = i
      <4>1. L + 1 \in DOMAIN subs'[i].got
        BY <1>11
      <4> QED  BY <1>4, <1>11, <2>5, <3>2, <4>1
    <3>3. CASE q = p /\ j # i
      <4>1. j \in Callable(p)
        BY <1>4, <1>5, <2>1, <2>5, <3>3 DEF Callable
      <4>2. i <= j /\ j \in Nat
        BY <1>3, <1>6, <4>1 DEF SubIds
      <4>3. i + 1 <= j
        BY <1>7, <3>3, <4>2
      <4> QED  BY <1>4, <1>8, <2>5, <3>3, <4>3
    <3> QED  BY <3>1, <3>2, <3>3
  <2> QED  BY <2>2, <2>3, <2>4, <2>5
<1> QED  BY <1>1, <1>13, <1>14, <1>15, <1>16, <1>17 DEF IndInv, MailKept

\* No subscriber is left for the message.
LEMMA PassedStep ==
    ASSUME IndInv, NEW p \in Procs, Passed(p)
    PROVE  IndInv'
<1>1. MailKept
  BY KeptWhenSame DEF Passed
<1>2. /\ topics' = topics /\ sent' = sent /\ subs' = subs /\ subCount' = subCount /\ mqtt' = mqtt
      /\ procs[p].phase = "call" /\ Callable(p) = {}
      /\ procs' = [procs EXCEPT ![p].phase = "loop", ![p].msg = 0, ![p].next = 0]
      /\ procs \in [Procs -> Frame]
  BY DEF Passed, IndInv, TypeOK
<1>3. /\ procs'[p].phase = "loop" /\ procs'[p].topic = procs[p].topic /\ procs'[p] \in Frame
      /\ \A q \in Procs : q # p => procs'[q] = procs[q]
  <2>1. procs[p] \in Frame /\ 0 \in 0 .. MaxAccepted /\ 0 \in 0 .. MaxSubs
    BY <1>2, Sizes
  <2> QED  BY <1>2, <2>1 DEF Frame
<1>4. TypeOK'
  <2>1. procs' \in [Procs -> Frame]
    BY <1>2, <1>3
  <2> QED  BY <1>2, <2>1 DEF IndInv, TypeOK
<1>5. FramesInv'
  <2>1. procs[p].topic \in DOMAIN topics /\ GetTopic(topics[procs[p].topic].name) = procs[p].topic
    BY <1>2 DEF IndInv, FramesInv
  <2> QED  BY <1>1, <1>3, <1>4, <2>1, FramesKept
<1>6. GotInv'
  <2>1. /\ \A n : GetTopic(n)' = GetTopic(n)
        /\ \A k : Waits(k)' <=> Waits(k)
    BY <1>2, TopicsSame
  <2>2. \A q \in Procs : procs'[q].phase = "call" => procs'[q] = procs[q]
    BY <1>3
  <2>3. ASSUME NEW i \in SubIds, subs[i].active
        PROVE  i < subCount /\ subs[i].since <= Len(sent) /\ GetTopic(subs[i].topic)' # 0
    <3>1. PICK n : n = subs[i].topic
      OBVIOUS
    <3>2. i < subCount /\ subs[i].since <= Len(sent) /\ GetTopic(n) # 0
      BY <2>3, <3>1 DEF IndInv, GotInv
    <3> QED  BY <1>2, <2>1, <3>1, <3>2
  <2>4. ASSUME NEW i \in SubIds, NEW j \in DOMAIN subs[i].got
        PROVE  /\ subs[i].got[j] \in 1 .. Len(sent)
               /\ ~Waits(subs[i].got[j])'
               /\ \A q \in Procs : procs'[q].phase = "call" /\ procs'[q].next <= i =>
                     procs'[q].msg # subs[i].got[j]
    <3>1. PICK k : k = subs[i].got[j]
      OBVIOUS
    <3>2. /\ k \in 1 .. Len(sent) /\ ~Waits(k)
          /\ \A q \in Procs : procs[q].phase = "call" /\ procs[q].next <= i => procs[q].msg # k
      BY <3>1 DEF IndInv, GotInv
    <3> QED  BY <1>2, <2>1, <2>2, <3>1, <3>2
  <2>5. \A i \in SubIds : ~subs[i].active => subs[i] = NoSub
    BY DEF IndInv, GotInv
  <2> QED  BY <1>2, <2>3, <2>4, <2>5 DEF GotInv
<1>7. NoDuplicate'
  BY <1>2 DEF IndInv, NoDuplicate
<1>8. NoLoss'
  <2> SUFFICES ASSUME NEW i \in SubIds, subs[i].active,
                      NEW k \in subs[i].since + 1 .. Len(sent), sent[k].topic = subs[i].topic
               PROVE  \/ \E j \in DOMAIN subs[i].got : subs[i].got[j] = k
                      \/ Waits(k)'
                      \/ \E q \in Procs : /\ procs'[q].phase = "call" /\ procs'[q].msg = k
                                          /\ procs'[q].next <= i
    BY <1>2 DEF NoLoss
  <2>1. \/ \E j \in DOMAIN subs[i].got : subs[i].got[j] = k
        \/ Waits(k)
        \/ \E q \in Procs : procs[q].phase = "call" /\ procs[q].msg = k /\ procs[q].next <= i
    BY DEF IndInv, NoLoss
  <2>2. ~(procs[p].msg = k /\ procs[p].next <= i)
    <3> SUFFICES ASSUME procs[p].msg = k, procs[p].next <= i
                 PROVE  FALSE
      OBVIOUS
    <3>1. sent[k].topic = topics[procs[p].topic].name
      BY <1>2 DEF IndInv, FramesInv
    <3>2. procs[p].next \in Nat /\ i \in Nat
      BY <1>2, Sizes DEF Frame, SubIds
    <3>3. i \in Callable(p)
      BY <3>1, <3>2 DEF Callable
    <3> QED  BY <1>2, <3>3
  <2>3. Waits(k) => Waits(k)'
    BY <1>2, TopicsSame
  <2> QED  BY <1>3, <2>1, <2>2, <2>3
<1> QED  BY <1>1, <1>4, <1>5, <1>6, <1>7, <1>8 DEF IndInv, MailKept

-----------------------------------------------------------------------------
(* The theorems *)

\* Nothing is there at the start.
LEMMA InitStep ==
    ASSUME Init
    PROVE  IndInv
<1>1. DOMAIN topics = {} /\ DOMAIN sent = {} /\ Len(topics) = 0 /\ Len(sent) = 0
  BY EmptySeq DEF Init
<1>2. /\ topics \in Seq(Topic) /\ sent \in Seq(Message) /\ 0 <= MaxTopics /\ 0 <= MaxAccepted
      /\ 0 \in 0 .. MaxSubs
  BY Sizes DEF Init
<1>3. NoSub \in Sub /\ ~NoSub.active /\ DOMAIN NoSub.got = {}
  BY Sizes DEF NoSub, Sub
<1>4. Idle \in Frame /\ Idle.phase = "idle"
  BY Sizes DEF Idle, Frame
<1>5. TypeOK
  BY <1>1, <1>2, <1>3, <1>4 DEF Init, TypeOK
<1>6. /\ \A i \in SubIds : subs[i] = NoSub
      /\ \A p \in Procs : procs[p] = Idle
  BY DEF Init
<1>7. NamesInv /\ MailInv
  BY <1>1 DEF NamesInv, MailInv
<1>8. FramesInv
  BY <1>4, <1>6 DEF FramesInv
<1>9. GotInv /\ NoDuplicate /\ NoLoss
  BY <1>3, <1>6 DEF GotInv, NoDuplicate, NoLoss
<1> QED  BY <1>5, <1>7, <1>8, <1>9 DEF IndInv

\* Every step keeps it.
LEMMA NextStep ==
    ASSUME IndInv, [Next]_vars
    PROVE  IndInv'
<1>1. CASE \E n \in Names : CreateTopic(n) \/ Publish(n) \/ ClearQueue(n) \/ Subscribe(n) \/ Poll(n)
  BY <1>1, CreateTopicStep, PublishStep, ClearQueueStep, SubscribeStep, PollStep
<1>2. CASE \E i \in SubIds : Unsubscribe(i)
  BY <1>2, UnsubscribeStep
<1>3. CASE \E p \in Procs, n \in Names : StartTopic(p, n)
  BY <1>3, StartTopicStep
<1>4. CASE \E p \in Procs : Process(p)
  BY <1>4, StartAllStep, TakeStep, CallBackStep, PassedStep, FinishStep DEF Process
<1>5. CASE (\E fns \in Adapters : SetAdapter(fns)) \/ UNCHANGED vars
  BY <1>5, SetAdapterStep
<1> QED  BY <1>1, <1>2, <1>3, <1>4, <1>5 DEF Next

\* The invariant that everything below follows from.
THEOREM InductiveInvariant == Spec => []IndInv
BY InitStep, NextStep, PTL DEF Spec

\* The variables stay in their types: in particular, a ring's head and tail stay
\* within it, and the subscriber count within the table.
THEOREM TypeCorrect == Spec => []TypeOK
<1>1. IndInv => TypeOK
  BY DEF IndInv
<1> QED  BY <1>1, InductiveInvariant, PTL

\* subscriber_count stays above every active slot, so that pubsub_subscribe's limit
\* protects the table, and every subscription's topic is there.
THEOREM SlotsAreCounted == Spec => []SlotsCounted
<1>1. ASSUME IndInv  PROVE SlotsCounted
  <2>1. \A i \in SubIds : subs[i].active => i < subCount /\ GetTopic(subs[i].topic) # 0
    BY <1>1 DEF IndInv, GotInv
  <2>2. ASSUME NEW n \in Names, SubscriberCount(n) > 0
        PROVE  GetTopic(n) # 0
    <3>1. {i \in SubIds : subs[i].active /\ subs[i].topic = n} # {}
      BY <2>2, FS_EmptySet DEF SubscriberCount
    <3> QED  BY <2>1, <3>1
  <2> QED  BY <2>1, <2>2 DEF SlotsCounted
<1> QED  BY <1>1, InductiveInvariant, PTL

\* However many loops process the topics, and wherever callbacks publish, subscribe
\* or process in their turn, no subscription is passed a message twice,
THEOREM NothingTwice == Spec => []NoDuplicate
<1>1. IndInv => NoDuplicate
  BY DEF IndInv
<1> QED  BY <1>1, InductiveInvariant, PTL

\* and none misses one that was accepted since it came, unless it was cleared.
THEOREM NothingMissed == Spec => []NoLoss
<1>1. IndInv => NoLoss
  BY DEF IndInv
<1> QED  BY <1>1, InductiveInvariant, PTL

-----------------------------------------------------------------------------
(* Topics are never taken away *)

\* All steps but Take are as MailKept says.
LEMMA MailKeptOrTaken ==
    ASSUME IndInv, [Next]_vars, \A p \in Procs : ~Take(p)
    PROVE  MailKept
<1>1. ASSUME NEW n \in Names, CreateTopic(n)  PROVE MailKept
  BY <1>1, KeptWhenAppended DEF CreateTopic
<1>2. ASSUME NEW n \in Names, Publish(n)  PROVE MailKept
  <2>1. GetTopic(n) \in DOMAIN topics
    BY <1>2, Shapes DEF IndInv, Publish
  <2>2. ("publish" \in mqtt) \in BOOLEAN
    OBVIOUS
  <2>3. ~IsFull(GetTopic(n)) /\ Enqueue(GetTopic(n), "local", "publish" \in mqtt)
    BY <1>2 DEF Publish
  <2> QED  BY <2>1, <2>2, <2>3, KeptWhenEnqueued
<1>3. ASSUME NEW n \in Names, ClearQueue(n)  PROVE MailKept
  BY <1>3, KeptWhenCleared
<1>4. ASSUME NEW n \in Names, Subscribe(n)  PROVE MailKept
  BY <1>4, KeptWhenSame, KeptWhenAppended DEF Subscribe
<1>5. ASSUME NEW n \in Names, Poll(n)  PROVE MailKept
  <2>1. CASE GetTopic(n) = 0 \/ IsFull(GetTopic(n))
    BY <1>5, <2>1, KeptWhenSame DEF Poll
  <2>2. CASE ~(GetTopic(n) = 0 \/ IsFull(GetTopic(n)))
    <3>1. GetTopic(n) \in DOMAIN topics
      BY <2>2, Shapes DEF IndInv
    <3> QED  BY <1>5, <2>2, <3>1, KeptWhenEnqueued DEF Poll
  <2> QED  BY <2>1, <2>2
<1>6. CASE \E i \in SubIds : Unsubscribe(i)
  BY <1>6, KeptWhenSame DEF Unsubscribe
<1>7. CASE \E p \in Procs, n \in Names : StartTopic(p, n)
  BY <1>7, KeptWhenSame DEF StartTopic
<1>8. CASE \E p \in Procs : Process(p)
  BY <1>8, KeptWhenSame DEF Process, StartAll, CallBack, Passed, Finish
<1>9. CASE (\E fns \in Adapters : SetAdapter(fns)) \/ UNCHANGED vars
  BY <1>9, KeptWhenSame DEF SetAdapter, vars
<1> QED  BY <1>1, <1>2, <1>3, <1>4, <1>5, <1>6, <1>7, <1>8, <1>9 DEF Next

\* A step of Take, in short.
LEMMA TakeFacts ==
    ASSUME IndInv, NEW p \in Procs, Take(p)
    PROVE  \E t \in DOMAIN topics, m \in 1 .. Len(sent) :
              /\ t = procs[p].topic /\ GetTopic(topics[t].name) = t
              /\ TopicsStay
              /\ \A n : GetTopic(n)' = GetTopic(n)
              /\ \A u \in DOMAIN topics : u # t => Queued(u)' = Queued(u)
              /\ Queued(t) # <<>> /\ Queued(t)' = Tail(Queued(t))
              /\ \A u \in DOMAIN topics : \A j \in DOMAIN Queued(u)' :
                    /\ u = t => m < Queued(u)'[j]
                    /\ \E i \in DOMAIN Queued(u) : Queued(u)'[j] = Queued(u)[i]
              /\ \E j \in DOMAIN Queued(t) : Queued(t)[j] = m
              /\ procs' = [procs EXCEPT ![p].phase = "call", ![p].next = 0, ![p].msg = m]
              /\ sent' = sent /\ subs' = subs
<1>1. PICK t \in DOMAIN topics : t = procs[p].topic
  BY DEF Take, IndInv, FramesInv
<1>2. PICK m : m = topics[t].ring[topics[t].tail]
  OBVIOUS
<1>3. TypeOK /\ NamesInv /\ MailInv
  BY DEF IndInv
<1>4. /\ m \in 1 .. Len(sent) /\ TopicsStay
      /\ \A n : GetTopic(n)' = GetTopic(n)
      /\ \A u \in DOMAIN topics : u # t => Queued(u)' = Queued(u)
      /\ Queued(t) # <<>> /\ Queued(t)' = Tail(Queued(t))
      /\ \A u \in DOMAIN topics : \A j \in DOMAIN Queued(u)' :
            /\ u = t => m < Queued(u)'[j]
            /\ \E i \in DOMAIN Queued(u) : Queued(u)'[j] = Queued(u)[i]
      /\ \E j \in DOMAIN Queued(t) : Queued(t)[j] = m
  BY <1>1, <1>2, <1>3, Taken
<1>5. GetTopic(topics[t].name) = t
  BY <1>1 DEF Take, IndInv, FramesInv
<1>6. /\ procs' = [procs EXCEPT ![p].phase = "call", ![p].next = 0, ![p].msg = m]
      /\ sent' = sent /\ subs' = subs
  BY <1>1, <1>2 DEF Take
<1> QED  BY <1>1, <1>4, <1>5, <1>6

\* No call ever removes, renames or hides a topic, so an index that
\* pubsub_process_topic keeps across its callbacks stays good.
THEOREM TopicsNeverMove == Spec => [][TopicsStay]_vars
<1>1. ASSUME IndInv, [Next]_vars
      PROVE  TopicsStay
  <2>1. CASE \A p \in Procs : ~Take(p)
    BY <1>1, <2>1, MailKeptOrTaken DEF MailKept
  <2>2. CASE \E p \in Procs : Take(p)
    <3>1. PICK p \in Procs : Take(p)
      BY <2>2
    <3>2. IndInv
      BY <1>1
    <3> QED  BY <3>1, <3>2, TakeFacts, Zenon
  <2> QED  BY <2>1, <2>2
<1> QED  BY <1>1, InductiveInvariant, PTL DEF Spec

-----------------------------------------------------------------------------
(* The order of delivery *)

\* A subscriber reads from the topic it read from before.
LEMMA ReadsStays ==
    ASSUME IndInv, TopicsStay, NEW i \in SubIds, subs'[i].active => subs[i].active,
           subs'[i].topic = subs[i].topic, NEW t, Reads(i, t)'
    PROVE  Reads(i, t) /\ t \in DOMAIN topics
<1>1. PICK n : n = subs[i].topic
  OBVIOUS
<1>2. subs[i].active /\ GetTopic(n)' = t
  BY <1>1 DEF Reads
<1>3. GetTopic(n) # 0
  BY <1>1, <1>2 DEF IndInv, GotInv
<1>4. GetTopic(n) \in DOMAIN topics /\ GetTopic(n) = t
  BY <1>2, <1>3, Shapes DEF IndInv, TopicsStay
<1> QED  BY <1>1, <1>2, <1>4 DEF Reads

\* While nothing is taken and nobody is called back, what waits, what is on its
\* way and what has arrived keep their order.
LEMMA OrderKept ==
    ASSUME IndInv, OrderInv, MailKept,
           \A i \in SubIds : subs'[i] = subs[i] \/ DOMAIN subs'[i].got = {},
           \A p \in Procs : procs'[p].phase = "call" => procs'[p] = procs[p]
    PROVE  OrderInv'
<1>1. Len(sent) \in Nat
  BY Shapes DEF IndInv
<1>2. ASSUME NEW t \in DOMAIN topics, NEW k \in DOMAIN Queued(t)', NEW x \in 1 .. Len(sent),
             \A l \in DOMAIN Queued(t) : x < Queued(t)[l]
      PROVE  x < Queued(t)'[k]
  <2>1. Queued(t)'[k] > Len(sent) \/ \E l \in DOMAIN Queued(t) : Queued(t)'[k] = Queued(t)[l]
    BY DEF MailKept
  <2>2. Queued(t)'[k] \in 1 .. Len(sent')
    BY DEF MailKept, TopicsStay, MailInv
  <2>3. CASE Queued(t)'[k] > Len(sent)
    <3>1. x \in Int /\ Queued(t)'[k] \in Int /\ x <= Len(sent)
      BY <1>1, <2>2
    <3> QED  BY <1>1, <2>3, <3>1
  <2>4. CASE \E l \in DOMAIN Queued(t) : Queued(t)'[k] = Queued(t)[l]
    BY <1>2, <2>4
  <2> QED  BY <2>1, <2>3, <2>4
<1>3. ASSUME NEW i \in SubIds, NEW j \in DOMAIN subs'[i].got, NEW t, Reads(i, t)'
      PROVE  /\ subs'[i] = subs[i] /\ Reads(i, t) /\ t \in DOMAIN topics
             /\ subs[i].got[j] \in 1 .. Len(sent)
  <2>1. subs'[i] = subs[i]
    BY <1>3
  <2>2. Reads(i, t) /\ t \in DOMAIN topics
    BY <1>3, <2>1, ReadsStays DEF MailKept
  <2>3. subs[i].got[j] \in 1 .. Len(sent)
    BY <2>1 DEF IndInv, GotInv
  <2> QED  BY <2>1, <2>2, <2>3
<1>4. ASSUME NEW i \in SubIds, NEW t \in DOMAIN topics', Reads(i, t)',
             NEW j \in DOMAIN subs'[i].got, NEW k \in DOMAIN Queued(t)'
      PROVE  subs'[i].got[j] < Queued(t)'[k]
  <2>1. /\ subs'[i] = subs[i] /\ Reads(i, t) /\ t \in DOMAIN topics
        /\ subs[i].got[j] \in 1 .. Len(sent)
    BY <1>3, <1>4
  <2>2. \A l \in DOMAIN Queued(t) : subs[i].got[j] < Queued(t)[l]
    BY <2>1 DEF OrderInv
  <2> QED  BY <1>2, <2>1, <2>2
<1>5. ASSUME NEW p \in Procs, NEW t \in DOMAIN topics', procs'[p].phase = "call",
             procs'[p].topic = t
      PROVE  /\ \A k \in DOMAIN Queued(t)' : procs'[p].msg < Queued(t)'[k]
             /\ \A i \in SubIds : Reads(i, t)' /\ procs'[p].next <= i =>
                   \A j \in DOMAIN subs'[i].got : subs'[i].got[j] < procs'[p].msg
  <2>1. procs'[p] = procs[p]
    BY <1>5
  <2>2. t \in DOMAIN topics /\ procs[p].msg \in 1 .. Len(sent)
    BY <1>5, <2>1 DEF IndInv, FramesInv
  <2>3. \A l \in DOMAIN Queued(t) : procs[p].msg < Queued(t)[l]
    BY <1>5, <2>1, <2>2 DEF OrderInv
  <2>4. \A k \in DOMAIN Queued(t)' : procs'[p].msg < Queued(t)'[k]
    BY <1>2, <2>1, <2>2, <2>3
  <2>5. ASSUME NEW i \in SubIds, Reads(i, t)', procs[p].next <= i, NEW j \in DOMAIN subs'[i].got
        PROVE  subs'[i].got[j] < procs[p].msg
    <3>1. subs'[i] = subs[i] /\ Reads(i, t)
      BY <1>3, <2>5
    <3> QED  BY <1>5, <2>1, <2>2, <2>5, <3>1 DEF OrderInv
  <2> QED  BY <2>1, <2>4, <2>5
<1>6. InOrder'
  <2>1. \A i \in SubIds : \A j, k \in DOMAIN subs'[i].got : j < k => subs'[i].got[j] < subs'[i].got[k]
    BY DEF OrderInv, InOrder
  <2> QED  BY <2>1 DEF InOrder
<1> QED  BY <1>4, <1>5, <1>6 DEF OrderInv

\* What is taken is older than what waits, and younger than what has arrived.
LEMMA OrderWhenTaken ==
    ASSUME IndInv, OrderInv, NEW p \in Procs, Take(p), \A q \in Procs : q = p
    PROVE  OrderInv'
<1>1. PICK t \in DOMAIN topics, m \in 1 .. Len(sent) :
         /\ t = procs[p].topic /\ GetTopic(topics[t].name) = t
         /\ TopicsStay
         /\ \A u \in DOMAIN topics : \A j \in DOMAIN Queued(u)' :
               /\ u = t => m < Queued(u)'[j]
               /\ \E i \in DOMAIN Queued(u) : Queued(u)'[j] = Queued(u)[i]
         /\ \E j \in DOMAIN Queued(t) : Queued(t)[j] = m
         /\ procs' = [procs EXCEPT ![p].phase = "call", ![p].next = 0, ![p].msg = m]
         /\ sent' = sent /\ subs' = subs
  BY TakeFacts, Zenon
<1>2. procs'[p].msg = m /\ procs'[p].topic = t
  BY <1>1 DEF IndInv, TypeOK, Frame
<1>3. \A i \in SubIds : \A u : Reads(i, u)' => Reads(i, u) /\ u \in DOMAIN topics
  BY <1>1, ReadsStays
<1>4. ASSUME NEW i \in SubIds, NEW u \in DOMAIN topics', Reads(i, u)',
             NEW j \in DOMAIN subs'[i].got, NEW k \in DOMAIN Queued(u)'
      PROVE  subs'[i].got[j] < Queued(u)'[k]
  <2>1. Reads(i, u) /\ u \in DOMAIN topics
    BY <1>3, <1>4
  <2>2. \E l \in DOMAIN Queued(u) : Queued(u)'[k] = Queued(u)[l]
    BY <1>1, <2>1
  <2> QED  BY <1>1, <2>1, <2>2 DEF OrderInv
<1>5. ASSUME NEW q \in Procs, NEW u \in DOMAIN topics', procs'[q].phase = "call",
             procs'[q].topic = u
      PROVE  /\ \A k \in DOMAIN Queued(u)' : procs'[q].msg < Queued(u)'[k]
             /\ \A i \in SubIds : Reads(i, u)' /\ procs'[q].next <= i =>
                   \A j \in DOMAIN subs'[i].got : subs'[i].got[j] < procs'[q].msg
  <2>1. q = p /\ u = t
    BY <1>2, <1>5
  <2>2. \A k \in DOMAIN Queued(u)' : m < Queued(u)'[k]
    BY <1>1, <2>1
  <2>3. \A i \in SubIds : Reads(i, u)' => \A j \in DOMAIN subs[i].got : subs[i].got[j] < m
    BY <1>1, <1>3, <2>1 DEF OrderInv
  <2> QED  BY <1>1, <1>2, <2>1, <2>2, <2>3
<1>6. InOrder'
  BY <1>1 DEF OrderInv, InOrder
<1> QED  BY <1>4, <1>5, <1>6 DEF OrderInv

\* A subscriber called back gets the youngest message it has.
LEMMA OrderWhenCalledBack ==
    ASSUME IndInv, OrderInv, NEW p \in Procs, CallBack(p), \A q \in Procs : q = p
    PROVE  OrderInv'
<1>1. /\ topics' = topics /\ sent' = sent /\ procs[p].phase = "call"
      /\ procs \in [Procs -> Frame] /\ subs \in [SubIds -> Sub] /\ procs[p] \in Frame
  BY DEF CallBack, IndInv, TypeOK
<1>2. PICK i \in Callable(p) : /\ subs' = [subs EXCEPT ![i].got = Append(@, procs[p].msg)]
                               /\ procs' = [procs EXCEPT ![p].next = i + 1]
  BY DEF CallBack
<1>3. PICK m : m = procs[p].msg
  OBVIOUS
<1>4. PICK t \in DOMAIN topics : t = procs[p].topic /\ GetTopic(topics[t].name) = t
  BY <1>1 DEF IndInv, FramesInv
<1>5. /\ i \in SubIds /\ subs[i].active /\ subs[i].topic = topics[t].name
      /\ procs[p].next <= i /\ i \in Nat /\ procs[p].next \in Nat
  BY <1>1, <1>4, Sizes DEF Callable, SubIds, Frame
<1>6. Reads(i, t)
  BY <1>4, <1>5 DEF Reads
<1>7. /\ \A k \in DOMAIN Queued(t) : m < Queued(t)[k]
      /\ \A j \in DOMAIN subs[i].got : subs[i].got[j] < m
      /\ \A x \in SubIds : Reads(x, t) /\ procs[p].next <= x =>
            \A j \in DOMAIN subs[x].got : subs[x].got[j] < m
  BY <1>1, <1>3, <1>4, <1>5, <1>6 DEF OrderInv
<1>8. m \in 1 .. MaxAccepted
  <2>1. m \in 1 .. Len(sent) /\ Len(sent) \in 0 .. MaxAccepted /\ MaxAccepted \in Nat
    BY <1>1, <1>3, Shapes, Sizes DEF IndInv, FramesInv
  <2> QED  BY <2>1
<1>9. /\ subs'[i].got = Append(subs[i].got, m) /\ subs'[i].active /\ subs[i].got \in Seq(1 .. MaxAccepted)
      /\ subs'[i].topic = subs[i].topic
      /\ \A x \in SubIds : x # i => subs'[x] = subs[x]
  <2>1. subs[i] \in Sub /\ subs[i].got \in Seq(1 .. MaxAccepted)
    BY <1>1, <1>5 DEF Sub
  <2>2. subs' = [subs EXCEPT ![i] = [subs[i] EXCEPT !.got = Append(@, m)]]
    BY <1>1, <1>2, <1>3
  <2> QED  BY <1>1, <1>5, <2>1, <2>2 DEF Sub
<1>10. PICK L \in Nat : L = Len(subs[i].got)
  BY <1>9
<1>11. /\ DOMAIN subs[i].got = 1 .. L /\ DOMAIN subs'[i].got = 1 .. L + 1
       /\ \A j \in 1 .. L : subs'[i].got[j] = subs[i].got[j]
       /\ subs'[i].got[L + 1] = m
  <2>1. /\ Append(subs[i].got, m) \in Seq(1 .. MaxAccepted)
        /\ Len(Append(subs[i].got, m)) = L + 1
        /\ \A j \in 1 .. L : Append(subs[i].got, m)[j] = subs[i].got[j]
        /\ Append(subs[i].got, m)[L + 1] = m
    BY <1>8, <1>9, <1>10, AppendProperties
  <2>2. DOMAIN Append(subs[i].got, m) = 1 .. L + 1 /\ DOMAIN subs[i].got = 1 .. L
    BY <1>9, <1>10, <2>1
  <2> QED  BY <1>9, <2>1, <2>2
<1>12. /\ \A t_ \in DOMAIN topics : Queued(t_)' = Queued(t_)
       /\ TopicsStay
  BY <1>1, TopicsSame
<1>13. \A x \in SubIds : \A u : Reads(x, u)' => Reads(x, u) /\ u \in DOMAIN topics
  <2> TAKE x \in SubIds
  <2> TAKE u
  <2>1. (subs'[x].active => subs[x].active) /\ subs'[x].topic = subs[x].topic
    BY <1>5, <1>9
  <2> QED  BY <1>12, <2>1, ReadsStays
<1>14. \A j \in DOMAIN subs'[i].got : (j \in DOMAIN subs[i].got /\ subs'[i].got[j] = subs[i].got[j])
                                      \/ (j = L + 1 /\ subs'[i].got[j] = m)
  <2>1. \A j \in 1 .. L + 1 : j \in 1 .. L \/ j = L + 1
    OBVIOUS
  <2> QED  BY <1>11, <2>1
<1>15. ASSUME NEW x \in SubIds, NEW u \in DOMAIN topics', Reads(x, u)',
              NEW j \in DOMAIN subs'[x].got, NEW k \in DOMAIN Queued(u)'
       PROVE  subs'[x].got[j] < Queued(u)'[k]
  <2>1. Reads(x, u) /\ u \in DOMAIN topics /\ Queued(u)' = Queued(u)
    BY <1>12, <1>13, <1>15
  <2>2. CASE j \in DOMAIN subs[x].got /\ subs'[x].got[j] = subs[x].got[j]
    BY <2>1, <2>2 DEF OrderInv
  <2>3. CASE x = i /\ subs'[x].got[j] = m
    <3>1. u = t
      BY <1>6, <2>1, <2>3 DEF Reads
    <3> QED  BY <1>7, <2>1, <2>3, <3>1
  <2> QED  BY <1>9, <1>14, <2>2, <2>3
<1>16. procs'[p].msg = m /\ procs'[p].topic = t /\ procs'[p].next = i + 1
  BY <1>1, <1>2, <1>3, <1>4 DEF Frame
<1>17. ASSUME NEW q \in Procs, NEW u \in DOMAIN topics', procs'[q].phase = "call",
              procs'[q].topic = u
       PROVE  /\ \A k \in DOMAIN Queued(u)' : procs'[q].msg < Queued(u)'[k]
              /\ \A x \in SubIds : Reads(x, u)' /\ procs'[q].next <= x =>
                    \A j \in DOMAIN subs'[x].got : subs'[x].got[j] < procs'[q].msg
  <2>1. q = p /\ u = t
    BY <1>16, <1>17
  <2>2. \A k \in DOMAIN Queued(u)' : m < Queued(u)'[k]
    BY <1>7, <1>12, <2>1
  <2>3. ASSUME NEW x \in SubIds, Reads(x, t)', i + 1 <= x, NEW j \in DOMAIN subs'[x].got
        PROVE  subs'[x].got[j] < m
    <3>1. x \in Nat /\ x # i /\ procs[p].next <= x
      BY <1>5, <2>3, Sizes DEF SubIds
    <3>2. subs'[x] = subs[x] /\ Reads(x, t)
      BY <1>9, <1>13, <2>3, <3>1
    <3> QED  BY <1>7, <3>1, <3>2
  <2> QED  BY <1>16, <2>1, <2>2, <2>3
<1>18. InOrder'
  <2>1. \A j, k \in DOMAIN subs'[i].got : j < k => subs'[i].got[j] < subs'[i].got[k]
    <3> TAKE j, k \in DOMAIN subs'[i].got
    <3> HAVE j < k
    <3>1. j \in 1 .. L /\ (k \in 1 .. L \/ k = L + 1)
      BY <1>11
    <3>2. CASE k \in 1 .. L
      BY <1>5, <1>11, <3>1, <3>2 DEF OrderInv, InOrder
    <3>3. CASE k = L + 1
      BY <1>7, <1>11, <3>1, <3>3
    <3> QED  BY <3>1, <3>2, <3>3
  <2>2. \A x \in SubIds : \A j, k \in DOMAIN subs'[x].got : j < k => subs'[x].got[j] < subs'[x].got[k]
    <3> TAKE x \in SubIds
    <3>1. CASE x = i
      BY <2>1, <3>1
    <3>2. CASE x # i
      BY <1>9, <3>2 DEF OrderInv, InOrder
    <3> QED  BY <3>1, <3>2
  <2> QED  BY <2>2 DEF InOrder
<1> QED  BY <1>15, <1>17, <1>18 DEF OrderInv

\* One task processes, and its callbacks do not: every subscriber gets its messages
\* in the order in which they were published.
THEOREM DeliveredInOrder ==
    ASSUME \A p, q \in Procs : p = q
    PROVE  Spec => []InOrder
<1>1. Init => OrderInv
  <2> SUFFICES ASSUME Init  PROVE OrderInv
    OBVIOUS
  <2>1. /\ \A i \in SubIds : ~subs[i].active /\ DOMAIN subs[i].got = {}
        /\ \A p \in Procs : procs[p].phase = "idle"
    BY DEF Init, NoSub, Idle
  <2> QED  BY <2>1 DEF OrderInv, InOrder, Reads
<1>2. ASSUME IndInv, OrderInv, [Next]_vars
      PROVE  OrderInv'
  <2>1. CASE \E p \in Procs : Take(p)
    BY <1>2, <2>1, OrderWhenTaken
  <2>2. CASE \E p \in Procs : CallBack(p)
    BY <1>2, <2>2, OrderWhenCalledBack
  <2>3. CASE \A p \in Procs : ~Take(p) /\ ~CallBack(p)
    <3>1. MailKept
      BY <1>2, <2>3, MailKeptOrTaken
    <3>2. \A i \in SubIds : subs'[i] = subs[i] \/ DOMAIN subs'[i].got = {}
      <4>1. subs \in [SubIds -> Sub]
        BY <1>2 DEF IndInv, TypeOK
      <4>2. ASSUME NEW n \in Names, Subscribe(n)
            PROVE  \A i \in SubIds : subs'[i] = subs[i] \/ DOMAIN subs'[i].got = {}
        BY <4>1, <4>2 DEF Subscribe
      <4>3. ASSUME NEW i \in SubIds, Unsubscribe(i)
            PROVE  \A j \in SubIds : subs'[j] = subs[j] \/ DOMAIN subs'[j].got = {}
        BY <4>1, <4>3 DEF Unsubscribe, NoSub
      <4>4. \/ subs' = subs
            \/ \E n \in Names : Subscribe(n)
            \/ \E i \in SubIds : Unsubscribe(i)
        <5>1. \A n \in Names : CreateTopic(n) \/ Publish(n) \/ ClearQueue(n) \/ Poll(n) => subs' = subs
          BY DEF CreateTopic, Publish, ClearQueue, Poll
        <5>2. \A p \in Procs : StartAll(p) \/ Passed(p) \/ Finish(p) => subs' = subs
          <6>1. \A p \in Procs : StartAll(p) => subs' = subs
            BY DEF StartAll
          <6>2. \A p \in Procs : Passed(p) => subs' = subs
            BY DEF Passed
          <6>3. \A p \in Procs : Finish(p) => subs' = subs
            BY DEF Finish
          <6> QED  BY <6>1, <6>2, <6>3
        <5>4. \A p \in Procs, n \in Names : StartTopic(p, n) => subs' = subs
          BY DEF StartTopic
        <5>3. (\E fns \in Adapters : SetAdapter(fns)) \/ UNCHANGED vars => subs' = subs
          BY DEF SetAdapter, vars
        <5> QED  BY <1>2, <2>3, <5>1, <5>2, <5>3, <5>4 DEF Next, Process
      <4> QED  BY <4>2, <4>3, <4>4
    <3>3. \A p \in Procs : procs'[p].phase = "call" => procs'[p] = procs[p]
      <4>1. procs \in [Procs -> Frame]
        BY <1>2 DEF IndInv, TypeOK
      <4>2. ASSUME NEW q \in Procs, StartAll(q) \/ Passed(q) \/ Finish(q) \/ \E n \in Names : StartTopic(q, n)
            PROVE  \A p \in Procs : procs'[p].phase = "call" => procs'[p] = procs[p]
        <5>1. \A p \in Procs : p = q \/ procs'[p] = procs[p]
          <6>1. StartAll(q) => \A p \in Procs : p = q \/ procs'[p] = procs[p]
            BY <4>1 DEF StartAll
          <6>2. Passed(q) => \A p \in Procs : p = q \/ procs'[p] = procs[p]
            BY <4>1 DEF Passed
          <6>3. Finish(q) => \A p \in Procs : p = q \/ procs'[p] = procs[p]
            BY <4>1 DEF Finish
          <6>4. ASSUME NEW n \in Names, StartTopic(q, n)
                PROVE  \A p \in Procs : p = q \/ procs'[p] = procs[p]
            BY <4>1, <6>4 DEF StartTopic
          <6> QED  BY <4>2, <6>1, <6>2, <6>3, <6>4
        <5>2. StartAll(q) => procs'[q].phase = "loop"
          BY <4>1 DEF StartAll, Idle
        <5>3. Passed(q) => procs'[q].phase = "loop"
          BY <4>1 DEF Passed, Frame
        <5>4. Finish(q) => procs'[q].phase # "call"
          BY <4>1 DEF Finish, Idle, Frame
        <5>5. \A n \in Names : StartTopic(q, n) => procs'[q].phase = "loop"
          BY <4>1 DEF StartTopic, Idle
        <5> QED  BY <4>2, <5>1, <5>2, <5>3, <5>4, <5>5
      <4>3. \/ procs' = procs
            \/ \E q \in Procs : StartAll(q) \/ Passed(q) \/ Finish(q) \/ \E n \in Names : StartTopic(q, n)
        <5>1. \A n \in Names : CreateTopic(n) \/ Publish(n) \/ ClearQueue(n) \/ Subscribe(n) \/ Poll(n)
                                  => procs' = procs
          BY DEF CreateTopic, Publish, ClearQueue, Subscribe, Poll
        <5>2. \A i \in SubIds : Unsubscribe(i) => procs' = procs
          BY DEF Unsubscribe
        <5>3. (\E fns \in Adapters : SetAdapter(fns)) \/ UNCHANGED vars => procs' = procs
          BY DEF SetAdapter, vars
        <5> QED  BY <1>2, <2>3, <5>1, <5>2, <5>3 DEF Next, Process
      <4> QED  BY <4>2, <4>3
    <3> QED  BY <1>2, <3>1, <3>2, <3>3, OrderKept
  <2> QED  BY <2>1, <2>2, <2>3
<1>3. OrderInv => InOrder
  BY DEF OrderInv
<1> QED  BY <1>1, <1>2, <1>3, InductiveInvariant, PTL DEF Spec

-----------------------------------------------------------------------------
(* The rings implement bounded queues *)

\* What waits under a name, as the refinement mapping has it.
Under(n) == IF GetTopic(n) = 0 THEN <<>> ELSE Queued(GetTopic(n))

LEMMA UnderSame ==
    ASSUME \A n : GetTopic(n)' = GetTopic(n),
           NEW u, \A t \in DOMAIN topics : t # u => Queued(t)' = Queued(t),
           TypeOK, NEW n, GetTopic(n) # u
    PROVE  Under(n)' = Under(n)
<1>1. GetTopic(n) # 0 => GetTopic(n) \in DOMAIN topics
  BY Shapes
<1>2. PICK t : t = GetTopic(n)
  OBVIOUS
<1>3. t # 0 => Queued(t)' = Queued(t)
  BY <1>1, <1>2
<1>4. Under(n)' = IF t = 0 THEN <<>> ELSE Queued(t)'
  BY <1>2 DEF Under
<1> QED  BY <1>2, <1>3, <1>4 DEF Under

\* Under a name that finds topic t waits what is queued there.
LEMMA UnderIs ==
    ASSUME \A n : GetTopic(n)' = GetTopic(n), NEW n, NEW t, t = GetTopic(n), t # 0
    PROVE  Under(n) = Queued(t) /\ Under(n)' = Queued(t)'
BY DEF Under

\* Steps that accept, take and clear nothing leave all queues alone.
LEMMA QuietStep ==
    ASSUME IndInv, topics' = topics, sent' = sent
    PROVE  UNCHANGED <<[n \in Names |-> Under(n)], Len(sent)>>
<1>1. \A n \in Names : Under(n)' = Under(n)
  <2>1. (\A n : GetTopic(n)' = GetTopic(n)) /\ (\A t : Queued(t)' = Queued(t))
    BY TopicsSame
  <2> QED  BY <2>1 DEF Under
<1> QED  BY <1>1

\* A new topic has an empty queue, as the name had before.
LEMMA CreateRefines ==
    ASSUME IndInv, NEW n \in Names, Len(topics) < MaxTopics,
           topics' = Append(topics, NewTopic(n)), sent' = sent
    PROVE  UNCHANGED <<[x \in Names |-> Under(x)], Len(sent)>>
<1>1. PICK u : u = Len(topics) + 1
  OBVIOUS
<1>2. /\ \A t \in DOMAIN topics : Queued(t)' = Queued(t)
      /\ Queued(u)' = <<>>
      /\ \A x : GetTopic(x)' = IF GetTopic(x) # 0 THEN GetTopic(x)
                               ELSE IF Stored[n] = x THEN u ELSE 0
  BY <1>1, TopicAppended DEF IndInv
<1>3. ASSUME NEW x \in Names
      PROVE  Under(x)' = Under(x)
  <2>1. PICK t : t = GetTopic(x)'
    OBVIOUS
  <2>2. Under(x)' = IF t = 0 THEN <<>> ELSE Queued(t)'
    BY <2>1 DEF Under
  <2>3. CASE GetTopic(x) # 0
    <3>1. t = GetTopic(x) /\ t \in DOMAIN topics
      BY <1>2, <2>1, <2>3, Shapes DEF IndInv
    <3> QED  BY <1>2, <2>2, <2>3, <3>1 DEF Under
  <2>4. CASE GetTopic(x) = 0
    <3>1. t = u \/ t = 0
      BY <1>2, <2>1, <2>4
    <3> QED  BY <1>2, <2>2, <2>4, <3>1 DEF Under
  <2> QED  BY <2>3, <2>4
<1> QED  BY <1>3

\* The refinement mapping, with the queue named.
LEMMA QueuesUnder == [n \in Names |-> IF GetTopic(n) = 0 THEN <<>> ELSE Queued(GetTopic(n))]
                        = [n \in Names |-> Under(n)]
BY DEF Under

\* Accepting a message is Accept,
LEMMA EnqueueRefines ==
    ASSUME IndInv, NEW n \in Names, GetTopic(n) # 0, ~IsFull(GetTopic(n)),
           NEW origin \in {"local", "mqtt"}, NEW forwarded \in BOOLEAN,
           Enqueue(GetTopic(n), origin, forwarded)
    PROVE  Queues!Accept(n)
<1>1. PICK t \in DOMAIN topics : t = GetTopic(n) /\ topics[t].name = n
  BY Shapes DEF IndInv
<1>2. /\ \A x : GetTopic(x)' = GetTopic(x)
      /\ \A u \in DOMAIN topics : u # t => Queued(u)' = Queued(u)
      /\ Queued(t)' = Append(Queued(t), Len(sent) + 1)
      /\ Len(Queued(t)) < QueueSize - 1
      /\ Len(sent') = Len(sent) + 1
  BY <1>1, Enqueued DEF IndInv
<1>3. Under(n) = Queued(t) /\ Under(n)' = Queued(t)'
  <2>1. t # 0
    BY <1>1
  <2> QED  BY <1>1, <1>2, <2>1, UnderIs
<1>4. \A x \in Names : x # n => Under(x)' = Under(x)
  <2> TAKE x \in Names
  <2> HAVE x # n
  <2>1. GetTopic(x) # t
    BY <1>1, Shapes DEF IndInv
  <2> QED  BY <1>2, <2>1, UnderSame DEF IndInv
<1>5. [x \in Names |-> Under(x)]' = [[x \in Names |-> Under(x)] EXCEPT ![n] = Append(@, Len(sent'))]
  <2>1. Under(n)' = Append(Under(n), Len(sent'))
    BY <1>2, <1>3
  <2> QED  BY <1>4, <2>1
<1>6. Len([x \in Names |-> Under(x)][n]) < QueueSize - 1
  BY <1>2, <1>3
<1> QED  BY <1>2, <1>5, <1>6, QueuesUnder DEF Queues!Accept, Under

\* moving a tail on is Take,
LEMMA TakeRefines ==
    ASSUME IndInv, NEW p \in Procs, Take(p)
    PROVE  \E n \in Names : Queues!Take(n)
<1>1. PICK t \in DOMAIN topics, m \in 1 .. Len(sent) :
         /\ GetTopic(topics[t].name) = t
         /\ \A n : GetTopic(n)' = GetTopic(n)
         /\ \A u \in DOMAIN topics : u # t => Queued(u)' = Queued(u)
         /\ Queued(t) # <<>> /\ Queued(t)' = Tail(Queued(t))
         /\ sent' = sent
  BY TakeFacts, Zenon
<1>2. PICK n \in Names : n = topics[t].name
  <2>1. topics[t] \in Topic
    BY Shapes DEF IndInv
  <2> QED  BY <2>1 DEF Topic
<1>3. Under(n) = Queued(t) /\ Under(n)' = Queued(t)'
  <2>1. t # 0 /\ t = GetTopic(n)
    BY <1>1, <1>2, Shapes DEF IndInv
  <2> QED  BY <1>1, <2>1, UnderIs
<1>4. \A x \in Names : x # n => Under(x)' = Under(x)
  <2> TAKE x \in Names
  <2> HAVE x # n
  <2>1. GetTopic(x) # t
    BY <1>2, Shapes DEF IndInv
  <2> QED  BY <1>1, <2>1, UnderSame DEF IndInv
<1>5. [x \in Names |-> Under(x)]' = [[x \in Names |-> Under(x)] EXCEPT ![n] = Tail(@)]
  <2>1. Under(n)' = Tail(Under(n))
    BY <1>1, <1>3
  <2> QED  BY <1>4, <2>1
<1>6. [x \in Names |-> Under(x)][n] # <<>>
  BY <1>1, <1>3
<1> QED  BY <1>1, <1>5, <1>6, QueuesUnder DEF Queues!Take, Under

\* and pubsub_clear_queue is Clear.
LEMMA ClearRefines ==
    ASSUME IndInv, NEW n \in Names, ClearQueue(n)
    PROVE  Queues!Clear(n)
<1>1. PICK t \in DOMAIN topics : t = GetTopic(n) /\ t # 0
  BY Shapes DEF IndInv, ClearQueue
<1>2. /\ \A x : GetTopic(x)' = GetTopic(x)
      /\ \A u \in DOMAIN topics : Queued(u)' = IF u = t THEN <<>> ELSE Queued(u)
      /\ Len(sent') = Len(sent)
  BY <1>1, Cleared DEF IndInv
<1>3. Under(n)' = <<>>
  BY <1>1, <1>2, UnderIs
<1>4. \A x \in Names : x # n => Under(x)' = Under(x)
  <2> TAKE x \in Names
  <2> HAVE x # n
  <2>1. GetTopic(x) # t
    BY <1>1, Shapes DEF IndInv
  <2> QED  BY <1>2, <2>1, UnderSame DEF IndInv
<1>5. [x \in Names |-> Under(x)]' = [[x \in Names |-> Under(x)] EXCEPT ![n] = <<>>]
  BY <1>3, <1>4
<1> QED  BY <1>2, <1>5, QueuesUnder DEF Queues!Clear, Under

\* Each name is a first-in first-out queue of QueueSize - 1 messages: the wrapping
\* head and tail, the queues of other topics, callbacks that publish to the topic
\* being processed and topics created meanwhile cannot be told from it.
THEOREM RingsAreQueues == Spec => IsQueues
<1>1. Init => Queues!Init
  <2> SUFFICES ASSUME Init  PROVE Queues!Init
    OBVIOUS
  <2>1. \A n : GetTopic(n) = 0
    BY DEF Init, GetTopic
  <2>2. Len(sent) = 0
    BY EmptySeq DEF Init
  <2> QED  BY <2>1, <2>2 DEF Queues!Init
<1>2. ASSUME IndInv, [Next]_vars
      PROVE  Queues!Next \/ UNCHANGED <<[n \in Names |-> Under(n)], Len(sent)>>
  <2>1. CASE \E p \in Procs : Take(p)
    BY <1>2, <2>1, TakeRefines DEF Queues!Next
  <2>2. ASSUME NEW n \in Names, CreateTopic(n)
        PROVE  UNCHANGED <<[x \in Names |-> Under(x)], Len(sent)>>
    BY <1>2, <2>2, CreateRefines DEF CreateTopic
  <2>3. ASSUME NEW n \in Names, Subscribe(n)
        PROVE  UNCHANGED <<[x \in Names |-> Under(x)], Len(sent)>>
    BY <1>2, <2>3, CreateRefines, QuietStep DEF Subscribe
  <2>4. ASSUME NEW n \in Names, Publish(n)
        PROVE  Queues!Accept(n)
    <3>1. ("publish" \in mqtt) \in BOOLEAN
      OBVIOUS
    <3>2. /\ GetTopic(n) # 0 /\ ~IsFull(GetTopic(n))
          /\ Enqueue(GetTopic(n), "local", "publish" \in mqtt)
      BY <2>4 DEF Publish
    <3> QED  BY <1>2, <3>1, <3>2, EnqueueRefines
  <2>5. ASSUME NEW n \in Names, Poll(n)
        PROVE  Queues!Accept(n) \/ UNCHANGED <<[x \in Names |-> Under(x)], Len(sent)>>
    <3>1. CASE GetTopic(n) = 0 \/ IsFull(GetTopic(n))
      BY <1>2, <2>5, <3>1, QuietStep DEF Poll
    <3>2. CASE ~(GetTopic(n) = 0 \/ IsFull(GetTopic(n)))
      BY <1>2, <2>5, <3>2, EnqueueRefines DEF Poll
    <3> QED  BY <3>1, <3>2
  <2>6. ASSUME NEW n \in Names, ClearQueue(n)
        PROVE  Queues!Clear(n)
    BY <1>2, <2>6, ClearRefines
  <2>7. CASE \/ \E i \in SubIds : Unsubscribe(i)
             \/ \E p \in Procs, n \in Names : StartTopic(p, n)
             \/ \E p \in Procs : StartAll(p) \/ CallBack(p) \/ Passed(p) \/ Finish(p)
             \/ \E fns \in Adapters : SetAdapter(fns)
             \/ UNCHANGED vars
    <3>1. topics' = topics /\ sent' = sent
      <4>1. CASE \E i \in SubIds : Unsubscribe(i)
        BY <4>1 DEF Unsubscribe
      <4>2. CASE \E p \in Procs, n \in Names : StartTopic(p, n)
        BY <4>2 DEF StartTopic
      <4>3. CASE \E p \in Procs : StartAll(p) \/ CallBack(p) \/ Passed(p) \/ Finish(p)
        BY <4>3 DEF StartAll, CallBack, Passed, Finish
      <4>4. CASE (\E fns \in Adapters : SetAdapter(fns)) \/ UNCHANGED vars
        BY <4>4 DEF SetAdapter, vars
      <4> QED  BY <2>7, <4>1, <4>2, <4>3, <4>4
    <3> QED  BY <1>2, <3>1, QuietStep
  <2> QED  BY <1>2, <2>1, <2>2, <2>3, <2>4, <2>5, <2>6, <2>7 DEF Next, Process, Queues!Next
<1>3. ASSUME IndInv, [Next]_vars
      PROVE  [Queues!Next]_<<[n \in Names |-> IF GetTopic(n) = 0 THEN <<>> ELSE Queued(GetTopic(n))], Len(sent)>>
  BY <1>2, <1>3, QueuesUnder DEF Under
<1> QED  BY <1>1, <1>3, InductiveInvariant, PTL DEF Spec, IsQueues, Queues!Spec

=============================================================================
