---------------------------- MODULE MessageQueues ----------------------------
(***************************************************************************)
(* What the topics of the publish/subscribe bus promise: each is a bounded *)
(* first-in first-out queue of messages.  A message is its number in the   *)
(* order they were accepted; clearing accepts none.                        *)
(***************************************************************************)
EXTENDS Naturals, Sequences

CONSTANTS Names, Capacity

VARIABLES
    queue,    \* queue[n]: the messages waiting under topic name n
    accepted  \* how many messages have been accepted

Init == queue = [n \in Names |-> <<>>] /\ accepted = 0

Accept(n) ==
    /\ Len(queue[n]) < Capacity
    /\ accepted' = accepted + 1
    /\ queue' = [queue EXCEPT ![n] = Append(@, accepted')]

Take(n) ==
    /\ queue[n] # <<>>
    /\ queue' = [queue EXCEPT ![n] = Tail(@)]
    /\ UNCHANGED accepted

Clear(n) == queue' = [queue EXCEPT ![n] = <<>>] /\ UNCHANGED accepted

Next == \E n \in Names : Accept(n) \/ Take(n) \/ Clear(n)

Spec == Init /\ [][Next]_<<queue, accepted>>
=============================================================================
