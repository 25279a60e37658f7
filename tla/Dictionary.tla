----------------------------- MODULE Dictionary -----------------------------
(***************************************************************************)
(* What the B-tree promises: a map from keys to values.  A call begins, and *)
(* later takes effect and returns, unless it goes wrong for want of memory *)
(* and never does.                                                         *)
(***************************************************************************)
CONSTANTS Keys, Values, Null

VARIABLES
    there,  \* whether the map has been created
    short,  \* whether memory may be short
    map,    \* map[k]: the value stored under k, Null for none
    call    \* the last call: [op, key, val, ret, done]

vars == <<there, short, map, call>>

Empty == [k \in Keys |-> Null]

Init ==
    /\ there = FALSE /\ short \in BOOLEAN
    /\ map = Empty
    /\ call = [op |-> "none", key |-> Null, val |-> Null, ret |-> Null, done |-> TRUE]

Begin(op, k, v) ==
    /\ call.done
    /\ call' = [op |-> op, key |-> k, val |-> v, ret |-> Null, done |-> FALSE]
    /\ UNCHANGED <<there, short, map>>

Return(op, r) ==
    /\ ~call.done /\ call.op = op
    /\ call' = [call EXCEPT !.ret = r, !.done = TRUE]
    /\ UNCHANGED short

Get == Return("get", map[call.key]) /\ UNCHANGED <<there, map>>

Insert ==
    /\ Return("insert", 1)
    /\ there /\ map' = [map EXCEPT ![call.key] = call.val]
    /\ UNCHANGED there

\* Without a map, or without memory.
Drop == Return("insert", 0) /\ (there => short) /\ UNCHANGED <<there, map>>

Update ==
    \/ /\ Return("update", 0) /\ map[call.key] = Null
       /\ UNCHANGED <<there, map>>
    \/ /\ Return("update", 1) /\ map[call.key] # Null
       /\ map' = [map EXCEPT ![call.key] = call.val] /\ UNCHANGED there

Delete ==
    \/ /\ Return("delete", 0) /\ map[call.key] = Null
       /\ UNCHANGED <<there, map>>
    \/ /\ Return("delete", 1) /\ map[call.key] # Null
       /\ map' = [map EXCEPT ![call.key] = Null] /\ UNCHANGED there

Create ==
    \/ Return("create", 1) /\ there' = TRUE /\ UNCHANGED map
    \/ Return("create", 0) /\ short /\ UNCHANGED <<there, map>>

Free == Return("free", 1) /\ there' = FALSE /\ map' = Empty

Next ==
    \/ \E k \in Keys : \/ Begin("get", k, Null) \/ Begin("delete", k, Null)
                       \/ \E v \in Values : Begin("insert", k, v) \/ Begin("update", k, v)
    \/ ~there /\ Begin("create", Null, Null)
    \/ there /\ Begin("free", Null, Null)
    \/ Get \/ Insert \/ Drop \/ Update \/ Delete \/ Create \/ Free

Spec == Init /\ [][Next]_vars
=============================================================================
