------------------------------- MODULE BTree -------------------------------
(***************************************************************************)
(* The B-tree of src/src/btree.c: nodes in memory, at addresses, and the   *)
(* call in progress.  The functions that go down the tree end in the call  *)
(* for the child, so that a call is the node it has come to, and one step  *)
(* is what is done there.  Tasks do not preempt each other: there is one   *)
(* call at a time.                                                         *)
(***************************************************************************)
EXTENDS BTreeNode

CONSTANTS
    Builds,        \* [order, keys, values, reinsert, deletes, short]: see below
    Null           \* NULL

VARIABLES
    mem,       \* the allocated nodes by address, whose children are addresses
    root,      \* tree->root, NoTree while there is no tree
    block,     \* whether the BTree itself, which holds it, is allocated
    call       \* the call in progress, or the last one and what it returned

vars == <<build, mem, root, block, call>>

Keys        == build.keys          \* the keys and values its caller uses,
Values      == build.values        \* whether it inserts keys that are in the
Reinsert    == build.reinsert      \* tree,
Deletes     == build.deletes       \* whether it deletes,
Short       == build.short         \* and whether memory may be short

\* btree.h refuses lower orders; an unsigned int has 16 bits, an unsigned char 8.
UIntMax  == 65535
UCharMax == 255
ASSUME BuildsAssumption ==
    \A b \in Builds : /\ b.order \in Nat /\ b.order >= 3 /\ b.order <= UCharMax
                      /\ b.keys \subseteq 0 .. UIntMax
                      /\ Null \notin b.values /\ b.short \in BOOLEAN

-----------------------------------------------------------------------------
(* Memory *)

NoTree == -1

\* The node at a with its children in place of their addresses (as a sequence,
\* which TLC takes a function for only when it has evaluated it).
View(h, a) ==
    [ents |-> h[a].ents, kids |-> <<>> \o [i \in DOMAIN h[a].kids |-> h[h[a].kids[i]]]]

\* The memory when the node at a and its children, now at ids, become those of n.
Rewrite(h, a, n, ids) ==
    [x \in (DOMAIN h \ Range(h[a].kids)) \cup Range(ids) |->
        IF x = a THEN [ents |-> n.ents, kids |-> ids]
        ELSE IF x \in Range(ids) THEN n.kids[CHOOSE i \in DOMAIN ids : ids[i] = x]
        ELSE h[x]]

With(h, a, n) == [x \in DOMAIN h \cup {a} |-> IF x = a THEN n ELSE h[x]]

\* The address of the next node: any one that is free.
Fresh == CHOOSE a \in 0 .. Cardinality(DOMAIN mem) : a \notin DOMAIN mem

\* Whether malloc delivers: once it has not, there is nothing to be had before
\* the call ends, as all nodes have the same size.
Malloc == IF call.short THEN {FALSE} ELSE IF Short THEN BOOLEAN ELSE {TRUE}

\* The nodes in and below a node, which btree_node_count counts.
Under[a \in DOMAIN mem] == {a} \cup UNION {Under[b] : b \in Range(mem[a].kids)}

-----------------------------------------------------------------------------
(* Calls *)

Call(op, k, v, job) ==
    /\ call.job = "idle"
    /\ call' = [op |-> op, key |-> k, val |-> v, ret |-> Null,
                job |-> job, seek |-> k, at |-> root, short |-> FALSE]
    /\ UNCHANGED <<build, mem, root, block>>

GoOn(job, a) == call' = [call EXCEPT !.job = job, !.at = a]

\* What insertion, creation and freeing return (1, or 0 when nothing is done)
\* the code does not say.
Return(r) == call' = [call EXCEPT !.ret = r, !.job = "idle", !.seek = call.key,
                                  !.at = NoTree, !.short = FALSE]

\* An entry is written behind the arrays of a node, or a child pointer read that
\* was never written: nothing more is said of the tree.
Unsound == call' = [call EXCEPT !.job = "unsound"] /\ UNCHANGED mem

\* What is stored in a memory, and under a key.
Stored(h) == UNION {Range(h[a].ents) : a \in DOMAIN h}
Lookup(k) == IF \E e \in Stored(mem) : e.key = k
               THEN (CHOOSE e \in Stored(mem) : e.key = k).val ELSE Null

Node == mem[call.at]
Here == View(mem, call.at)

-----------------------------------------------------------------------------
(* Search: btree_get, btree_update and the two searches of btree_delete *)

Scan == NotLess(Node, call.key)
Met  == call.at # NoTree /\ Holds(Node, Scan, call.key)
Searching == call.job \in {"search", "verify"}

Descend ==
    /\ Searching /\ ~Met
    /\ call.at # NoTree /\ ~IsLeaf(Node)
    /\ GoOn(call.job, Node.kids[Scan])
    /\ UNCHANGED <<build, mem, root, block>>

Miss ==
    /\ Searching /\ ~Met
    /\ call.at # NoTree => IsLeaf(Node)
    /\ Return(IF call.op = "get" THEN Null ELSE IF call.job = "verify" THEN 1 ELSE 0)
    /\ UNCHANGED <<build, mem, root, block>>

Find ==
    /\ Searching /\ Met
    /\ LET old == Node.ents[Scan].val
       IN  CASE call.op = "get" -> Return(old) /\ UNCHANGED mem
             [] call.op = "update" -> /\ Return(1)
                                      /\ mem' = [mem EXCEPT ![call.at].ents[Scan].val = call.val]
             [] call.op = "delete" /\ call.job = "search" ->
                    call' = [call EXCEPT !.ret = old, !.job = "remove", !.at = root] /\ UNCHANGED mem
             [] OTHER -> Return(0) /\ UNCHANGED mem
    /\ UNCHANGED <<build, root, block>>

-----------------------------------------------------------------------------
(* Insertion *)

\* Above a full root comes a new one.
GrowRootNever ==
    /\ call.job = "grow"
    /\ IF root = NoTree THEN Return(0) ELSE GoOn("insert", root)
    /\ UNCHANGED <<build, mem, root, block>>
GrowRoot ==
    /\ call.job = "grow"
    /\ IF root = NoTree THEN Return(0) /\ UNCHANGED <<mem, root>>
       ELSE IF Count(mem[root]) # MaxKeys THEN GoOn("insert", root) /\ UNCHANGED <<mem, root>>
       ELSE \E got \in Malloc :
              IF got THEN /\ mem' = With(mem, Fresh, [ents |-> <<>>, kids |-> <<root>>])
                          /\ root' = Fresh
                          /\ GoOn("split", Fresh)
              ELSE Return(0) /\ UNCHANGED <<mem, root>>
    /\ UNCHANGED <<build, block>>

SplitIds(a, c) == InsertAt(mem[a].kids, c + 1, Fresh)
Split(a, c)    == Rewrite(mem, a, SplitChild(View(mem, a), c), SplitIds(a, c))

\* It splits the old one, unless that took the last of the memory.
SplitRoot ==
    /\ call.job = "split"
    /\ \E got \in Malloc :
          /\ mem' = IF got THEN Split(call.at, 1) ELSE mem
          /\ call' = [call EXCEPT !.job = "insert", !.short = ~got]
    /\ UNCHANGED <<build, root, block>>

Inserting == call.job = "insert"
Slot      == NotGreater(Node, call.key)

InsertIntoLeaf ==
    /\ Inserting /\ IsLeaf(Node)
    /\ IF Count(Node) = MaxKeys /\ ~(Slot = MaxKeys /\ Holds(Node, Slot, call.key)) THEN Unsound
       ELSE /\ mem' = [mem EXCEPT ![call.at].ents = LeafInsert(@, Slot, call.key, call.val)]
            /\ Return(1)
    /\ UNCHANGED <<build, root, block>>

\* When there is no memory to split the full child, the insertion goes on into
\* it; past the last entry the key is compared with whatever the place holds
\* behind it, and the pointer after it may be followed.
InsertBelow ==
    LET c == Slot + 1  child == Node.kids[c]  full == mem[child]
    IN  /\ Inserting /\ ~IsLeaf(Node)
        /\ IF Holds(Node, Slot, call.key)
             THEN mem' = [mem EXCEPT ![call.at].ents[Slot].val = call.val] /\ Return(1)
           ELSE IF Count(full) # MaxKeys THEN GoOn("insert", child) /\ UNCHANGED mem
           ELSE \E got \in Malloc :
                  IF got
                    THEN /\ mem' = Split(call.at, c)
                         /\ GoOn("insert", IF call.key > full.ents[SplitIndex + 1].key
                                             THEN Fresh ELSE child)
                    ELSE \/ /\ call' = [call EXCEPT !.at = child, !.short = TRUE]
                            /\ UNCHANGED mem
                         \/ c > Count(Node) /\ Unsound
        /\ UNCHANGED <<build, root, block>>

-----------------------------------------------------------------------------
(* Deletion *)

Removing == call.job = "remove"
Position == NotLess(Node, call.seek)
Held     == Holds(Node, Position, call.seek)
Child(i) == Node.kids[i]

RemoveFromLeaf ==
    /\ Removing /\ IsLeaf(Node)
    /\ mem' = IF Held THEN [mem EXCEPT ![call.at].ents = RemoveAt(@, Position)] ELSE mem
    /\ GoOn("shrink", root)
    /\ UNCHANGED <<build, root, block>>

\* A merge needs two children, and room for both and the entry between them.
MergeFits(n, j) ==
    j \in DOMAIN n.ents /\ Count(n.kids[j]) + 1 + Count(n.kids[j + 1]) <= MaxKeys

RefillFits(n, i) ==
    Count(n.kids[i]) = MinKeys =>
       \/ i > 1 /\ Count(n.kids[i - 1]) > MinKeys
       \/ i <= Count(n) /\ Count(n.kids[i + 1]) > MinKeys
       \/ MergeFits(n, IF i <= Count(n) THEN i ELSE i - 1)

RemoveBelow ==
    LET r   == Refill(Here, Position)
        ids == IF Len(r.node.kids) < Len(Node.kids) THEN RemoveAt(Node.kids, r.at + 1)
               ELSE Node.kids
    IN  /\ Removing /\ ~IsLeaf(Node) /\ ~Held
        /\ IF RefillFits(Here, Position)
             THEN mem' = Rewrite(mem, call.at, r.node, ids) /\ GoOn("remove", ids[r.at])
             ELSE Unsound
        /\ UNCHANGED <<build, root, block>>

\* The entry of an internal node is replaced by the last one of its left child
\* or the first one of its right child, the entries found in the child itself,
\* which is then deleted there.
Replace(e, child) ==
    /\ mem' = [mem EXCEPT ![call.at].ents[Position] = e]
    /\ call' = [call EXCEPT !.seek = e.key, !.at = child]
    /\ UNCHANGED <<build, root, block>>

Internal == Removing /\ ~IsLeaf(Node) /\ Held
LeftSpares  == Count(mem[Child(Position)]) > MinKeys
RightSpares == Count(mem[Child(Position + 1)]) > MinKeys

TakePredecessor ==
    Internal /\ LeftSpares /\ Replace(Last(mem[Child(Position)].ents), Child(Position))

TakeSuccessor ==
    /\ Internal /\ ~LeftSpares /\ RightSpares
    /\ Replace(Head(mem[Child(Position + 1)].ents), Child(Position + 1))

MergeBoth ==
    /\ Internal /\ ~LeftSpares /\ ~RightSpares
    /\ IF MergeFits(Here, Position)
         THEN /\ mem' = Rewrite(mem, call.at, Merge(Here, Position),
                                RemoveAt(Node.kids, Position + 1))
              /\ GoOn("remove", Child(Position))
         ELSE Unsound
    /\ UNCHANGED <<build, root, block>>

\* A root that has lost its last entry makes way for its only child.
Emptied == Count(mem[root]) = 0 /\ ~IsLeaf(mem[root])
FreeOldRootNot == mem
FreeOldRoot == Restrict(mem, DOMAIN mem \ {root})

ShrinkRoot ==
    /\ call.job = "shrink"
    /\ IF Emptied THEN root' = mem[root].kids[1] /\ mem' = FreeOldRoot
       ELSE UNCHANGED <<mem, root>>
    /\ GoOn("verify", root')
    /\ UNCHANGED <<build, block>>

-----------------------------------------------------------------------------
(* The tree itself *)

\* btree_create allocates twice, and gives the first back when the second fails.
CreateTree ==
    /\ call.job = "create" /\ ~block
    /\ \E got \in Malloc : IF got THEN block' = TRUE /\ UNCHANGED call
                                  ELSE Return(0) /\ UNCHANGED block
    /\ UNCHANGED <<build, mem, root>>

FreeTreeNot == block
FreeTree    == FALSE

CreateRoot ==
    /\ call.job = "create" /\ block
    /\ \E got \in Malloc :
          IF got THEN mem' = With(mem, Fresh, Leaf) /\ root' = Fresh /\ Return(1) /\ UNCHANGED block
          ELSE block' = FreeTree /\ Return(0) /\ UNCHANGED <<mem, root>>
    /\ UNCHANGED build

Free ==
    /\ call.job = "free"
    /\ mem' = Restrict(mem, DOMAIN mem \ Under[root])
    /\ root' = NoTree /\ block' = FALSE
    /\ Return(1)
    /\ UNCHANGED build

-----------------------------------------------------------------------------
Init ==
    /\ build \in Builds
    /\ mem = << >> /\ root = NoTree /\ block = FALSE
    /\ call = [op |-> "none", key |-> Null, val |-> Null, ret |-> Null,
               job |-> "idle", seek |-> Null, at |-> NoTree, short |-> FALSE]

BeginCall ==
    \/ \E k \in Keys :
          \/ Call("get", k, Null, "search")
          \/ \E v \in Values :
                \/ Call("update", k, v, "search")
                \/ (Reinsert \/ Lookup(k) = Null) /\ Call("insert", k, v, "grow")
          \/ Deletes /\ Call("delete", k, Null, "search")
    \/ root = NoTree /\ Call("create", Null, Null, "create")
    \/ Deletes /\ root # NoTree /\ Call("free", Null, Null, "free")

Next ==
    \/ BeginCall
    \/ Descend \/ Miss \/ Find
    \/ GrowRoot \/ SplitRoot \/ InsertIntoLeaf \/ InsertBelow
    \/ RemoveFromLeaf \/ RemoveBelow \/ TakePredecessor \/ TakeSuccessor \/ MergeBoth
    \/ ShrinkRoot
    \/ CreateTree \/ CreateRoot \/ Free
    \/ call.job = "unsound" /\ UNCHANGED vars

Spec == Init /\ [][Next]_vars

-----------------------------------------------------------------------------
(* Properties *)

\* How far the leaves are below a node, along its first children.
Height[a \in DOMAIN mem] == IF IsLeaf(mem[a]) THEN 0 ELSE Height[mem[a].kids[1]] + 1

\* The shape that btree.h's bounds promise: every node has at most
\* BTREE_MAX_KEYS keys and all but the root at least BTREE_MIN_KEYS (with an
\* odd order already a split leaves less), an internal node has one child more
\* than keys, and all leaves are equally deep.
Balanced ==
    \A a \in DOMAIN mem :
       /\ a # root /\ MaxChildren % 2 = 0 => Count(mem[a]) >= MinKeys
       /\ Count(mem[a]) <= MaxKeys
       /\ ~IsLeaf(mem[a]) => /\ Len(mem[a].kids) = Count(mem[a]) + 1
                             /\ \A b \in Range(mem[a].kids) : Height[a] = Height[b] + 1

\* The search order, except while an entry is removed: the keys of a node
\* increase, those below a child lie between the entries on its sides, so that
\* each is stored once and the search from the root meets it.
Sorted ==
    ~Removing =>
    \A a \in DOMAIN mem :
       LET n == mem[a]
       IN  /\ \A i, j \in DOMAIN n.ents : i < j => n.ents[i].key < n.ents[j].key
           /\ \A i \in DOMAIN n.kids : \A b \in Under[n.kids[i]] : \A e \in Range(mem[b].ents) :
                 /\ i > 1 => n.ents[i - 1].key < e.key
                 /\ i <= Count(n) => e.key < n.ents[i].key

\* The allocated nodes are those of the tree, and there is a block for it while
\* it is there and no longer: splits that fail, merges, a shrinking root,
\* btree_create when memory ends and btree_free leave nothing behind.
NoLeak ==
    /\ DOMAIN mem = IF root = NoTree THEN {} ELSE Under[root]
    /\ call.job # "create" => (block <=> root # NoTree)

\* With memory enough no entry is written behind the arrays of a node, and no
\* child is followed that is not there.  btree.h allows every order from 3 on.
StaysInside == ~Short => call.job # "unsound"

\* Calls do to what can be found what they do to a map, and return what they
\* would there.  An insertion that finds no memory to grow the root is silently
\* dropped; one that finds none further down may never return, and where it
\* does, it has inserted.  While an entry is removed it counts as stored.
AllKeys   == UNION {b.keys : b \in Builds}
AllValues == UNION {b.values : b \in Builds}
Deleting  == call.op = "delete" /\ call.job \notin {"idle", "search"}
Map == INSTANCE Dictionary WITH
    Keys <- AllKeys, Values <- AllValues, there <- root # NoTree, short <- Short,
    map <- [k \in AllKeys |-> IF Deleting /\ k = call.key THEN call.ret ELSE Lookup(k)],
    call <- [op |-> call.op, key |-> call.key, val |-> call.val,
             ret |-> IF call.job = "idle" THEN call.ret ELSE Null, done |-> call.job = "idle"]
IsMap == Map!Spec
=============================================================================
