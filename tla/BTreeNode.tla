------------------------------ MODULE BTreeNode ------------------------------
(***************************************************************************)
(* The nodes of the B-tree of src/src/btree.c.  A node is the sequence of  *)
(* its entries (keys[i], values[i]) and that of its children, which a leaf *)
(* has none of; positions count from 1.  The functions that change a node  *)
(* and its children in place return the changed node.                      *)
(***************************************************************************)
EXTENDS Integers, SequencesExt, FiniteSetsExt

VARIABLE build     \* the build that runs, which never changes: see BTree

MaxChildren == build.order         \* BTREE_MAX_CHILDREN
MaxKeys    == MaxChildren - 1
MinKeys    == (MaxChildren + 1) \div 2 - 1
SplitIndex == MaxKeys \div 2

-----------------------------------------------------------------------------
Leaf     == [ents |-> <<>>, kids |-> <<>>]
IsLeaf(n) == n.kids = <<>>
Count(n)  == Len(n.ents)
Entry(k, v) == [key |-> k, val |-> v]

\* Where the scans over a node's keys stop: the first key that is not less
\* than k, and the last one that is not greater.
NotLess(n, k)    == Min({i \in DOMAIN n.ents : n.ents[i].key >= k} \cup {Count(n) + 1})
NotGreater(n, k) == Max({i \in DOMAIN n.ents : n.ents[i].key <= k} \cup {0})
Holds(n, i, k)   == i \in DOMAIN n.ents /\ n.ents[i].key = k

-----------------------------------------------------------------------------
(* Insertion *)

\* node_split_child: the entry at SplitIndex moves up, those after it into a
\* new node.
SplitChild(n, i) ==
    LET full  == n.kids[i]
        up    == SplitIndex + 1
        left  == [ents |-> SubSeq(full.ents, 1, up - 1),
                  kids |-> IF IsLeaf(full) THEN <<>> ELSE SubSeq(full.kids, 1, up)]
        right == [ents |-> SubSeq(full.ents, up + 1, MaxKeys),
                  kids |-> IF IsLeaf(full) THEN <<>>
                           ELSE SubSeq(full.kids, up + 1, MaxChildren)]
    IN  [ents |-> InsertAt(n.ents, i, full.ents[up]),
         kids |-> InsertAt([n.kids EXCEPT ![i] = left], i + 1, right)]

\* A leaf makes room while it looks for the position: where it meets the key
\* instead, key_count stays, and the greater entries have moved up for nothing.
LeafInsert(ents, i, k, v) ==
    IF i \in DOMAIN ents /\ ents[i].key = k
      THEN [j \in DOMAIN ents |-> IF j = i THEN Entry(k, v)
                                 ELSE IF j > i + 1 THEN ents[j - 1] ELSE ents[j]]
      ELSE InsertAt(ents, i + 1, Entry(k, v))

-----------------------------------------------------------------------------
(* Deletion *)

\* merge_nodes: separator and right sibling are appended to the left one.
MergeDropsSeparator(n, i) ==
    LET left == n.kids[i]  right == n.kids[i + 1]
    IN  [ents |-> RemoveAt(n.ents, i),
         kids |-> RemoveAt([n.kids EXCEPT ![i] =
                     [ents |-> left.ents \o right.ents, kids |-> left.kids \o right.kids]],
                  i + 1)]
Merge(n, i) ==
    LET left == n.kids[i]  right == n.kids[i + 1]
    IN  [ents |-> RemoveAt(n.ents, i),
         kids |-> RemoveAt([n.kids EXCEPT ![i] =
                     [ents |-> left.ents \o <<n.ents[i]>> \o right.ents,
                      kids |-> left.kids \o right.kids]],
                  i + 1)]

\* The child's first entry comes down from the node, whose place the last
\* entry of the left sibling takes; its last child moves over.
BorrowLeftUnrotated(n, i) ==
    LET left == n.kids[i - 1]  child == n.kids[i]
    IN  [ents |-> n.ents,
         kids |-> [n.kids EXCEPT
             ![i - 1] = [ents |-> Front(left.ents),
                         kids |-> IF IsLeaf(left) THEN <<>> ELSE Front(left.kids)],
             ![i] = [ents |-> <<Last(left.ents)>> \o child.ents,
                     kids |-> IF IsLeaf(child) THEN <<>>
                              ELSE <<Last(left.kids)>> \o child.kids]]]
BorrowLeft(n, i) ==
    LET left == n.kids[i - 1]  child == n.kids[i]
    IN  [ents |-> [n.ents EXCEPT ![i - 1] = Last(left.ents)],
         kids |-> [n.kids EXCEPT
             ![i - 1] = [ents |-> Front(left.ents),
                         kids |-> IF IsLeaf(left) THEN <<>> ELSE Front(left.kids)],
             ![i] = [ents |-> <<n.ents[i - 1]>> \o child.ents,
                     kids |-> IF IsLeaf(child) THEN <<>>
                              ELSE <<Last(left.kids)>> \o child.kids]]]

BorrowRight(n, i) ==
    LET child == n.kids[i]  right == n.kids[i + 1]
    IN  [ents |-> [n.ents EXCEPT ![i] = Head(right.ents)],
         kids |-> [n.kids EXCEPT
             ![i] = [ents |-> Append(child.ents, n.ents[i]),
                     kids |-> IF IsLeaf(child) THEN <<>>
                              ELSE Append(child.kids, Head(right.kids))],
             ![i + 1] = [ents |-> Tail(right.ents),
                         kids |-> IF IsLeaf(right) THEN <<>> ELSE Tail(right.kids)]]]

\* The node and the child position the deletion goes on with, after the child
\* at position i has been given an entry to spare.
NoRefill(n, i) == [node |-> n, at |-> i]
Refill(n, i) ==
    IF Count(n.kids[i]) # MinKeys THEN [node |-> n, at |-> i]
    ELSE IF i > 1 /\ Count(n.kids[i - 1]) > MinKeys
      THEN [node |-> BorrowLeft(n, i), at |-> i]
    ELSE IF i <= Count(n) /\ Count(n.kids[i + 1]) > MinKeys
      THEN [node |-> BorrowRight(n, i), at |-> i]
    ELSE LET j == IF i <= Count(n) THEN i ELSE i - 1
         IN  [node |-> Merge(n, j), at |-> j]
=============================================================================
