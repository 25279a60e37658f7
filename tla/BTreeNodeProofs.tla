--------------------------- MODULE BTreeNodeProofs ---------------------------
(***************************************************************************)
(* Theorems about what btree.c does to a node and its children, for every  *)
(* order: nothing is lost or moved out of order, and every node keeps to   *)
(* its bounds.  What is below the children can be anything.                *)
(***************************************************************************)
EXTENDS BTreeNode, CommonLemmas

-----------------------------------------------------------------------------
(* Nodes                                                                     *)

\* btree.h refuses lower orders.
Order == MaxChildren \in Nat /\ MaxChildren >= 3

\* Nodes of entries E above subtrees S.  A node that is not a leaf has one child
\* more than entries; the children of a node are all leaves or all not.
Nodes(E, S) == [ents : Seq(E), kids : Seq(S)]
Fits(n)     == IsLeaf(n) \/ Len(n.kids) = Count(n) + 1
Shaped(n)   ==
    /\ Len(n.kids) = Count(n) + 1
    /\ \A i \in DOMAIN n.kids : Fits(n.kids[i])
    /\ \A i, j \in DOMAIN n.kids : IsLeaf(n.kids[i]) => IsLeaf(n.kids[j])

\* An in-order walk of a node and its children, without the order: every place
\* between two entries (or at an end), with what is below it.
NoEntry == [entry |-> FALSE]
NoNode  == [node |-> FALSE]

Before(n, i, j) == IF j > 1 THEN n.kids[i].ents[j - 1]
                   ELSE IF i > 1 THEN n.ents[i - 1] ELSE NoEntry
After(n, i, j)  == IF j <= Count(n.kids[i]) THEN n.kids[i].ents[j]
                   ELSE IF i <= Count(n) THEN n.ents[i] ELSE NoEntry
Below(n, i, j)  == IF IsLeaf(n.kids[i]) THEN NoNode ELSE n.kids[i].kids[j]
Gap(n, i, j)    == <<Before(n, i, j), Below(n, i, j), After(n, i, j)>>

Places(n, i)   == 1 .. Count(n.kids[i]) + 1
ChildGaps(n, i) == {Gap(n, i, j) : j \in Places(n, i)}
Gaps(n)        == UNION {ChildGaps(n, i) : i \in DOMAIN n.kids}

\* m is n with the child at i split at its entry u.  Merging is splitting read
\* backwards; borrowing is merging and splitting one entry further on.
IsSplit(n, m, i, u) ==
    LET full == n.kids[i]  left == m.kids[i]  right == m.kids[i + 1]
    IN  /\ i \in DOMAIN n.kids /\ u \in DOMAIN full.ents
        /\ Len(m.ents) = Len(n.ents) + 1 /\ Len(m.kids) = Len(n.kids) + 1
        /\ \A j \in DOMAIN n.ents : j < i => m.ents[j] = n.ents[j]
        /\ m.ents[i] = full.ents[u]
        /\ \A j \in DOMAIN n.ents : j >= i => m.ents[j + 1] = n.ents[j]
        /\ \A j \in DOMAIN n.kids : j < i => m.kids[j] = n.kids[j]
        /\ \A j \in DOMAIN n.kids : j > i => m.kids[j + 1] = n.kids[j]
        /\ Len(left.ents) = u - 1 /\ Len(right.ents) = Len(full.ents) - u
        /\ \A j \in 1 .. u - 1 : left.ents[j] = full.ents[j]
        /\ \A j \in u + 1 .. Len(full.ents) : right.ents[j - u] = full.ents[j]
        /\ IF IsLeaf(full) THEN IsLeaf(left) /\ IsLeaf(right)
           ELSE /\ Len(left.kids) = u /\ Len(right.kids) = Len(full.kids) - u
                /\ \A j \in 1 .. u : left.kids[j] = full.kids[j]
                /\ \A j \in u + 1 .. Len(full.kids) : right.kids[j - u] = full.kids[j]

-----------------------------------------------------------------------------
(* Numbers and sequences                                                     *)

LEMMA Bounds ==
    ASSUME Order
    PROVE  /\ MaxKeys \in Nat /\ MinKeys \in Nat /\ SplitIndex \in Nat
           /\ MaxKeys >= 2 /\ MinKeys >= 1 /\ SplitIndex < MaxKeys /\ MinKeys < MaxKeys
           /\ MaxChildren = MaxKeys + 1
           /\ MaxChildren % 2 = 0 => /\ MaxKeys = 2 * MinKeys + 1
                                     /\ SplitIndex = MinKeys
           /\ MaxChildren % 2 = 1 => /\ MaxKeys = 2 * MinKeys
                                     /\ SplitIndex = MinKeys
<1>1. PICK k \in Nat : MaxChildren = 2 * k \/ MaxChildren = 2 * k + 1
  <2>1. MaxChildren \div 2 \in Nat /\ (MaxChildren = 2 * (MaxChildren \div 2)
                               \/ MaxChildren = 2 * (MaxChildren \div 2) + 1)
    BY DEF Order
  <2> QED  BY <2>1
<1> QED  BY <1>1 DEF Order, MaxKeys, MinKeys, SplitIndex

LEMMA Cut ==
    ASSUME NEW T, NEW s \in Seq(T), NEW a \in 1 .. Len(s) + 1, NEW b \in a - 1 .. Len(s)
    PROVE  /\ SubSeq(s, a, b) \in Seq(T) /\ Len(SubSeq(s, a, b)) = b - a + 1
           /\ \A j \in a .. b : SubSeq(s, a, b)[j - a + 1] = s[j]
OBVIOUS

LEMMA CutFront ==
    ASSUME NEW T, NEW s \in Seq(T), NEW b \in 0 .. Len(s)
    PROVE  /\ SubSeq(s, 1, b) \in Seq(T) /\ Len(SubSeq(s, 1, b)) = b
           /\ \A j \in 1 .. b : SubSeq(s, 1, b)[j] = s[j]
OBVIOUS

LEMMA Joined ==
    ASSUME NEW T, NEW s \in Seq(T), NEW t \in Seq(T)
    PROVE  /\ s \o t \in Seq(T) /\ Len(s \o t) = Len(s) + Len(t)
           /\ \A j \in 1 .. Len(s) : (s \o t)[j] = s[j]
           /\ \A j \in 1 .. Len(t) : (s \o t)[Len(s) + j] = t[j]
OBVIOUS

LEMMA Inserted ==
    ASSUME NEW T, NEW s \in Seq(T), NEW i \in 1 .. Len(s) + 1, NEW e \in T
    PROVE  /\ InsertAt(s, i, e) \in Seq(T) /\ Len(InsertAt(s, i, e)) = Len(s) + 1
           /\ \A j \in 1 .. i - 1 : InsertAt(s, i, e)[j] = s[j]
           /\ InsertAt(s, i, e)[i] = e
           /\ \A j \in i .. Len(s) : InsertAt(s, i, e)[j + 1] = s[j]
<1> DEFINE a == SubSeq(s, 1, i - 1)  b == SubSeq(s, i, Len(s))
<1>1. a \in Seq(T) /\ Len(a) = i - 1 /\ \A j \in 1 .. i - 1 : a[j] = s[j]
  BY CutFront
<1>2. b \in Seq(T) /\ Len(b) = Len(s) - i + 1 /\ \A j \in i .. Len(s) : b[j - i + 1] = s[j]
  BY Cut
<1> HIDE DEF a, b
<1> DEFINE c == Append(a, e)
<1>3. /\ c \in Seq(T) /\ Len(c) = i /\ c[i] = e
      /\ \A j \in 1 .. i - 1 : c[j] = s[j]
  BY <1>1
<1>4. InsertAt(s, i, e) = c \o b
  <2>1. InsertAt(s, i, e) = (a \o <<e>>) \o b
    BY DEF InsertAt, a, b
  <2>2. a \o <<e>> = c
    BY <1>1
  <2> QED  BY <2>1, <2>2
<1> HIDE DEF c
<1>5. c \o b \in Seq(T) /\ Len(c \o b) = Len(s) + 1
  <2>1. c \o b \in Seq(T) /\ Len(c \o b) = Len(c) + Len(b)
    <3>1. c \in Seq(T) /\ b \in Seq(T)
      BY <1>2, <1>3
    <3> QED  BY <3>1
  <2>2. Len(c) + Len(b) = Len(s) + 1
    BY <1>2, <1>3
  <2> QED  BY <2>1, <2>2
<1>6. \A j \in 1 .. i : (c \o b)[j] = c[j]
  BY <1>2, <1>3
<1>7. ASSUME NEW j \in i .. Len(s) PROVE (c \o b)[j + 1] = s[j]
  <2>1. j - i + 1 \in 1 .. Len(b) /\ Len(c) + (j - i + 1) = j + 1
    BY <1>2, <1>3
  <2>2. \A k \in 1 .. Len(b) : (c \o b)[Len(c) + k] = b[k]
    BY <1>2, <1>3
  <2> QED  BY <1>2, <2>1, <2>2
<1> QED  BY <1>3, <1>4, <1>5, <1>6, <1>7

LEMMA Removed ==
    ASSUME NEW T, NEW s \in Seq(T), NEW i \in 1 .. Len(s)
    PROVE  /\ RemoveAt(s, i) \in Seq(T) /\ Len(RemoveAt(s, i)) = Len(s) - 1
           /\ \A j \in 1 .. i - 1 : RemoveAt(s, i)[j] = s[j]
           /\ \A j \in i + 1 .. Len(s) : RemoveAt(s, i)[j - 1] = s[j]
<1> DEFINE a == SubSeq(s, 1, i - 1)  b == SubSeq(s, i + 1, Len(s))
<1>1. a \in Seq(T) /\ Len(a) = i - 1 /\ \A j \in 1 .. i - 1 : a[j] = s[j]
  BY CutFront
<1>2. b \in Seq(T) /\ Len(b) = Len(s) - i /\ \A j \in i + 1 .. Len(s) : b[j - i] = s[j]
  BY Cut
<1> HIDE DEF a, b
<1>3. RemoveAt(s, i) = a \o b
  BY DEF RemoveAt, a, b
<1>4. /\ a \o b \in Seq(T) /\ Len(a \o b) = Len(s) - 1
      /\ \A j \in 1 .. i - 1 : (a \o b)[j] = a[j]
      /\ \A j \in 1 .. Len(s) - i : (a \o b)[(i - 1) + j] = b[j]
  <2>1. a \in Seq(T) /\ b \in Seq(T) /\ Len(a) \in Nat /\ Len(b) \in Nat
    BY <1>1, <1>2
  <2>2. a \o b \in Seq(T) /\ Len(a \o b) = Len(a) + Len(b)
    BY <2>1
  <2>3. \A j \in 1 .. Len(a) : (a \o b)[j] = a[j]
    BY <2>1
  <2>4. \A j \in 1 .. Len(b) : (a \o b)[Len(a) + j] = b[j]
    BY <2>1
  <2>5. Len(a) = i - 1 /\ Len(b) = Len(s) - i /\ Len(a) + Len(b) = Len(s) - 1
    BY <1>1, <1>2
  <2> QED  BY <2>2, <2>3, <2>4, <2>5
<1>5. ASSUME NEW j \in i + 1 .. Len(s) PROVE (a \o b)[j - 1] = s[j]
  <2>1. j - i \in 1 .. Len(s) - i /\ (i - 1) + (j - i) = j - 1
    OBVIOUS
  <2> QED  BY <1>2, <1>4, <2>1
<1> QED  BY <1>1, <1>3, <1>4, <1>5

LEMMA Ends ==
    ASSUME NEW T, NEW s \in Seq(T), Len(s) > 0
    PROVE  /\ Front(s) \in Seq(T) /\ Len(Front(s)) = Len(s) - 1
           /\ \A j \in 1 .. Len(s) - 1 : Front(s)[j] = s[j]
           /\ Last(s) = s[Len(s)] /\ Last(s) \in T
           /\ Tail(s) \in Seq(T) /\ Len(Tail(s)) = Len(s) - 1
           /\ \A j \in 2 .. Len(s) : Tail(s)[j - 1] = s[j]
           /\ Head(s) = s[1] /\ Head(s) \in T
<1>1. /\ Front(s) \in Seq(T) /\ Len(Front(s)) = Len(s) - 1
      /\ \A j \in 1 .. Len(s) - 1 : Front(s)[j] = s[j]
  <2>1. Len(s) - 1 \in 0 .. Len(s)
    OBVIOUS
  <2> QED  BY <2>1, CutFront DEF Front
<1>2. Last(s) = s[Len(s)] /\ Last(s) \in T
  BY DEF Last
<1>3. /\ Tail(s) \in Seq(T) /\ Len(Tail(s)) = Len(s) - 1
      /\ \A j \in 1 .. Len(s) - 1 : Tail(s)[j] = s[j + 1]
      /\ Head(s) = s[1] /\ Head(s) \in T
  OBVIOUS
<1> QED  BY <1>1, <1>2, <1>3

LEMMA Prefixed ==
    ASSUME NEW T, NEW s \in Seq(T), NEW e \in T
    PROVE  /\ <<e>> \o s \in Seq(T) /\ Len(<<e>> \o s) = Len(s) + 1
           /\ (<<e>> \o s)[1] = e
           /\ \A j \in 1 .. Len(s) : (<<e>> \o s)[j + 1] = s[j]
OBVIOUS

LEMMA Nodes_ ==
    ASSUME NEW E, NEW S, NEW n \in Nodes(E, S)
    PROVE  /\ n.ents \in Seq(E) /\ n.kids \in Seq(S) /\ Count(n) \in Nat
           /\ DOMAIN n.ents = 1 .. Count(n)
           /\ IsLeaf(n) <=> Len(n.kids) = 0
           /\ \A j \in DOMAIN n.kids : n.kids[j] \in S
BY EmptySeq DEF Nodes, IsLeaf, Count

-----------------------------------------------------------------------------
(* What a split does to a walk                                               *)

LEMMA SplitGaps ==
    ASSUME NEW E, NEW S, NEW n \in Nodes(E, Nodes(E, S)), NEW m \in Nodes(E, Nodes(E, S)),
           Shaped(n), NEW i, NEW u, IsSplit(n, m, i, u)
    PROVE  /\ \A a \in DOMAIN n.kids : a < i => ChildGaps(m, a) = ChildGaps(n, a)
           /\ \A a \in DOMAIN n.kids : a > i => ChildGaps(m, a + 1) = ChildGaps(n, a)
           /\ ChildGaps(m, i) = {Gap(n, i, j) : j \in 1 .. u}
           /\ ChildGaps(m, i + 1) = {Gap(n, i, j) : j \in u + 1 .. Count(n.kids[i]) + 1}
<1> DEFINE full == n.kids[i]  left == m.kids[i]  right == m.kids[i + 1]
<1>1. /\ Len(n.kids) \in Nat /\ Count(n) \in Nat /\ Len(n.kids) = Count(n) + 1
      /\ DOMAIN n.kids = 1 .. Len(n.kids) /\ DOMAIN n.ents = 1 .. Count(n)
      /\ i \in 1 .. Len(n.kids)
  <2>1. n.ents \in Seq(E) /\ n.kids \in Seq(Nodes(E, S)) /\ Count(n) \in Nat
    BY Nodes_
  <2>2. Len(n.kids) = Count(n) + 1 /\ i \in DOMAIN n.kids
    BY DEF IsSplit, Shaped
  <2> QED  BY <2>1, <2>2 DEF Count
<1>2. Count(m) = Count(n) + 1 /\ Len(m.kids) = Len(n.kids) + 1
  BY DEF IsSplit, Count
<1>e. \A j \in 1 .. Count(n) : /\ j < i => m.ents[j] = n.ents[j]
                               /\ j >= i => m.ents[j + 1] = n.ents[j]
  BY <1>1 DEF IsSplit
<1>3. /\ full \in Nodes(E, S) /\ left \in Nodes(E, S) /\ right \in Nodes(E, S)
      /\ \A j \in DOMAIN n.kids : n.kids[j] \in Nodes(E, S)
  <2>1. DOMAIN m.kids = 1 .. Len(n.kids) + 1
    <3>1. m.kids \in Seq(Nodes(E, S))
      BY Nodes_
    <3> QED  BY <1>1, <1>2, <3>1
  <2>2. i \in DOMAIN m.kids /\ i + 1 \in DOMAIN m.kids
    BY <1>1, <2>1
  <2>3. /\ \A j \in DOMAIN n.kids : n.kids[j] \in Nodes(E, S)
        /\ \A j \in DOMAIN m.kids : m.kids[j] \in Nodes(E, S)
    BY Nodes_
  <2> QED  BY <1>1, <2>2, <2>3
<1>4. /\ Count(full) \in Nat /\ u \in 1 .. Count(full)
      /\ Count(left) = u - 1 /\ Count(right) = Count(full) - u
  BY <1>3, Nodes_ DEF IsSplit, Count
<1>7. ~IsLeaf(full) => Len(full.kids) = Count(full) + 1
  BY <1>1 DEF Shaped, Fits
<1>l. \A c \in Nodes(E, S) : IsLeaf(c) <=> Len(c.kids) = 0
  BY Nodes_
<1>5. IsLeaf(full) <=> IsLeaf(left)
  <2>1. IF IsLeaf(full) THEN IsLeaf(left) ELSE Len(left.kids) = u
    BY DEF IsSplit
  <2> QED  BY <1>3, <1>4, <1>l, <2>1
<1>6. IsLeaf(full) <=> IsLeaf(right)
  <2>1. IF IsLeaf(full) THEN IsLeaf(right) ELSE Len(right.kids) = Len(full.kids) - u
    BY DEF IsSplit
  <2>2. Len(right.kids) \in Nat /\ (IsLeaf(right) <=> Len(right.kids) = 0)
    BY SMTT(40), <1>3, Nodes_
  <2>3. ~IsLeaf(full) => Len(right.kids) = Count(full) + 1 - u
    BY <1>4, <1>7, <2>1
  <2> QED  BY <1>4, <2>1, <2>2, <2>3
<1>8. ASSUME NEW a \in DOMAIN n.kids, a < i PROVE ChildGaps(m, a) = ChildGaps(n, a)
  <2>1. m.kids[a] = n.kids[a] /\ a \in 1 .. Len(n.kids)
    BY <1>1, <1>8 DEF IsSplit
  <2>2. a > 1 => m.ents[a - 1] = n.ents[a - 1]
    <3>1. a > 1 => a - 1 \in 1 .. Count(n) /\ a - 1 < i
      BY <1>1, <1>8, <2>1
    <3> QED  BY <1>1, <1>e, <3>1
  <2>3. m.ents[a] = n.ents[a] /\ a <= Count(n) /\ a <= Count(m)
    <3>1. a \in 1 .. Count(n) /\ a <= Count(m)
      BY <1>1, <1>2, <1>8, <2>1
    <3> QED  BY <1>1, <1>8, <1>e, <3>1
  <2>4. \A j : Gap(m, a, j) = Gap(n, a, j)
    BY <2>1, <2>2, <2>3 DEF Gap, Before, After, Below
  <2> QED  BY <2>1, <2>4 DEF ChildGaps, Places
<1>9. ASSUME NEW a \in DOMAIN n.kids, a > i PROVE ChildGaps(m, a + 1) = ChildGaps(n, a)
  <2>1. m.kids[a + 1] = n.kids[a] /\ a \in 2 .. Len(n.kids)
    BY <1>1, <1>9 DEF IsSplit
  <2>2. m.ents[(a + 1) - 1] = n.ents[a - 1]
    <3>1. a - 1 \in DOMAIN n.ents /\ a - 1 >= i /\ (a - 1) + 1 = (a + 1) - 1
      BY <1>1, <1>9, <2>1
    <3> QED  BY <3>1 DEF IsSplit
  <2>3. /\ a <= Count(n) => m.ents[a + 1] = n.ents[a]
        /\ a <= Count(n) <=> a + 1 <= Count(m)
    BY <1>1, <1>2, <1>9, <1>e, <2>1
  <2>4. \A j : Gap(m, a + 1, j) = Gap(n, a, j)
    <3> TAKE j
    <3>1. a > 1 /\ a + 1 > 1
      BY <2>1
    <3>2. Before(m, a + 1, j) = Before(n, a, j)
      BY <2>1, <2>2, <3>1 DEF Before
    <3>3. After(m, a + 1, j) = After(n, a, j)
      BY <2>1, <2>3 DEF After
    <3> QED  BY <2>1, <3>2, <3>3 DEF Gap, Below
  <2> QED  BY <2>1, <2>4 DEF ChildGaps, Places
<1>10. \A j \in 1 .. u : Gap(m, i, j) = Gap(n, i, j)
  <2> TAKE j \in 1 .. u
  <2>1. Before(m, i, j) = Before(n, i, j)
    <3>1. j > 1 => left.ents[j - 1] = full.ents[j - 1]
      BY <1>4 DEF IsSplit
    <3>2. i > 1 => m.ents[i - 1] = n.ents[i - 1]
      <4>1. i > 1 => i - 1 \in 1 .. Count(n) /\ i - 1 < i
        BY <1>1
      <4> QED  BY <1>1, <1>e, <4>1
    <3> QED  BY <3>1, <3>2 DEF Before
  <2>2. After(m, i, j) = After(n, i, j)
    <3>1. j <= Count(left) => left.ents[j] = full.ents[j]
      BY <1>4 DEF IsSplit
    <3>2. m.ents[i] = full.ents[u] /\ i <= Count(m)
      BY <1>1, <1>2 DEF IsSplit
    <3>3. j <= Count(full) /\ (j <= Count(left) \/ j = u)
      BY <1>4
    <3>4. ~(u <= Count(left))
      BY <1>4
    <3> QED  BY <3>1, <3>2, <3>3, <3>4 DEF After
  <2>3. Below(m, i, j) = Below(n, i, j)
    BY <1>5 DEF Below, IsSplit
  <2> QED  BY <2>1, <2>2, <2>3 DEF Gap
<1>11. \A j \in u + 1 .. Count(full) + 1 : Gap(m, i + 1, j - u) = Gap(n, i, j)
  <2> TAKE j \in u + 1 .. Count(full) + 1
  <2>0. j \in Nat /\ j > 1 /\ u \in Nat
    BY <1>4
  <2>1. Before(m, i + 1, j - u) = Before(n, i, j)
    <3>1. CASE j - u > 1
      <4>1. j - 1 \in u + 1 .. Len(full.ents) /\ (j - 1) - u = (j - u) - 1
        BY <1>4, <3>1 DEF Count
      <4>2. right.ents[(j - u) - 1] = full.ents[j - 1]
        BY <4>1 DEF IsSplit
      <4> QED  BY <2>0, <3>1, <4>2 DEF Before
    <3>2. CASE ~(j - u > 1)
      <4>1. j - 1 = u /\ i + 1 > 1 /\ (i + 1) - 1 = i
        BY SMTT(40), <1>1, <1>4, <3>2
      <4>2. m.ents[i] = full.ents[u]
        BY DEF IsSplit
      <4> QED  BY <2>0, <3>2, <4>1, <4>2 DEF Before
    <3> QED  BY <3>1, <3>2
  <2>2. After(m, i + 1, j - u) = After(n, i, j)
    <3>1. j <= Count(full) <=> j - u <= Count(right)
      BY <1>4
    <3>2. j <= Count(full) => right.ents[j - u] = full.ents[j]
      BY <1>4 DEF IsSplit, Count
    <3>3. i <= Count(n) <=> i + 1 <= Count(m)
      BY <1>1, <1>2
    <3>4. i <= Count(n) => m.ents[i + 1] = n.ents[i]
      BY <1>1 DEF IsSplit
    <3> QED  BY <3>1, <3>2, <3>3, <3>4 DEF After
  <2>3. Below(m, i + 1, j - u) = Below(n, i, j)
    BY <1>4, <1>6, <1>7 DEF Below, IsSplit
  <2> QED  BY <2>1, <2>2, <2>3 DEF Gap
<1>12. ChildGaps(m, i) = {Gap(n, i, j) : j \in 1 .. u}
  <2>1. Places(m, i) = 1 .. u
    BY <1>4 DEF Places
  <2> QED  BY <1>10, <2>1 DEF ChildGaps
<1>13. ChildGaps(m, i + 1) = {Gap(n, i, j) : j \in u + 1 .. Count(full) + 1}
  <2>1. Places(m, i + 1) = 1 .. Count(full) - u + 1
    BY <1>4 DEF Places
  <2>2. \A k \in Places(m, i + 1) : k + u \in u + 1 .. Count(full) + 1 /\ (k + u) - u = k
    BY <1>4, <2>1
  <2>3. \A j \in u + 1 .. Count(full) + 1 : j - u \in Places(m, i + 1)
    BY <1>4, <2>1
  <2>4. \A k \in Places(m, i + 1) : Gap(m, i + 1, k) = Gap(n, i, k + u)
    BY <1>11, <2>2
  <2> QED  BY <1>11, <2>2, <2>3, <2>4 DEF ChildGaps
<1> QED  BY <1>8, <1>9, <1>12, <1>13

\* A split keeps a node in shape, and so does the reverse.
LEMMA SplitShapes ==
    ASSUME NEW E, NEW S, NEW n \in Nodes(E, Nodes(E, S)), NEW m \in Nodes(E, Nodes(E, S)),
           NEW i, NEW u, IsSplit(n, m, i, u), Shaped(n) \/ Shaped(m)
    PROVE  Shaped(n) /\ Shaped(m)
<1> DEFINE full == n.kids[i]  left == m.kids[i]  right == m.kids[i + 1]
<1>1. /\ n.kids \in Seq(Nodes(E, S)) /\ m.kids \in Seq(Nodes(E, S))
      /\ Count(n) \in Nat /\ Count(m) \in Nat
  BY Nodes_
<1>2. Count(m) = Count(n) + 1 /\ Len(m.kids) = Len(n.kids) + 1
  BY DEF IsSplit, Count
<1>3. Len(m.kids) = Count(m) + 1 /\ Len(n.kids) = Count(n) + 1
  BY <1>1, <1>2 DEF Shaped
<1>4. /\ DOMAIN n.kids = 1 .. Len(n.kids) /\ DOMAIN m.kids = 1 .. Len(n.kids) + 1
      /\ i \in 1 .. Len(n.kids)
  BY SMTT(40), <1>1, <1>2 DEF IsSplit
<1>5. /\ \A j \in DOMAIN n.kids : j < i => m.kids[j] = n.kids[j]
      /\ \A j \in DOMAIN n.kids : j > i => m.kids[j + 1] = n.kids[j]
  BY DEF IsSplit
<1>6. full \in Nodes(E, S) /\ left \in Nodes(E, S) /\ right \in Nodes(E, S)
  <2>1. i \in DOMAIN n.kids /\ i \in DOMAIN m.kids /\ i + 1 \in DOMAIN m.kids
    BY <1>4
  <2> QED  BY <2>1, Nodes_
<1>7. /\ Count(full) \in Nat /\ u \in 1 .. Count(full)
      /\ Count(left) = u - 1 /\ Count(right) = Count(full) - u
  BY <1>6, Nodes_ DEF IsSplit, Count
<1>8. /\ (IsLeaf(full) <=> Len(full.kids) = 0) /\ (IsLeaf(left) <=> Len(left.kids) = 0)
      /\ (IsLeaf(right) <=> Len(right.kids) = 0)
      /\ Len(full.kids) \in Nat /\ Len(left.kids) \in Nat /\ Len(right.kids) \in Nat
  <2>1. \A c \in Nodes(E, S) : (IsLeaf(c) <=> Len(c.kids) = 0) /\ Len(c.kids) \in Nat
    BY Nodes_
  <2> QED  BY <1>6, <2>1
<1>9. IF IsLeaf(full) THEN IsLeaf(left) /\ IsLeaf(right)
      ELSE Len(left.kids) = u /\ Len(right.kids) = Len(full.kids) - u
  BY DEF IsSplit
<1>10. (IsLeaf(full) <=> IsLeaf(left))
  BY <1>7, <1>8, <1>9
<1>11. ASSUME Shaped(n) PROVE Shaped(m)
  <2>1. Fits(full)
    BY <1>4, <1>11 DEF Shaped
  <2>2. Fits(left) /\ Fits(right) /\ (IsLeaf(full) <=> IsLeaf(right))
    <3>1. CASE IsLeaf(full)
      BY <1>9, <3>1 DEF Fits
    <3>2. CASE ~IsLeaf(full)
      <4>1. Len(full.kids) = Count(full) + 1
        BY <2>1, <3>2 DEF Fits
      <4>2. Len(left.kids) = Count(left) + 1 /\ Len(right.kids) = Count(right) + 1
        BY <1>7, <1>9, <3>2, <4>1
      <4> QED  BY <1>7, <1>8, <3>2, <4>2 DEF Fits
    <3> QED  BY <3>1, <3>2
  <2>3. \A j \in DOMAIN m.kids : Fits(m.kids[j]) /\ (IsLeaf(m.kids[j]) <=> IsLeaf(full))
    <3> SUFFICES ASSUME NEW j \in 1 .. Len(n.kids) + 1
                 PROVE  Fits(m.kids[j]) /\ (IsLeaf(m.kids[j]) <=> IsLeaf(full))
      BY <1>4
    <3>1. \A k \in DOMAIN n.kids : Fits(n.kids[k]) /\ (IsLeaf(n.kids[k]) <=> IsLeaf(full))
      BY <1>4, <1>11 DEF Shaped
    <3>2. CASE j < i
      BY <1>4, <1>5, <3>1, <3>2
    <3>3. CASE j > i + 1
      <4>1. j - 1 \in DOMAIN n.kids /\ j - 1 > i /\ (j - 1) + 1 = j
        BY <1>4, <3>3
      <4> QED  BY <1>5, <3>1, <4>1
    <3>4. CASE j = i \/ j = i + 1
      BY <1>10, <2>2, <3>4
    <3> QED  BY <1>4, <3>2, <3>3, <3>4
  <2> QED  BY <1>3, <2>3 DEF Shaped
<1>12. ASSUME Shaped(m) PROVE Shaped(n)
  <2>1. Fits(left) /\ Fits(right) /\ (IsLeaf(left) <=> IsLeaf(right))
    BY <1>4, <1>12 DEF Shaped
  <2>2. Fits(full)
    <3>1. CASE IsLeaf(full)
      BY <3>1 DEF Fits
    <3>2. CASE ~IsLeaf(full)
      <4>1. Len(left.kids) = u /\ Len(right.kids) = Len(full.kids) - u
        BY <1>9, <3>2
      <4>2. ~IsLeaf(left) /\ ~IsLeaf(right)
        BY <1>10, <2>1, <3>2
      <4>3. Len(right.kids) = Count(right) + 1
        BY <2>1, <4>2 DEF Fits
      <4>4. Len(full.kids) = Count(full) + 1
        <5>1. /\ Count(right) = Count(full) - u /\ Count(full) \in Nat /\ u \in Nat
              /\ Len(full.kids) \in Nat
          BY <1>7, <1>8
        <5> HIDE DEF full, left, right
        <5> QED  BY <4>1, <4>3, <5>1
      <4> QED  BY <4>4 DEF Fits
    <3> QED  BY <3>1, <3>2
  <2>3. \A j \in DOMAIN n.kids : Fits(n.kids[j]) /\ (IsLeaf(n.kids[j]) <=> IsLeaf(full))
    <3> SUFFICES ASSUME NEW j \in 1 .. Len(n.kids)
                 PROVE  Fits(n.kids[j]) /\ (IsLeaf(n.kids[j]) <=> IsLeaf(full))
      BY <1>4
    <3>1. \A k \in DOMAIN m.kids : Fits(m.kids[k]) /\ (IsLeaf(m.kids[k]) <=> IsLeaf(left))
      BY <1>4, <1>12 DEF Shaped
    <3>2. j \in DOMAIN m.kids /\ j + 1 \in DOMAIN m.kids /\ j \in DOMAIN n.kids
      BY <1>4
    <3>3. CASE j < i
      BY <1>5, <1>10, <3>1, <3>2, <3>3
    <3>4. CASE j > i
      BY <1>5, <1>10, <3>1, <3>2, <3>4
    <3>5. CASE j = i
      BY <2>2, <3>5
    <3> QED  BY <1>4, <3>3, <3>4, <3>5
  <2> QED  BY <1>3, <2>3 DEF Shaped
<1> QED  BY <1>11, <1>12

-----------------------------------------------------------------------------
(* Splitting, merging and borrowing                                          *)

LEMMA SplitIs ==
    ASSUME Order, NEW E, NEW S, NEW n \in Nodes(E, Nodes(E, S)), Shaped(n),
           NEW i \in DOMAIN n.kids, Count(n.kids[i]) = MaxKeys
    PROVE  /\ SplitChild(n, i) \in Nodes(E, Nodes(E, S))
           /\ IsSplit(n, SplitChild(n, i), i, SplitIndex + 1)
<1> DEFINE full  == n.kids[i]
           up    == SplitIndex + 1
           left  == [ents |-> SubSeq(full.ents, 1, up - 1),
                     kids |-> IF IsLeaf(full) THEN <<>> ELSE SubSeq(full.kids, 1, up)]
           right == [ents |-> SubSeq(full.ents, up + 1, MaxKeys),
                     kids |-> IF IsLeaf(full) THEN <<>>
                              ELSE SubSeq(full.kids, up + 1, MaxChildren)]
           kids1 == [n.kids EXCEPT ![i] = left]
           m     == SplitChild(n, i)
<1>1. /\ n.ents \in Seq(E) /\ n.kids \in Seq(Nodes(E, S)) /\ full \in Nodes(E, S)
      /\ full.ents \in Seq(E) /\ full.kids \in Seq(S)
  <2>1. full \in Nodes(E, S)
    BY Nodes_
  <2> QED  BY <2>1, Nodes_
<1>2. /\ Len(full.ents) = MaxKeys /\ up \in 1 .. MaxKeys /\ MaxKeys \in Nat
      /\ MaxChildren = MaxKeys + 1
      /\ ~IsLeaf(full) => Len(full.kids) = MaxChildren
  BY Bounds DEF Count, Shaped, Fits
<1>3. /\ Len(n.kids) = Len(n.ents) + 1 /\ i \in 1 .. Len(n.ents) + 1
      /\ DOMAIN n.ents = 1 .. Len(n.ents) /\ DOMAIN n.kids = 1 .. Len(n.ents) + 1
  BY <1>1 DEF Shaped, Count
<1>4. /\ left.ents \in Seq(E) /\ Len(left.ents) = up - 1
      /\ \A j \in 1 .. up - 1 : left.ents[j] = full.ents[j]
  <2>1. up - 1 \in 0 .. Len(full.ents)
    BY <1>2
  <2> QED  BY <1>1, <2>1, CutFront
<1>5. /\ right.ents \in Seq(E) /\ Len(right.ents) = MaxKeys - up
      /\ \A j \in up + 1 .. MaxKeys : right.ents[j - up] = full.ents[j]
  <2> DEFINE r == SubSeq(full.ents, up + 1, MaxKeys)
  <2>1. up + 1 \in 1 .. Len(full.ents) + 1 /\ MaxKeys \in (up + 1) - 1 .. Len(full.ents)
    BY <1>2
  <2>2. /\ r \in Seq(E) /\ Len(r) = MaxKeys - (up + 1) + 1
        /\ \A j \in up + 1 .. MaxKeys : r[j - (up + 1) + 1] = full.ents[j]
    <3>1. PICK s, c, d : s \in Seq(E) /\ s = full.ents /\ c = up + 1 /\ d = MaxKeys
      BY <1>1
    <3>2. c \in 1 .. Len(s) + 1 /\ d \in c - 1 .. Len(s)
      BY <2>1, <3>1
    <3>3. s \in Seq(E)
      BY <3>1
    <3>4. /\ SubSeq(s, c, d) \in Seq(E) /\ Len(SubSeq(s, c, d)) = d - c + 1
          /\ \A j \in c .. d : SubSeq(s, c, d)[j - c + 1] = s[j]
      BY <3>2, <3>3, Cut
    <3> QED  BY <3>1, <3>4
  <2>3. \A j \in up + 1 .. MaxKeys : j - (up + 1) + 1 = j - up
    BY <1>2
  <2> QED  BY SMTT(40), <1>2, <2>2, <2>3
<1>6. left.kids \in Seq(S) /\ right.kids \in Seq(S)
      /\ IF IsLeaf(full) THEN IsLeaf(left) /\ IsLeaf(right)
         ELSE /\ Len(left.kids) = up /\ Len(right.kids) = Len(full.kids) - up
              /\ \A j \in 1 .. up : left.kids[j] = full.kids[j]
              /\ \A j \in up + 1 .. Len(full.kids) : right.kids[j - up] = full.kids[j]
  <2>1. CASE IsLeaf(full)
    <3>1. left.kids = <<>> /\ right.kids = <<>>
      BY <2>1
    <3> QED  BY <2>1, <3>1 DEF IsLeaf
  <2>2. CASE ~IsLeaf(full)
    <3> DEFINE a == SubSeq(full.kids, 1, up)  b == SubSeq(full.kids, up + 1, MaxChildren)
    <3>1. left.kids = a /\ right.kids = b
      BY <2>2
    <3>2. up \in 0 .. Len(full.kids)
      BY <1>2, <2>2
    <3>3. a \in Seq(S) /\ Len(a) = up /\ \A j \in 1 .. up : a[j] = full.kids[j]
      BY <1>1, <3>2, CutFront
    <3>4. /\ up + 1 \in 1 .. Len(full.kids) + 1
          /\ MaxChildren \in (up + 1) - 1 .. Len(full.kids)
      BY <1>2, <2>2
    <3>5. /\ b \in Seq(S) /\ Len(b) = MaxChildren - (up + 1) + 1
          /\ \A j \in up + 1 .. MaxChildren : b[j - (up + 1) + 1] = full.kids[j]
      BY SMTT(40), <1>1, <3>4, Cut
    <3>6. \A j \in up + 1 .. MaxChildren : j - (up + 1) + 1 = j - up
      BY <1>2
    <3>7. /\ Len(b) = Len(full.kids) - up
          /\ \A j \in up + 1 .. Len(full.kids) : b[j - up] = full.kids[j]
      <4>1. /\ MaxChildren = Len(full.kids)
            /\ MaxChildren - (up + 1) + 1 = MaxChildren - up
        BY <1>2, <2>2
      <4>2. \A j \in up + 1 .. MaxChildren : b[j - up] = full.kids[j]
        BY <3>5, <3>6
      <4> QED  BY <3>5, <4>1, <4>2
    <3> HIDE DEF a, b
    <3> QED  BY <2>2, <3>1, <3>3, <3>5, <3>7
  <2> QED  BY <2>1, <2>2
<1>7. left \in Nodes(E, S) /\ right \in Nodes(E, S)
  BY <1>4, <1>5, <1>6 DEF Nodes
<1>8. m = [ents |-> InsertAt(n.ents, i, full.ents[up]), kids |-> InsertAt(kids1, i + 1, right)]
  BY DEF SplitChild
<1> HIDE DEF left, right, m
<1>9. /\ kids1 \in Seq(Nodes(E, S)) /\ Len(kids1) = Len(n.kids) /\ kids1[i] = left
      /\ \A j \in DOMAIN n.kids : j # i => kids1[j] = n.kids[j]
  BY <1>1, <1>7
<1> HIDE DEF kids1
<1>10. /\ m.ents \in Seq(E) /\ Len(m.ents) = Len(n.ents) + 1
       /\ \A j \in 1 .. i - 1 : m.ents[j] = n.ents[j]
       /\ m.ents[i] = full.ents[up]
       /\ \A j \in i .. Len(n.ents) : m.ents[j + 1] = n.ents[j]
  <2>1. i \in 1 .. Len(n.ents) + 1 /\ full.ents[up] \in E
    BY <1>1, <1>2, <1>3
  <2> DEFINE x == InsertAt(n.ents, i, full.ents[up])
  <2>2. m.ents = x
    BY <1>8
  <2> HIDE DEF full, up
  <2>3. /\ x \in Seq(E) /\ Len(x) = Len(n.ents) + 1
        /\ \A j \in 1 .. i - 1 : x[j] = n.ents[j]
        /\ x[i] = full.ents[up]
        /\ \A j \in i .. Len(n.ents) : x[j + 1] = n.ents[j]
    <3>1. x \in Seq(E) /\ Len(x) = Len(n.ents) + 1 /\ x[i] = full.ents[up]
      BY <1>1, <2>1, Inserted
    <3>2. \A j \in 1 .. i - 1 : x[j] = n.ents[j]
      BY SMTT(40), <1>1, <2>1, Inserted
    <3>3. \A j \in i .. Len(n.ents) : x[j + 1] = n.ents[j]
      <4>1. n.ents \in Seq(E)
        BY <1>1
      <4>2. \A s \in Seq(E) : \A k \in 1 .. Len(s) + 1 : \A e \in E : \A j \in k .. Len(s) :
                InsertAt(s, k, e)[j + 1] = s[j]
        BY Inserted
      <4> QED  BY <2>1, <4>1, <4>2
    <3> QED  BY <3>1, <3>2, <3>3
  <2> HIDE DEF x
  <2> QED  BY <2>2, <2>3
<1>11. /\ m.kids \in Seq(Nodes(E, S)) /\ Len(m.kids) = Len(n.kids) + 1
       /\ \A j \in 1 .. i : m.kids[j] = kids1[j]
       /\ m.kids[i + 1] = right
       /\ \A j \in i + 1 .. Len(n.kids) : m.kids[j + 1] = kids1[j]
  <2>1. i + 1 \in 1 .. Len(kids1) + 1 /\ (i + 1) - 1 = i
    BY <1>3, <1>9
  <2> DEFINE x == InsertAt(kids1, i + 1, right)
  <2>2. m.kids = x
    BY <1>8
  <2>3. /\ x \in Seq(Nodes(E, S)) /\ Len(x) = Len(kids1) + 1
        /\ \A j \in 1 .. (i + 1) - 1 : x[j] = kids1[j]
        /\ x[i + 1] = right
        /\ \A j \in i + 1 .. Len(kids1) : x[j + 1] = kids1[j]
    <3>1. /\ x \in Seq(Nodes(E, S)) /\ Len(x) = Len(kids1) + 1
          /\ x[i + 1] = right
      BY SMTT(40), <1>7, <1>9, <2>1, Inserted
    <3>2. \A j \in 1 .. (i + 1) - 1 : x[j] = kids1[j]
      BY <1>7, <1>9, <2>1, Inserted
    <3>3. \A j \in i + 1 .. Len(kids1) : x[j + 1] = kids1[j]
      <4>1. kids1 \in Seq(Nodes(E, S)) /\ right \in Nodes(E, S)
        BY <1>7, <1>9
      <4>2. \A s \in Seq(Nodes(E, S)) : \A k \in 1 .. Len(s) + 1 : \A e \in Nodes(E, S) : \A j \in k .. Len(s) :
                InsertAt(s, k, e)[j + 1] = s[j]
        BY Inserted
      <4> QED  BY <2>1, <4>1, <4>2
    <3> QED  BY <3>1, <3>2, <3>3
  <2> HIDE DEF x
  <2> QED  BY <1>9, <2>1, <2>2, <2>3
<1>12. m \in Nodes(E, Nodes(E, S))
  BY <1>8, <1>10, <1>11 DEF Nodes
<1>13. m.kids[i] = left /\ m.kids[i + 1] = right
  BY <1>3, <1>9, <1>11
<1>14. /\ \A j \in DOMAIN n.ents : j < i => m.ents[j] = n.ents[j]
       /\ \A j \in DOMAIN n.ents : j >= i => m.ents[j + 1] = n.ents[j]
  BY <1>3, <1>10
<1>15. /\ \A j \in DOMAIN n.kids : j < i => m.kids[j] = n.kids[j]
       /\ \A j \in DOMAIN n.kids : j > i => m.kids[j + 1] = n.kids[j]
  <2>1. ASSUME NEW j \in DOMAIN n.kids, j < i PROVE m.kids[j] = n.kids[j]
    <3>1. j \in 1 .. i /\ j # i
      BY <1>3, <2>1
    <3> QED  BY <1>9, <1>11, <3>1
  <2>2. ASSUME NEW j \in DOMAIN n.kids, j > i PROVE m.kids[j + 1] = n.kids[j]
    <3>1. j \in i + 1 .. Len(n.kids) /\ j # i
      BY <1>3, <2>2
    <3> QED  BY <1>9, <1>11, <3>1
  <2> QED  BY <2>1, <2>2
<1>16. up \in DOMAIN full.ents
  BY <1>1, <1>2
<1>17. IsSplit(n, m, i, up)
  BY <1>2, <1>4, <1>5, <1>6, <1>10, <1>11, <1>13, <1>14, <1>15, <1>16 DEF IsSplit
<1> QED  BY <1>12, <1>17 DEF m

LEMMA MergeIs ==
    ASSUME NEW E, NEW S, NEW n \in Nodes(E, Nodes(E, S)), Shaped(n), NEW i \in 1 .. Count(n)
    PROVE  /\ Merge(n, i) \in Nodes(E, Nodes(E, S))
           /\ IsSplit(Merge(n, i), n, i, Count(n.kids[i]) + 1)
           /\ Count(Merge(n, i).kids[i]) = Count(n.kids[i]) + 1 + Count(n.kids[i + 1])
<1> DEFINE left  == n.kids[i]
           right == n.kids[i + 1]
           ents1 == left.ents \o <<n.ents[i]>>
           full  == [ents |-> left.ents \o <<n.ents[i]>> \o right.ents,
                     kids |-> left.kids \o right.kids]
           kids1 == [n.kids EXCEPT ![i] = full]
           x     == Merge(n, i)
           u     == Count(left) + 1
<1>1. n.ents \in Seq(E) /\ n.kids \in Seq(Nodes(E, S)) /\ Count(n) \in Nat
  BY Nodes_
<1>2. /\ Len(n.kids) = Len(n.ents) + 1 /\ i \in 1 .. Len(n.ents) /\ Count(n) = Len(n.ents)
      /\ DOMAIN n.ents = 1 .. Len(n.ents) /\ DOMAIN n.kids = 1 .. Len(n.ents) + 1
  BY <1>1 DEF Shaped, Count
<1>3. /\ left \in Nodes(E, S) /\ right \in Nodes(E, S) /\ n.ents[i] \in E
      /\ IsLeaf(left) <=> IsLeaf(right)
      /\ Fits(left)
  <2>1. i \in DOMAIN n.kids /\ i + 1 \in DOMAIN n.kids
    BY <1>2
  <2>2. left \in Nodes(E, S) /\ right \in Nodes(E, S)
    BY <2>1, Nodes_
  <2>3. n.ents[i] \in E
    BY <1>1, <1>2
  <2> QED  BY <2>1, <2>2, <2>3 DEF Shaped
<1>4. /\ left.ents \in Seq(E) /\ right.ents \in Seq(E) /\ left.kids \in Seq(S)
      /\ right.kids \in Seq(S) /\ Len(left.ents) = Count(left) /\ Len(right.ents) = Count(right)
      /\ Count(left) \in Nat /\ Count(right) \in Nat /\ u \in Nat
      /\ IsLeaf(left) <=> Len(left.kids) = 0
      /\ IsLeaf(right) <=> Len(right.kids) = 0
  <2>1. Len(left.ents) = Count(left) /\ Len(right.ents) = Count(right)
    BY DEF Count
  <2>2. /\ left.ents \in Seq(E) /\ left.kids \in Seq(S) /\ Count(left) \in Nat
        /\ IsLeaf(left) <=> Len(left.kids) = 0
    BY <1>3, Nodes_
  <2>3. /\ right.ents \in Seq(E) /\ right.kids \in Seq(S) /\ Count(right) \in Nat
        /\ IsLeaf(right) <=> Len(right.kids) = 0
    BY <1>3, Nodes_
  <2> QED  BY <2>1, <2>2, <2>3
<1>5. ents1 \in Seq(E) /\ Len(ents1) = u /\ ents1[u] = n.ents[i]
      /\ \A j \in 1 .. u - 1 : ents1[j] = left.ents[j]
  <2> HIDE DEF left, right
  <2>1. left.ents \in Seq(E) /\ n.ents[i] \in E /\ Len(left.ents) = Count(left)
    BY <1>3, <1>4
  <2>2. ents1 = Append(left.ents, n.ents[i])
    BY <2>1
  <2>3. ents1 \in Seq(E) /\ Len(ents1) = u /\ ents1[u] = n.ents[i]
    BY SMTT(40), <2>1, <2>2
  <2>4. \A j \in 1 .. Len(left.ents) : Append(left.ents, n.ents[i])[j] = left.ents[j]
    BY <2>1
  <2>5. u - 1 = Len(left.ents)
    BY <1>4
  <2> QED  BY <2>2, <2>3, <2>4, <2>5
<1>6. full.ents = ents1 \o right.ents
  <2> HIDE DEF left, right
  <2> QED  BY <1>3, <1>4
<1> HIDE DEF ents1
<1>7. /\ full.ents \in Seq(E) /\ Len(full.ents) = u + Count(right)
      /\ \A j \in 1 .. u : full.ents[j] = ents1[j]
      /\ \A j \in 1 .. Count(right) : full.ents[u + j] = right.ents[j]
  <2> DEFINE e == full.ents
  <2>1. e = ents1 \o right.ents /\ ents1 \in Seq(E) /\ right.ents \in Seq(E)
    BY <1>4, <1>5, <1>6
  <2> HIDE DEF e
  <2>2. e \in Seq(E) /\ Len(e) = Len(ents1) + Len(right.ents)
    BY <2>1
  <2>3. \A j \in 1 .. Len(ents1) : e[j] = ents1[j]
    BY <2>1
  <2>4. \A j \in 1 .. Len(right.ents) : e[Len(ents1) + j] = right.ents[j]
    BY <2>1
  <2>5. /\ e \in Seq(E) /\ Len(e) = u + Count(right)
        /\ \A j \in 1 .. u : e[j] = ents1[j]
        /\ \A j \in 1 .. Count(right) : e[u + j] = right.ents[j]
    BY <1>4, <1>5, <2>2, <2>3, <2>4
  <2> QED  BY <2>5 DEF e
<1>8. /\ full.kids \in Seq(S) /\ Len(full.kids) = Len(left.kids) + Len(right.kids)
      /\ \A j \in 1 .. Len(left.kids) : full.kids[j] = left.kids[j]
      /\ \A j \in 1 .. Len(right.kids) : full.kids[Len(left.kids) + j] = right.kids[j]
  <2> DEFINE e == left.kids \o right.kids
  <2>1. /\ full.kids = e /\ e = left.kids \o right.kids
        /\ left.kids \in Seq(S) /\ right.kids \in Seq(S)
    BY <1>4
  <2> HIDE DEF left, right, e, full
  <2>2. e \in Seq(S) /\ Len(e) = Len(left.kids) + Len(right.kids)
    BY <2>1
  <2>a. \A s, t \in Seq(S) : \A j \in 1 .. Len(s) : (s \o t)[j] = s[j]
    OBVIOUS
  <2>b. \A s, t \in Seq(S) : \A j \in 1 .. Len(t) : (s \o t)[Len(s) + j] = t[j]
    OBVIOUS
  <2>3. \A j \in 1 .. Len(left.kids) : e[j] = left.kids[j]
    BY <2>1, <2>a
  <2>4. \A j \in 1 .. Len(right.kids) : e[Len(left.kids) + j] = right.kids[j]
    BY ZenonT(40), <2>1, <2>b
  <2> QED  BY <2>1, <2>2, <2>3, <2>4
<1>9. full \in Nodes(E, S)
  BY <1>7, <1>8 DEF Nodes
<1>10. x = [ents |-> RemoveAt(n.ents, i), kids |-> RemoveAt(kids1, i + 1)]
  BY DEF Merge
<1> HIDE DEF full, x
<1>11. /\ kids1 \in Seq(Nodes(E, S)) /\ Len(kids1) = Len(n.kids) /\ kids1[i] = full
       /\ \A j \in DOMAIN n.kids : j # i => kids1[j] = n.kids[j]
  BY <1>1, <1>2, <1>9
<1> HIDE DEF kids1
<1>12. /\ x.ents \in Seq(E) /\ Len(x.ents) = Len(n.ents) - 1
       /\ \A j \in 1 .. i - 1 : x.ents[j] = n.ents[j]
       /\ \A j \in i + 1 .. Len(n.ents) : x.ents[j - 1] = n.ents[j]
  <2> DEFINE e == RemoveAt(n.ents, i)
  <2>1. i \in 1 .. Len(n.ents) /\ x.ents = e
    BY <1>2, <1>10
  <2>2. e \in Seq(E) /\ Len(e) = Len(n.ents) - 1
    BY <1>1, <2>1, Removed
  <2>3. \A j \in 1 .. i - 1 : e[j] = n.ents[j]
    BY <1>1, <2>1, Removed
  <2>4. \A j \in i + 1 .. Len(n.ents) : e[j - 1] = n.ents[j]
    BY <1>1, <2>1, Removed
  <2> HIDE DEF e
  <2> QED  BY <2>1, <2>2, <2>3, <2>4
<1>13. /\ x.kids \in Seq(Nodes(E, S)) /\ Len(x.kids) = Len(n.kids) - 1
       /\ \A j \in 1 .. i : x.kids[j] = kids1[j]
       /\ \A j \in i + 2 .. Len(n.kids) : x.kids[j - 1] = kids1[j]
  <2> DEFINE e == RemoveAt(kids1, i + 1)
  <2>1. i + 1 \in 1 .. Len(kids1) /\ x.kids = e /\ (i + 1) - 1 = i /\ (i + 1) + 1 = i + 2
    BY <1>2, <1>10, <1>11
  <2>2. e \in Seq(Nodes(E, S)) /\ Len(e) = Len(kids1) - 1
    BY <1>11, <2>1, Removed
  <2>3. \A j \in 1 .. (i + 1) - 1 : e[j] = kids1[j]
    BY <1>11, <2>1, Removed
  <2>4. \A j \in (i + 1) + 1 .. Len(kids1) : e[j - 1] = kids1[j]
    BY <1>11, <2>1, Removed
  <2> HIDE DEF e
  <2> QED  BY <1>11, <2>1, <2>2, <2>3, <2>4
<1>14. x \in Nodes(E, Nodes(E, S))
  BY <1>10, <1>12, <1>13 DEF Nodes
<1>15. /\ x.kids[i] = full /\ DOMAIN x.ents = 1 .. Len(n.ents) - 1
       /\ DOMAIN x.kids = 1 .. Len(n.ents) /\ i \in DOMAIN x.kids
  BY <1>2, <1>11, <1>12, <1>13
<1>16. ASSUME NEW j \in DOMAIN x.ents
       PROVE  (j < i => n.ents[j] = x.ents[j]) /\ (j >= i => n.ents[j + 1] = x.ents[j])
  <2>1. j \in 1 .. Len(n.ents) - 1 /\ (j + 1) - 1 = j
    BY <1>2, <1>15
  <2>2. j < i => j \in 1 .. i - 1
    BY <1>2, <2>1
  <2>3. j >= i => j + 1 \in i + 1 .. Len(n.ents)
    BY <1>2, <2>1
  <2>4. j >= i => x.ents[(j + 1) - 1] = n.ents[j + 1]
    BY <1>12, <2>3
  <2> QED  BY <1>12, <2>1, <2>2, <2>4
<1>17. ASSUME NEW j \in DOMAIN x.kids
       PROVE  (j < i => n.kids[j] = x.kids[j]) /\ (j > i => n.kids[j + 1] = x.kids[j])
  <2>1. j \in 1 .. Len(n.ents) /\ (j + 1) - 1 = j /\ j \in DOMAIN n.kids /\ j + 1 \in DOMAIN n.kids
    BY <1>2, <1>15
  <2>2. j < i => j \in 1 .. i /\ j # i
    BY <1>2, <2>1
  <2>3. j > i => j + 1 \in i + 2 .. Len(n.kids) /\ j + 1 # i
    BY <1>2, <2>1
  <2>4. j > i => x.kids[(j + 1) - 1] = kids1[j + 1]
    BY <1>13, <2>3
  <2> QED  BY <1>11, <1>13, <2>1, <2>2, <2>3, <2>4
<1>18. /\ u \in DOMAIN full.ents /\ full.ents[u] = n.ents[i]
       /\ Len(left.ents) = u - 1 /\ Len(right.ents) = Len(full.ents) - u
       /\ \A j \in 1 .. u - 1 : left.ents[j] = full.ents[j]
  <2>1. DOMAIN full.ents = 1 .. u + Count(right) /\ 1 <= u
    BY <1>4, <1>7
  <2> HIDE DEF left, right
  <2>2. u \in DOMAIN full.ents /\ u \in 1 .. u
    BY <1>4, <2>1
  <2>3. full.ents[u] = n.ents[i]
    BY <1>5, <1>7, <2>2
  <2>4. Len(left.ents) = u - 1 /\ Len(right.ents) = Len(full.ents) - u
    BY <1>4, <1>7
  <2>5. \A j \in 1 .. u - 1 : j \in 1 .. u
    BY <1>4
  <2>6. \A j \in 1 .. u - 1 : left.ents[j] = full.ents[j]
    BY <1>5, <1>7, <2>5
  <2> QED  BY <2>2, <2>3, <2>4, <2>6
<1>19. ASSUME NEW j \in u + 1 .. Len(full.ents) PROVE right.ents[j - u] = full.ents[j]
  <2> HIDE DEF left, right, u
  <2>1. j - u \in 1 .. Count(right) /\ u + (j - u) = j
    BY <1>4, <1>7
  <2> QED  BY <1>7, <2>1
<1>20. IF IsLeaf(full) THEN IsLeaf(left) /\ IsLeaf(right)
       ELSE /\ Len(left.kids) = u /\ Len(right.kids) = Len(full.kids) - u
            /\ \A j \in 1 .. u : left.kids[j] = full.kids[j]
            /\ \A j \in u + 1 .. Len(full.kids) : right.kids[j - u] = full.kids[j]
  <2>1. IsLeaf(full) <=> Len(full.kids) = 0
    BY <1>9, Nodes_
  <2> USE DEF Fits
  <2> DEFINE l == Len(left.kids)  r == Len(right.kids)
  <2>2. l \in Nat /\ r \in Nat /\ Len(full.kids) = l + r
    BY SMTT(40), <1>4, <1>8
  <2>3. CASE IsLeaf(left)
    <3>1. l = 0 /\ r = 0
      BY <1>3, <1>4, <2>3
    <3> QED  BY <1>3, <2>1, <2>2, <2>3, <3>1
  <2>4. CASE ~IsLeaf(left)
    <3>1. l = u /\ ~IsLeaf(full) /\ r = Len(full.kids) - u
      <4>1. l = u
        BY <1>3, <2>4
      <4>2. Count(left) \in Nat
        BY <1>4
      <4>3. u >= 1
        BY <4>2
      <4> HIDE DEF l, r, u, left, right
      <4> QED  BY <2>1, <2>2, <4>1, <4>3
    <3>2. \A j \in 1 .. u : left.kids[j] = full.kids[j]
      BY <1>8, <3>1
    <3>3. ASSUME NEW j \in u + 1 .. Len(full.kids) PROVE right.kids[j - u] = full.kids[j]
      <4>1. j - u \in 1 .. r /\ u + (j - u) = j
        <5> HIDE DEF l, r, u
        <5> QED  BY SMTT(40), <1>4, <2>2, <3>1
      <4>2. \A k \in 1 .. r : full.kids[u + k] = right.kids[k]
        BY <1>8, <3>1
      <4> HIDE DEF l, r, u
      <4> QED  BY <4>1, <4>2
    <3> QED  BY <3>1, <3>2, <3>3
  <2> QED  BY <2>3, <2>4
<1>21. Len(n.ents) = Len(x.ents) + 1 /\ Len(n.kids) = Len(x.kids) + 1
  BY <1>2, <1>12, <1>13
<1>22. IsSplit(x, n, i, u)
  BY <1>15, <1>16, <1>17, <1>18, <1>19, <1>20, <1>21 DEF IsSplit
<1>23. Count(x.kids[i]) = Count(left) + 1 + Count(right)
  BY <1>7, <1>15 DEF Count
<1> QED  BY <1>14, <1>22, <1>23 DEF x

LEMMA BorrowLeftIs ==
    ASSUME NEW E, NEW S, NEW n \in Nodes(E, Nodes(E, S)), Shaped(n),
           NEW i \in 2 .. Count(n) + 1, Count(n.kids[i - 1]) >= 1
    PROVE  /\ BorrowLeft(n, i) \in Nodes(E, Nodes(E, S))
           /\ IsSplit(Merge(n, i - 1), BorrowLeft(n, i), i - 1, Count(n.kids[i - 1]))
           /\ Count(BorrowLeft(n, i)) = Count(n)
           /\ Len(BorrowLeft(n, i).kids) = Len(n.kids)
           /\ Count(BorrowLeft(n, i).kids[i - 1]) = Count(n.kids[i - 1]) - 1
           /\ Count(BorrowLeft(n, i).kids[i]) = Count(n.kids[i]) + 1
           /\ \A j \in DOMAIN n.kids : j # i /\ j # i - 1 =>
                 BorrowLeft(n, i).kids[j] = n.kids[j]
<1> DEFINE k      == i - 1
           left   == n.kids[i - 1]
           child  == n.kids[i]
           newL   == [ents |-> Front(left.ents),
                      kids |-> IF IsLeaf(left) THEN <<>> ELSE Front(left.kids)]
           newC   == [ents |-> <<n.ents[i - 1]>> \o child.ents,
                      kids |-> IF IsLeaf(child) THEN <<>>
                               ELSE <<Last(left.kids)>> \o child.kids]
           b      == BorrowLeft(n, i)
           x      == Merge(n, k)
           full   == x.kids[k]
           w      == Count(left)
<1>1. /\ n.ents \in Seq(E) /\ n.kids \in Seq(Nodes(E, S)) /\ Count(n) \in Nat
      /\ Count(n) = Len(n.ents) /\ Len(n.kids) = Count(n) + 1
      /\ DOMAIN n.ents = 1 .. Count(n) /\ DOMAIN n.kids = 1 .. Count(n) + 1
  <2>1. n.ents \in Seq(E) /\ n.kids \in Seq(Nodes(E, S)) /\ Count(n) \in Nat
    BY Nodes_
  <2> QED  BY <2>1 DEF Shaped, Count
<1>2. k \in 1 .. Count(n) /\ i = k + 1 /\ i \in DOMAIN n.kids /\ k \in DOMAIN n.kids
  BY <1>1
<1>3. /\ left \in Nodes(E, S) /\ child \in Nodes(E, S) /\ n.ents[k] \in E
      /\ (IsLeaf(left) <=> IsLeaf(child)) /\ Fits(left) /\ Fits(child)
  <2>1. left \in Nodes(E, S) /\ child \in Nodes(E, S)
    BY <1>2, Nodes_
  <2>2. n.ents[k] \in E
    BY <1>1, <1>2
  <2> QED  BY <1>2, <2>1, <2>2 DEF Shaped
<1>4. /\ left.ents \in Seq(E) /\ left.kids \in Seq(S) /\ w \in Nat /\ Len(left.ents) = w
      /\ child.ents \in Seq(E) /\ child.kids \in Seq(S)
      /\ Len(child.ents) = Count(child) /\ Count(child) \in Nat
      /\ w >= 1
      /\ ~IsLeaf(left) => Len(left.kids) = w + 1 /\ Len(child.kids) = Count(child) + 1
  <2>1. Len(left.ents) = w /\ Len(child.ents) = Count(child)
    BY DEF Count
  <2> QED  BY <1>3, <2>1, Nodes_ DEF Fits
<1>5. /\ newL.ents \in Seq(E) /\ Len(newL.ents) = w - 1
      /\ \A j \in 1 .. w - 1 : newL.ents[j] = left.ents[j]
  <2> DEFINE e == Front(left.ents)
  <2>1. e \in Seq(E) /\ Len(e) = Len(left.ents) - 1
    BY SMTT(40), <1>4, Ends
  <2>a. \A s \in Seq(E) : Len(s) > 0 => \A j \in 1 .. Len(s) - 1 : Front(s)[j] = s[j]
    BY Ends
  <2>2. \A j \in 1 .. Len(left.ents) - 1 : e[j] = left.ents[j]
    <3> HIDE DEF left, w
    <3> QED  BY SMTT(40), <1>4, <2>a
  <2>3. newL.ents = e
    OBVIOUS
  <2> HIDE DEF e, newL, left, w
  <2> QED  BY <1>4, <2>1, <2>2, <2>3
<1>6. /\ newC.ents \in Seq(E) /\ Len(newC.ents) = Count(child) + 1
      /\ newC.ents[1] = n.ents[k]
      /\ \A j \in 1 .. Count(child) : newC.ents[j + 1] = child.ents[j]
  <2> DEFINE e == <<n.ents[k]>> \o child.ents
  <2>1. newC.ents = e
    OBVIOUS
  <2> HIDE DEF newC, child, left, w
  <2>2. e \in Seq(E) /\ Len(e) = Len(child.ents) + 1 /\ e[1] = n.ents[k]
    BY <1>3, <1>4, Prefixed
  <2>3. \A s \in Seq(E) : \A f \in E : \A j \in 1 .. Len(s) : (<<f>> \o s)[j + 1] = s[j]
    OBVIOUS
  <2>4. \A j \in 1 .. Len(child.ents) : e[j + 1] = child.ents[j]
    BY <1>3, <1>4, <2>3
  <2> HIDE DEF e
  <2> QED  BY <1>4, <2>1, <2>2, <2>4
<1>7. newL.kids \in Seq(S) /\ newC.kids \in Seq(S)
      /\ IF IsLeaf(left) THEN IsLeaf(newL) /\ IsLeaf(newC)
         ELSE /\ Len(newL.kids) = w /\ Len(newC.kids) = Count(child) + 2
              /\ \A j \in 1 .. w : newL.kids[j] = left.kids[j]
              /\ newC.kids[1] = left.kids[w + 1]
              /\ \A j \in 1 .. Count(child) + 1 : newC.kids[j + 1] = child.kids[j]
  <2>1. CASE IsLeaf(left)
    <3>1. newL.kids = <<>> /\ newC.kids = <<>>
      BY <1>3, <2>1
    <3> QED  BY <2>1, <3>1 DEF IsLeaf
  <2>2. CASE ~IsLeaf(left)
    <3> DEFINE e == Front(left.kids)  f == <<Last(left.kids)>> \o child.kids
    <3>1. newL.kids = e /\ newC.kids = f /\ Len(left.kids) = w + 1 /\ Len(child.kids) = Count(child) + 1
      BY <1>3, <1>4, <2>2
    <3> HIDE DEF newL, newC, child, left, w
    <3>2. Len(left.kids) > 0 /\ left.kids \in Seq(S) /\ child.kids \in Seq(S) /\ Len(left.kids) \in Nat
      BY <1>4, <3>1
    <3>3. e \in Seq(S) /\ Len(e) = Len(left.kids) - 1
      BY <3>2, Ends
    <3>4. \A j \in 1 .. Len(left.kids) - 1 : e[j] = left.kids[j]
      BY <3>2, Ends
    <3>5. Last(left.kids) = left.kids[w + 1] /\ Last(left.kids) \in S
      BY <3>1, <3>2, Ends
    <3>6. f \in Seq(S) /\ Len(f) = Len(child.kids) + 1 /\ f[1] = Last(left.kids)
      BY <3>2, <3>5, Prefixed
    <3>7. \A s \in Seq(S) : \A g \in S : \A j \in 1 .. Len(s) : (<<g>> \o s)[j + 1] = s[j]
      OBVIOUS
    <3>8. \A j \in 1 .. Len(child.kids) : f[j + 1] = child.kids[j]
      BY <3>2, <3>5, <3>7
    <3> HIDE DEF e, f
    <3> QED  BY <1>4, <2>2, <3>1, <3>3, <3>4, <3>5, <3>6, <3>8
  <2> QED  BY <2>1, <2>2
<1>8. newL \in Nodes(E, S) /\ newC \in Nodes(E, S)
  BY <1>5, <1>6, <1>7 DEF Nodes
<1>9. b = [ents |-> [n.ents EXCEPT ![k] = Last(left.ents)],
           kids |-> [n.kids EXCEPT ![k] = newL, ![i] = newC]]
  BY DEF BorrowLeft
<1> HIDE DEF newL, newC, b
<1>10. /\ b.ents \in Seq(E) /\ Len(b.ents) = Len(n.ents) /\ b.ents[k] = left.ents[w]
       /\ \A j \in DOMAIN n.ents : j # k => b.ents[j] = n.ents[j]
  <2>1. Last(left.ents) = left.ents[w] /\ Last(left.ents) \in E
    BY <1>4, Ends
  <2> HIDE DEF left, w
  <2> QED  BY <1>1, <1>2, <1>9, <2>1
<1>11. /\ b.kids \in Seq(Nodes(E, S)) /\ Len(b.kids) = Len(n.kids)
       /\ b.kids[k] = newL /\ b.kids[i] = newC
       /\ \A j \in DOMAIN n.kids : j # i /\ j # k => b.kids[j] = n.kids[j]
  BY <1>1, <1>2, <1>8, <1>9
<1>12. b \in Nodes(E, Nodes(E, S))
  BY <1>9, <1>10, <1>11 DEF Nodes
<1>13. IsSplit(x, n, k, w + 1)
  BY <1>2, MergeIs
<1> HIDE DEF left, child, x, w, k
<1>14. /\ k \in DOMAIN x.kids /\ w + 1 \in DOMAIN full.ents
       /\ Len(n.ents) = Len(x.ents) + 1 /\ Len(n.kids) = Len(x.kids) + 1
       /\ \A j \in DOMAIN x.ents : j < k => n.ents[j] = x.ents[j]
       /\ n.ents[k] = full.ents[w + 1]
       /\ \A j \in DOMAIN x.ents : j >= k => n.ents[j + 1] = x.ents[j]
       /\ \A j \in DOMAIN x.kids : j < k => n.kids[j] = x.kids[j]
       /\ \A j \in DOMAIN x.kids : j > k => n.kids[j + 1] = x.kids[j]
       /\ Count(child) = Len(full.ents) - (w + 1)
       /\ \A j \in 1 .. (w + 1) - 1 : left.ents[j] = full.ents[j]
       /\ \A j \in (w + 1) + 1 .. Len(full.ents) : child.ents[j - (w + 1)] = full.ents[j]
       /\ IF IsLeaf(full) THEN IsLeaf(left) /\ IsLeaf(child)
          ELSE /\ Len(left.kids) = w + 1 /\ Len(child.kids) = Len(full.kids) - (w + 1)
               /\ \A j \in 1 .. w + 1 : left.kids[j] = full.kids[j]
               /\ \A j \in (w + 1) + 1 .. Len(full.kids) :
                     child.kids[j - (w + 1)] = full.kids[j]
  <2>1. left = n.kids[k] /\ child = n.kids[k + 1]
    BY <1>2 DEF left, child, k
  <2> QED  BY <1>4, <1>13, <2>1 DEF IsSplit
<1>15. /\ x.ents \in Seq(E) /\ x.kids \in Seq(Nodes(E, S)) /\ full \in Nodes(E, S)
       /\ DOMAIN x.ents = 1 .. Count(n) - 1 /\ DOMAIN x.kids = 1 .. Count(n)
  <2>1. x \in Nodes(E, Nodes(E, S))
    BY <1>2, MergeIs DEF x
  <2>2. x.ents \in Seq(E) /\ x.kids \in Seq(Nodes(E, S)) /\ full \in Nodes(E, S)
    BY <1>14, <2>1, Nodes_
  <2>3. Len(x.ents) = Count(n) - 1 /\ Len(x.kids) = Count(n)
    BY SMTT(40), <1>1, <1>14, <2>2
  <2> QED  BY <2>2, <2>3
<1>16. /\ w \in DOMAIN full.ents /\ Len(full.ents) \in Nat /\ Len(full.ents) = Count(child) + w + 1
       /\ full.ents \in Seq(E) /\ full.kids \in Seq(S)
  <2>1. full.ents \in Seq(E) /\ full.kids \in Seq(S)
    BY <1>15, Nodes_
  <2>2. Len(full.ents) \in Nat /\ DOMAIN full.ents = 1 .. Len(full.ents)
    BY <2>1
  <2> HIDE DEF full
  <2>3. w + 1 \in 1 .. Len(full.ents) /\ Count(child) = Len(full.ents) - (w + 1)
    BY <1>14, <2>2
  <2>4. w \in Nat /\ w >= 1 /\ Count(child) \in Nat
    BY <1>4
  <2>5. w \in 1 .. Len(full.ents) /\ Len(full.ents) = Count(child) + w + 1
    BY <2>2, <2>3, <2>4
  <2> QED  BY <2>1, <2>2, <2>5
<1> HIDE DEF full
<1>17. ASSUME NEW j \in DOMAIN x.ents
       PROVE  (j < k => b.ents[j] = x.ents[j]) /\ (j >= k => b.ents[j + 1] = x.ents[j])
  <2>1. j \in DOMAIN n.ents /\ j + 1 \in DOMAIN n.ents /\ j \in Nat
    BY <1>1, <1>15
  <2>2. (j < k => j # k) /\ (j >= k => j + 1 # k)
    BY <1>2, <2>1
  <2> QED  BY <1>10, <1>14, <2>1, <2>2
<1>18. ASSUME NEW j \in DOMAIN x.kids
       PROVE  (j < k => b.kids[j] = x.kids[j]) /\ (j > k => b.kids[j + 1] = x.kids[j])
  <2>1. j \in DOMAIN n.kids /\ j + 1 \in DOMAIN n.kids /\ j \in Nat
    BY <1>1, <1>15
  <2>2. (j < k => j # k /\ j # i) /\ (j > k => j + 1 # k /\ j + 1 # i)
    BY <1>2, <2>1
  <2> QED  BY SMTT(40), <1>11, <1>14, <2>1, <2>2
<1>19. ASSUME NEW j \in w + 1 .. Len(full.ents) PROVE newC.ents[j - w] = full.ents[j]
  <2>1. CASE j = w + 1
    <3>1. j - w = 1
      BY <1>4, <2>1
    <3> QED  BY <1>6, <1>14, <2>1, <3>1
  <2>2. CASE j # w + 1
    <3>1. /\ j \in (w + 1) + 1 .. Len(full.ents) /\ j - (w + 1) \in 1 .. Count(child)
          /\ (j - (w + 1)) + 1 = j - w
      <4>1. w \in Nat /\ Count(child) \in Nat /\ Len(full.ents) = Count(child) + w + 1
        BY <1>4, <1>16
      <4>2. PICK l \in Nat : l = Len(full.ents)
        BY <1>16
      <4>3. j \in w + 1 .. l /\ l = Count(child) + w + 1
        BY <4>1, <4>2
      <4> HIDE DEF w, child, full
      <4>4. j \in (w + 1) + 1 .. l
        BY <2>2, <4>1, <4>3
      <4>5. j - (w + 1) \in 1 .. Count(child)
        BY <4>1, <4>3, <4>4
      <4>6. (j - (w + 1)) + 1 = j - w
        BY <4>1, <4>3
      <4> QED  BY <4>2, <4>4, <4>5, <4>6
    <3>2. child.ents[j - (w + 1)] = full.ents[j]
      BY <1>14, <3>1
    <3>3. newC.ents[(j - (w + 1)) + 1] = child.ents[j - (w + 1)]
      BY <1>6, <3>1
    <3> QED  BY <3>1, <3>2, <3>3
  <2> QED  BY <2>1, <2>2
<1>20. \A j \in 1 .. w - 1 : newL.ents[j] = full.ents[j]
  <2>1. \A j \in 1 .. w - 1 : j \in 1 .. (w + 1) - 1
    BY <1>4
  <2> QED  BY <1>5, <1>14, <2>1
<1>21. IF IsLeaf(full) THEN IsLeaf(newL) /\ IsLeaf(newC)
       ELSE /\ Len(newL.kids) = w /\ Len(newC.kids) = Len(full.kids) - w
            /\ \A j \in 1 .. w : newL.kids[j] = full.kids[j]
            /\ \A j \in w + 1 .. Len(full.kids) : newC.kids[j - w] = full.kids[j]
  <2>1. CASE IsLeaf(full)
    BY <1>7, <1>14, <2>1
  <2>2. CASE ~IsLeaf(full)
    <3>1. /\ Len(left.kids) = w + 1 /\ Len(child.kids) = Len(full.kids) - (w + 1)
          /\ \A j \in 1 .. w + 1 : left.kids[j] = full.kids[j]
          /\ \A j \in (w + 1) + 1 .. Len(full.kids) :
                child.kids[j - (w + 1)] = full.kids[j]
      BY <1>14, <2>2
    <3>2. ~IsLeaf(left)
      <4>1. Len(left.kids) # 0
        BY <1>4, <3>1
      <4> QED  BY <1>3, <4>1, Nodes_
    <3>3. /\ Len(newL.kids) = w /\ Len(newC.kids) = Count(child) + 2
          /\ \A j \in 1 .. w : newL.kids[j] = left.kids[j]
          /\ newC.kids[1] = left.kids[w + 1]
          /\ \A j \in 1 .. Count(child) + 1 : newC.kids[j + 1] = child.kids[j]
      BY <1>7, <3>2
    <3>4. Len(full.kids) = Count(child) + 1 + (w + 1)
      <4>1. Len(child.kids) = Count(child) + 1 /\ Len(full.kids) \in Nat
        BY SMTT(40), <1>4, <1>16, <3>2
      <4> QED  BY <1>4, <3>1, <4>1
    <3>5. Len(newC.kids) = Len(full.kids) - w
      BY <1>4, <3>3, <3>4
    <3>6. \A j \in 1 .. w : newL.kids[j] = full.kids[j]
      <4>1. \A j \in 1 .. w : j \in 1 .. w + 1
        BY <1>4
      <4> QED  BY <3>1, <3>3, <4>1
    <3>7. ASSUME NEW j \in w + 1 .. Len(full.kids) PROVE newC.kids[j - w] = full.kids[j]
      <4>1. CASE j = w + 1
        <5>1. j - w = 1 /\ j \in 1 .. w + 1
          BY <1>4, <4>1
        <5> QED  BY <3>1, <3>3, <4>1, <5>1
      <4>2. CASE j # w + 1
        <5>1. /\ j \in (w + 1) + 1 .. Len(full.kids) /\ j - (w + 1) \in 1 .. Count(child) + 1
              /\ (j - (w + 1)) + 1 = j - w
          BY SMTT(40), <1>4, <3>4, <4>2
        <5>2. child.kids[j - (w + 1)] = full.kids[j]
          BY <3>1, <5>1
        <5>3. newC.kids[(j - (w + 1)) + 1] = child.kids[j - (w + 1)]
          BY <3>3, <5>1
        <5> QED  BY <5>1, <5>2, <5>3
      <4> QED  BY <4>1, <4>2
    <3> QED  BY <2>2, <3>3, <3>5, <3>6, <3>7
  <2> QED  BY <2>1, <2>2
<1>22. b.kids[k] = newL /\ b.kids[k + 1] = newC
  BY <1>2, <1>11
<1>23. /\ Len(b.ents) = Len(x.ents) + 1 /\ Len(b.kids) = Len(x.kids) + 1
       /\ b.ents[k] = full.ents[w]
  <2>1. w \in 1 .. (w + 1) - 1
    BY <1>4
  <2> QED  BY <1>10, <1>11, <1>14, <2>1
<1>24. Len(newL.ents) = w - 1 /\ Len(newC.ents) = Len(full.ents) - w
  BY <1>4, <1>5, <1>6, <1>16
<1>25. IsSplit(x, b, k, w)
  BY <1>14, <1>16, <1>17, <1>18, <1>19, <1>20, <1>21, <1>22, <1>23, <1>24 DEF IsSplit, full
<1>26. /\ Count(b) = Count(n) /\ Count(b.kids[k]) = w - 1 /\ Count(b.kids[i]) = Count(child) + 1
  BY <1>5, <1>6, <1>10, <1>11 DEF Count
<1> QED  BY <1>11, <1>12, <1>25, <1>26 DEF b, k, w, x, left, child

LEMMA BorrowRightIs ==
    ASSUME NEW E, NEW S, NEW n \in Nodes(E, Nodes(E, S)), Shaped(n),
           NEW i \in 1 .. Count(n), Count(n.kids[i + 1]) >= 1
    PROVE  /\ BorrowRight(n, i) \in Nodes(E, Nodes(E, S))
           /\ IsSplit(Merge(n, i), BorrowRight(n, i), i, Count(n.kids[i]) + 2)
           /\ Count(BorrowRight(n, i)) = Count(n)
           /\ Len(BorrowRight(n, i).kids) = Len(n.kids)
           /\ Count(BorrowRight(n, i).kids[i]) = Count(n.kids[i]) + 1
           /\ Count(BorrowRight(n, i).kids[i + 1]) = Count(n.kids[i + 1]) - 1
           /\ \A j \in DOMAIN n.kids : j # i /\ j # i + 1 =>
                 BorrowRight(n, i).kids[j] = n.kids[j]
<1> DEFINE child  == n.kids[i]
           right  == n.kids[i + 1]
           newC   == [ents |-> Append(child.ents, n.ents[i]),
                      kids |-> IF IsLeaf(child) THEN <<>>
                               ELSE Append(child.kids, Head(right.kids))]
           newR   == [ents |-> Tail(right.ents),
                      kids |-> IF IsLeaf(right) THEN <<>> ELSE Tail(right.kids)]
           b      == BorrowRight(n, i)
           x      == Merge(n, i)
           full   == x.kids[i]
           v      == Count(child) + 1
<1>1. /\ n.ents \in Seq(E) /\ n.kids \in Seq(Nodes(E, S)) /\ Count(n) \in Nat
      /\ Count(n) = Len(n.ents) /\ Len(n.kids) = Count(n) + 1
      /\ DOMAIN n.ents = 1 .. Count(n) /\ DOMAIN n.kids = 1 .. Count(n) + 1
  <2>1. n.ents \in Seq(E) /\ n.kids \in Seq(Nodes(E, S)) /\ Count(n) \in Nat
    BY Nodes_
  <2> QED  BY <2>1 DEF Shaped, Count
<1>2. i \in DOMAIN n.ents /\ i \in DOMAIN n.kids /\ i + 1 \in DOMAIN n.kids
  BY <1>1
<1>3. /\ child \in Nodes(E, S) /\ right \in Nodes(E, S) /\ n.ents[i] \in E
      /\ (IsLeaf(child) <=> IsLeaf(right)) /\ Fits(child) /\ Fits(right)
  <2>1. child \in Nodes(E, S) /\ right \in Nodes(E, S)
    BY <1>2, Nodes_
  <2>2. n.ents[i] \in E
    BY <1>1, <1>2
  <2> QED  BY <1>2, <2>1, <2>2 DEF Shaped
<1>4. /\ child.ents \in Seq(E) /\ child.kids \in Seq(S) /\ Count(child) \in Nat
      /\ Len(child.ents) = v - 1 /\ v \in Nat /\ v >= 1
      /\ right.ents \in Seq(E) /\ right.kids \in Seq(S) /\ Count(right) \in Nat
      /\ Len(right.ents) = Count(right) /\ Count(right) >= 1
      /\ ~IsLeaf(child) => Len(child.kids) = v /\ Len(right.kids) = Count(right) + 1
  <2>1. Len(child.ents) = Count(child) /\ Len(right.ents) = Count(right)
    BY DEF Count
  <2>2. /\ child.ents \in Seq(E) /\ child.kids \in Seq(S) /\ Count(child) \in Nat
        /\ right.ents \in Seq(E) /\ right.kids \in Seq(S) /\ Count(right) \in Nat
    BY <1>3, Nodes_
  <2>3. ~IsLeaf(child) => Len(child.kids) = v /\ Len(right.kids) = Count(right) + 1
    BY <1>3 DEF Fits
  <2>4. v - 1 = Count(child) /\ v \in Nat /\ v >= 1
    BY <2>2
  <2> QED  BY <2>1, <2>2, <2>3, <2>4
<1>5. /\ newC.ents \in Seq(E) /\ Len(newC.ents) = v /\ newC.ents[v] = n.ents[i]
      /\ \A j \in 1 .. v - 1 : newC.ents[j] = child.ents[j]
  <2> DEFINE e == Append(child.ents, n.ents[i])
  <2>1. newC.ents = e
    OBVIOUS
  <2> HIDE DEF newC, child, v
  <2>2. e \in Seq(E) /\ Len(e) = v /\ e[v] = n.ents[i]
    BY <1>3, <1>4
  <2>3. \A s \in Seq(E) : \A f \in E : \A j \in 1 .. Len(s) : Append(s, f)[j] = s[j]
    OBVIOUS
  <2>4. \A j \in 1 .. Len(child.ents) : e[j] = child.ents[j]
    BY <1>3, <1>4, <2>3
  <2> HIDE DEF e
  <2> QED  BY <1>4, <2>1, <2>2, <2>4
<1>6. /\ newR.ents \in Seq(E) /\ Len(newR.ents) = Count(right) - 1
      /\ \A j \in 2 .. Count(right) : newR.ents[j - 1] = right.ents[j]
  <2> DEFINE e == Tail(right.ents)
  <2>1. newR.ents = e
    OBVIOUS
  <2> HIDE DEF newR, right
  <2>2. right.ents \in Seq(E) /\ Len(right.ents) > 0 /\ Len(right.ents) = Count(right)
    BY <1>4
  <2>3. e \in Seq(E) /\ Len(e) = Len(right.ents) - 1
    BY <2>2, Ends
  <2>4. \A s \in Seq(E) : Len(s) > 0 => \A j \in 2 .. Len(s) : Tail(s)[j - 1] = s[j]
    BY Ends
  <2>5. \A j \in 2 .. Len(right.ents) : e[j - 1] = right.ents[j]
    BY <2>2, <2>4
  <2> HIDE DEF e
  <2> QED  BY <2>1, <2>2, <2>3, <2>5
<1>7. newC.kids \in Seq(S) /\ newR.kids \in Seq(S)
      /\ IF IsLeaf(child) THEN IsLeaf(newC) /\ IsLeaf(newR)
         ELSE /\ Len(newC.kids) = v + 1 /\ Len(newR.kids) = Count(right)
              /\ \A j \in 1 .. v : newC.kids[j] = child.kids[j]
              /\ newC.kids[v + 1] = right.kids[1]
              /\ \A j \in 2 .. Count(right) + 1 : newR.kids[j - 1] = right.kids[j]
  <2>1. CASE IsLeaf(child)
    <3>1. newC.kids = <<>> /\ newR.kids = <<>>
      BY <1>3, <2>1
    <3> HIDE DEF newC, newR, child
    <3>2. IsLeaf(newC) /\ IsLeaf(newR)
      BY <3>1 DEF IsLeaf
    <3>3. newC.kids \in Seq(S) /\ newR.kids \in Seq(S)
      BY <3>1
    <3> QED  BY <2>1, <3>2, <3>3
  <2>2. CASE ~IsLeaf(child)
    <3> DEFINE e == Append(child.kids, Head(right.kids))  f == Tail(right.kids)
    <3>1. newC.kids = e /\ newR.kids = f /\ Len(child.kids) = v /\ Len(right.kids) = Count(right) + 1
      BY <1>3, <1>4, <2>2
    <3> HIDE DEF newC, newR, child, right, v
    <3>2. /\ Len(right.kids) > 0 /\ Len(right.kids) \in Nat
          /\ right.kids \in Seq(S) /\ child.kids \in Seq(S)
      BY <1>4, <3>1
    <3>3. f \in Seq(S) /\ Len(f) = Len(right.kids) - 1
      BY <3>2, Ends
    <3>4. \A s \in Seq(S) : Len(s) > 0 => \A j \in 2 .. Len(s) : Tail(s)[j - 1] = s[j]
      BY Ends
    <3>5. \A j \in 2 .. Len(right.kids) : f[j - 1] = right.kids[j]
      BY <3>2, <3>4
    <3>6. Head(right.kids) = right.kids[1] /\ Head(right.kids) \in S
      BY <3>2, Ends
    <3>7. e \in Seq(S) /\ Len(e) = Len(child.kids) + 1 /\ e[Len(child.kids) + 1] = Head(right.kids)
      BY <3>2, <3>6
    <3>8. \A s \in Seq(S) : \A g \in S : \A j \in 1 .. Len(s) : Append(s, g)[j] = s[j]
      OBVIOUS
    <3>9. \A j \in 1 .. Len(child.kids) : e[j] = child.kids[j]
      BY <3>2, <3>6, <3>8
    <3> HIDE DEF e, f
    <3>10. newC.kids \in Seq(S) /\ Len(newC.kids) = v + 1
      BY <3>1, <3>7
    <3>11. newR.kids \in Seq(S) /\ Len(newR.kids) = Count(right)
      <4>1. Count(right) \in Nat
        BY <1>4
      <4> QED  BY <3>1, <3>3, <4>1
    <3>12. \A j \in 1 .. v : newC.kids[j] = child.kids[j]
      BY <3>1, <3>9
    <3>13. newC.kids[v + 1] = right.kids[1]
      BY <3>1, <3>6, <3>7
    <3>14. \A j \in 2 .. Count(right) + 1 : newR.kids[j - 1] = right.kids[j]
      BY <3>1, <3>5
    <3> QED  BY <2>2, <3>10, <3>11, <3>12, <3>13, <3>14
  <2> QED  BY <2>1, <2>2
<1>8. newC \in Nodes(E, S) /\ newR \in Nodes(E, S)
  BY <1>5, <1>6, <1>7 DEF Nodes
<1>9. b = [ents |-> [n.ents EXCEPT ![i] = Head(right.ents)],
           kids |-> [n.kids EXCEPT ![i] = newC, ![i + 1] = newR]]
  BY DEF BorrowRight
<1> HIDE DEF newC, newR, b
<1>10. /\ b.ents \in Seq(E) /\ Len(b.ents) = Len(n.ents) /\ b.ents[i] = right.ents[1]
       /\ \A j \in DOMAIN n.ents : j # i => b.ents[j] = n.ents[j]
  <2>1. Head(right.ents) = right.ents[1] /\ Head(right.ents) \in E
    <3> HIDE DEF right
    <3>1. right.ents \in Seq(E) /\ Len(right.ents) > 0
      BY <1>4
    <3> QED  BY <3>1, Ends
  <2> HIDE DEF right
  <2> QED  BY <1>1, <1>2, <1>9, <2>1
<1>11. /\ b.kids \in Seq(Nodes(E, S)) /\ Len(b.kids) = Len(n.kids)
       /\ b.kids[i] = newC /\ b.kids[i + 1] = newR
       /\ \A j \in DOMAIN n.kids : j # i /\ j # i + 1 => b.kids[j] = n.kids[j]
  BY <1>1, <1>2, <1>8, <1>9
<1>12. b \in Nodes(E, Nodes(E, S))
  BY <1>9, <1>10, <1>11 DEF Nodes
<1>13. IsSplit(x, n, i, v)
  BY MergeIs
<1>14. x \in Nodes(E, Nodes(E, S))
  BY MergeIs
<1> HIDE DEF child, right, x, v
<1>15. /\ i \in DOMAIN x.kids /\ v \in DOMAIN full.ents
       /\ Len(n.ents) = Len(x.ents) + 1 /\ Len(n.kids) = Len(x.kids) + 1
       /\ \A j \in DOMAIN x.ents : j < i => n.ents[j] = x.ents[j]
       /\ n.ents[i] = full.ents[v]
       /\ \A j \in DOMAIN x.ents : j >= i => n.ents[j + 1] = x.ents[j]
       /\ \A j \in DOMAIN x.kids : j < i => n.kids[j] = x.kids[j]
       /\ \A j \in DOMAIN x.kids : j > i => n.kids[j + 1] = x.kids[j]
       /\ Count(right) = Len(full.ents) - v
       /\ \A j \in 1 .. v - 1 : child.ents[j] = full.ents[j]
       /\ \A j \in v + 1 .. Len(full.ents) : right.ents[j - v] = full.ents[j]
       /\ IF IsLeaf(full) THEN IsLeaf(child) /\ IsLeaf(right)
          ELSE /\ Len(child.kids) = v /\ Len(right.kids) = Len(full.kids) - v
               /\ \A j \in 1 .. v : child.kids[j] = full.kids[j]
               /\ \A j \in v + 1 .. Len(full.kids) : right.kids[j - v] = full.kids[j]
  <2>1. child = n.kids[i] /\ right = n.kids[i + 1]
    BY DEF child, right
  <2> QED  BY <1>4, <1>13, <2>1 DEF IsSplit
<1>16. /\ x.ents \in Seq(E) /\ x.kids \in Seq(Nodes(E, S)) /\ full \in Nodes(E, S)
       /\ DOMAIN x.ents = 1 .. Count(n) - 1 /\ DOMAIN x.kids = 1 .. Count(n)
  <2>1. x.ents \in Seq(E) /\ x.kids \in Seq(Nodes(E, S)) /\ full \in Nodes(E, S)
    BY <1>14, <1>15, Nodes_
  <2>2. Len(x.ents) = Count(n) - 1 /\ Len(x.kids) = Count(n)
    BY SMTT(40), <1>1, <1>15, <2>1
  <2> QED  BY <2>1, <2>2
<1>17. /\ v + 1 \in DOMAIN full.ents /\ Len(full.ents) \in Nat
       /\ Len(full.ents) = Count(right) + v /\ full.kids \in Seq(S)
       /\ v \in Nat /\ v >= 1 /\ Count(right) \in Nat /\ Count(right) >= 1
  <2>1. full.ents \in Seq(E) /\ full.kids \in Seq(S)
    BY <1>16, Nodes_
  <2>2. Len(full.ents) \in Nat /\ DOMAIN full.ents = 1 .. Len(full.ents)
    BY <2>1
  <2> HIDE DEF full
  <2>3. v \in Nat /\ v >= 1 /\ Count(right) \in Nat /\ Count(right) >= 1
    BY <1>4
  <2>4. Count(right) = Len(full.ents) - v
    BY <1>15
  <2>5. v + 1 \in 1 .. Len(full.ents) /\ Len(full.ents) = Count(right) + v
    BY <2>2, <2>3, <2>4
  <2> QED  BY <2>1, <2>2, <2>3, <2>5
<1> HIDE DEF full
<1>18. ASSUME NEW j \in DOMAIN x.ents
       PROVE  (j < i => b.ents[j] = x.ents[j]) /\ (j >= i => b.ents[j + 1] = x.ents[j])
  <2>1. j \in DOMAIN n.ents /\ j + 1 \in DOMAIN n.ents /\ j \in Nat
    BY <1>1, <1>16
  <2>2. (j < i => j # i) /\ (j >= i => j + 1 # i)
    BY <2>1
  <2> QED  BY <1>10, <1>15, <2>1, <2>2
<1>19. ASSUME NEW j \in DOMAIN x.kids
       PROVE  (j < i => b.kids[j] = x.kids[j]) /\ (j > i => b.kids[j + 1] = x.kids[j])
  <2>1. j \in DOMAIN n.kids /\ j + 1 \in DOMAIN n.kids /\ j \in Nat
    BY <1>1, <1>16
  <2>2. (j < i => j # i /\ j # i + 1) /\ (j > i => j + 1 # i /\ j + 1 # i + 1)
    BY <2>1
  <2> QED  BY <1>11, <1>15, <2>1, <2>2
<1>20. \A j \in 1 .. v : newC.ents[j] = full.ents[j]
  <2>1. \A j \in 1 .. v : j = v \/ j \in 1 .. v - 1
    BY <1>17
  <2> QED  BY <1>5, <1>15, <2>1
<1>21. ASSUME NEW j \in (v + 1) + 1 .. Len(full.ents)
       PROVE  newR.ents[j - (v + 1)] = full.ents[j]
  <2>1. PICK l \in Nat : l = Len(full.ents) /\ l = Count(right) + v
    BY <1>17
  <2>2. j - v \in 2 .. Count(right) /\ j \in v + 1 .. l /\ (j - v) - 1 = j - (v + 1)
    BY SMTT(40), <1>17, <2>1
  <2>3. newR.ents[(j - v) - 1] = right.ents[j - v]
    BY <1>6, <2>2
  <2>4. right.ents[j - v] = full.ents[j]
    BY <1>15, <2>1, <2>2
  <2> QED  BY <2>2, <2>3, <2>4
<1>22. IF IsLeaf(full) THEN IsLeaf(newC) /\ IsLeaf(newR)
       ELSE /\ Len(newC.kids) = v + 1 /\ Len(newR.kids) = Len(full.kids) - (v + 1)
            /\ \A j \in 1 .. v + 1 : newC.kids[j] = full.kids[j]
            /\ \A j \in (v + 1) + 1 .. Len(full.kids) : newR.kids[j - (v + 1)] = full.kids[j]
  <2>1. CASE IsLeaf(full)
    BY <1>7, <1>15, <2>1
  <2>2. CASE ~IsLeaf(full)
    <3>1. /\ Len(child.kids) = v /\ Len(right.kids) = Len(full.kids) - v
          /\ \A j \in 1 .. v : child.kids[j] = full.kids[j]
          /\ \A j \in v + 1 .. Len(full.kids) : right.kids[j - v] = full.kids[j]
      BY <1>15, <2>2
    <3>2. ~IsLeaf(child)
      <4>1. Len(child.kids) # 0
        BY <1>17, <3>1
      <4> QED  BY <1>3, <4>1, Nodes_
    <3>3. /\ Len(newC.kids) = v + 1 /\ Len(newR.kids) = Count(right)
          /\ \A j \in 1 .. v : newC.kids[j] = child.kids[j]
          /\ newC.kids[v + 1] = right.kids[1]
          /\ \A j \in 2 .. Count(right) + 1 : newR.kids[j - 1] = right.kids[j]
      BY <1>7, <3>2
    <3>4. PICK l \in Nat : l = Len(full.kids) /\ l = Count(right) + 1 + v
      <4>1. Len(right.kids) = Count(right) + 1 /\ Len(full.kids) \in Nat
        BY <1>4, <1>17, <3>2
      <4> QED  BY <1>17, <3>1, <4>1
    <3>5. Len(newR.kids) = l - (v + 1)
      BY <1>17, <3>3, <3>4
    <3>6. ASSUME NEW j \in 1 .. v + 1 PROVE newC.kids[j] = full.kids[j]
      <4>1. CASE j = v + 1
        <5>1. j - v = 1 /\ j \in v + 1 .. l
          BY <1>17, <3>4, <4>1
        <5> QED  BY <3>1, <3>3, <3>4, <4>1, <5>1
      <4>2. CASE j # v + 1
        <5>1. j \in 1 .. v
          BY <1>17, <4>2
        <5> QED  BY <3>1, <3>3, <5>1
      <4> QED  BY <4>1, <4>2
    <3>7. ASSUME NEW j \in (v + 1) + 1 .. Len(full.kids)
          PROVE  newR.kids[j - (v + 1)] = full.kids[j]
      <4>1. /\ j - v \in 2 .. Count(right) + 1 /\ j \in v + 1 .. l
            /\ (j - v) - 1 = j - (v + 1)
        BY SMTT(40), <1>17, <3>4
      <4>2. newR.kids[(j - v) - 1] = right.kids[j - v]
        BY <3>3, <4>1
      <4>3. right.kids[j - v] = full.kids[j]
        BY <3>1, <3>4, <4>1
      <4> QED  BY <4>1, <4>2, <4>3
    <3> QED  BY <2>2, <3>3, <3>4, <3>5, <3>6, <3>7
  <2> QED  BY <2>1, <2>2
<1>23. /\ Len(b.ents) = Len(x.ents) + 1 /\ Len(b.kids) = Len(x.kids) + 1
       /\ b.ents[i] = full.ents[v + 1]
  <2>1. PICK l \in Nat : l = Len(full.ents) /\ v + 1 \in v + 1 .. l /\ (v + 1) - v = 1
    BY <1>17
  <2>2. right.ents[(v + 1) - v] = full.ents[v + 1]
    BY <1>15, <2>1
  <2> QED  BY <1>10, <1>11, <1>15, <2>1, <2>2
<1>24. Len(newC.ents) = (v + 1) - 1 /\ Len(newR.ents) = Len(full.ents) - (v + 1)
  BY SMTT(40), <1>5, <1>6, <1>17
<1>25. \A j \in 1 .. (v + 1) - 1 : newC.ents[j] = full.ents[j]
  BY <1>17, <1>20
<1>26. IsSplit(x, b, i, v + 1)
  BY <1>11, <1>15, <1>17, <1>18, <1>19, <1>21, <1>22, <1>23, <1>24, <1>25 DEF IsSplit, full
<1>27. /\ Count(b) = Count(n) /\ Count(b.kids[i]) = v /\ Count(b.kids[i + 1]) = Count(right) - 1
  BY <1>5, <1>6, <1>10, <1>11 DEF Count
<1>28. v = Count(child) + 1 /\ v + 1 = Count(child) + 2
  BY <1>4 DEF v
<1> QED  BY <1>11, <1>12, <1>26, <1>27, <1>28 DEF b, x, right, child

-----------------------------------------------------------------------------
(* The walk stays the same                                                   *)

LEMMA SplitWalk ==
    ASSUME NEW E, NEW S, NEW n \in Nodes(E, Nodes(E, S)), NEW m \in Nodes(E, Nodes(E, S)),
           Shaped(n), NEW i, NEW u, IsSplit(n, m, i, u)
    PROVE  /\ Gaps(m) = Gaps(n)
           /\ ChildGaps(n, i) = ChildGaps(m, i) \cup ChildGaps(m, i + 1)
<1>1. /\ \A a \in DOMAIN n.kids : a < i => ChildGaps(m, a) = ChildGaps(n, a)
      /\ \A a \in DOMAIN n.kids : a > i => ChildGaps(m, a + 1) = ChildGaps(n, a)
      /\ ChildGaps(m, i) = {Gap(n, i, j) : j \in 1 .. u}
      /\ ChildGaps(m, i + 1) = {Gap(n, i, j) : j \in u + 1 .. Count(n.kids[i]) + 1}
  BY SplitGaps
<1>2. PICK l \in Nat : /\ DOMAIN n.kids = 1 .. l /\ DOMAIN m.kids = 1 .. l + 1
                       /\ i \in 1 .. l
  <2>1. n.kids \in Seq(Nodes(E, S)) /\ m.kids \in Seq(Nodes(E, S))
    BY Nodes_
  <2>2. /\ Len(n.kids) \in Nat /\ DOMAIN n.kids = 1 .. Len(n.kids)
        /\ DOMAIN m.kids = 1 .. Len(m.kids)
    BY <2>1
  <2>3. i \in DOMAIN n.kids /\ Len(m.kids) = Len(n.kids) + 1
    BY DEF IsSplit
  <2> QED  BY <2>2, <2>3
<1>3. PICK c \in Nat : c = Count(n.kids[i]) /\ u \in 1 .. c
  <2>1. n.kids[i] \in Nodes(E, S) /\ u \in DOMAIN n.kids[i].ents
    BY Nodes_ DEF IsSplit
  <2> QED  BY <2>1, Nodes_
<1>4. ChildGaps(n, i) = ChildGaps(m, i) \cup ChildGaps(m, i + 1)
  <2>1. 1 .. c + 1 = 1 .. u \cup u + 1 .. c + 1
    BY <1>3
  <2>2. ChildGaps(n, i) = {Gap(n, i, j) : j \in 1 .. c + 1}
    BY <1>3 DEF ChildGaps, Places
  <2> QED  BY <1>1, <1>3, <2>1, <2>2
<1>5. ASSUME NEW g, g \in Gaps(n) PROVE g \in Gaps(m)
  <2>1. PICK a \in 1 .. l : g \in ChildGaps(n, a)
    BY <1>2, <1>5 DEF Gaps
  <2>2. a \in DOMAIN m.kids /\ a + 1 \in DOMAIN m.kids /\ (a < i \/ a = i \/ a > i)
    BY <1>2
  <2> QED  BY <1>1, <1>2, <1>4, <2>1, <2>2 DEF Gaps
<1>6. ASSUME NEW g, g \in Gaps(m) PROVE g \in Gaps(n)
  <2>1. PICK a \in 1 .. l + 1 : g \in ChildGaps(m, a)
    BY <1>2, <1>6 DEF Gaps
  <2>2. CASE a < i
    <3>1. a \in DOMAIN n.kids
      BY <1>2, <2>2
    <3> QED  BY <1>1, <2>1, <2>2, <3>1 DEF Gaps
  <2>3. CASE a = i \/ a = i + 1
    BY <1>2, <1>4, <2>1, <2>3 DEF Gaps
  <2>4. CASE a > i + 1
    <3>1. a - 1 \in DOMAIN n.kids /\ a - 1 > i /\ (a - 1) + 1 = a
      BY <1>2, <2>4
    <3> QED  BY <1>1, <2>1, <3>1 DEF Gaps
  <2> QED  BY <1>2, <2>2, <2>3, <2>4
<1> QED  BY <1>4, <1>5, <1>6

\* node_split_child: whatever the order of the tree, and whatever is below, what
\* is in the node and below it stays, in its order, and the node is as wide as
\* it should be: the entry that went up stands between the halves.
THEOREM SplitKeepsWalk ==
    ASSUME Order, NEW E, NEW S, NEW n \in Nodes(E, Nodes(E, S)), Shaped(n),
           NEW i \in DOMAIN n.kids, Count(n.kids[i]) = MaxKeys
    PROVE  /\ Shaped(SplitChild(n, i))
           /\ Gaps(SplitChild(n, i)) = Gaps(n)
<1>1. /\ SplitChild(n, i) \in Nodes(E, Nodes(E, S))
      /\ IsSplit(n, SplitChild(n, i), i, SplitIndex + 1)
  BY SplitIs
<1>2. Shaped(SplitChild(n, i))
  BY <1>1, SplitShapes
<1>3. Gaps(SplitChild(n, i)) = Gaps(n)
  BY <1>1, SplitWalk
<1> QED  BY <1>2, <1>3

\* merge_nodes: the merged child holds what was below the two, in its order, and
\* nothing else in the node changes its place.
THEOREM MergeKeepsWalk ==
    ASSUME NEW E, NEW S, NEW n \in Nodes(E, Nodes(E, S)), Shaped(n), NEW i \in 1 .. Count(n)
    PROVE  /\ Merge(n, i) \in Nodes(E, Nodes(E, S)) /\ Shaped(Merge(n, i))
           /\ Gaps(Merge(n, i)) = Gaps(n)
           /\ ChildGaps(Merge(n, i), i) = ChildGaps(n, i) \cup ChildGaps(n, i + 1)
<1>1. /\ Merge(n, i) \in Nodes(E, Nodes(E, S))
      /\ IsSplit(Merge(n, i), n, i, Count(n.kids[i]) + 1)
  BY MergeIs
<1>2. Shaped(Merge(n, i))
  BY <1>1, SplitShapes
<1>3. /\ Gaps(n) = Gaps(Merge(n, i))
      /\ ChildGaps(Merge(n, i), i) = ChildGaps(n, i) \cup ChildGaps(n, i + 1)
  BY <1>1, <1>2, SplitWalk
<1> QED  BY <1>1, <1>2, <1>3

\* Borrowing: two ways to split what merging the two children would make.
LEMMA BorrowLeftWalk ==
    ASSUME NEW E, NEW S, NEW n \in Nodes(E, Nodes(E, S)), Shaped(n),
           NEW i \in 2 .. Count(n) + 1, Count(n.kids[i - 1]) >= 1
    PROVE  /\ BorrowLeft(n, i) \in Nodes(E, Nodes(E, S)) /\ Shaped(BorrowLeft(n, i))
           /\ Gaps(BorrowLeft(n, i)) = Gaps(n)
           /\ ChildGaps(n, i) \subseteq ChildGaps(BorrowLeft(n, i), i)
<1> DEFINE k == i - 1
           x == Merge(n, k)
           b == BorrowLeft(n, i)
           w == Count(n.kids[k])
           c == Count(x.kids[k])
<1>1. Count(n) \in Nat /\ k \in 1 .. Count(n) /\ k + 1 = i
  BY Nodes_
<1>2. /\ x \in Nodes(E, Nodes(E, S)) /\ Shaped(x) /\ Gaps(x) = Gaps(n)
  BY <1>1, MergeKeepsWalk
<1>3. /\ IsSplit(x, n, k, w + 1)
  BY <1>1, MergeIs
<1>4. /\ b \in Nodes(E, Nodes(E, S)) /\ IsSplit(x, b, k, w)
  BY BorrowLeftIs
<1>5. w \in Nat /\ c \in Nat
  <2>1. n.kids[k] \in Nodes(E, S)
    <3>1. k \in DOMAIN n.kids
      <4>1. n.kids \in Seq(Nodes(E, S)) /\ Len(n.kids) = Count(n) + 1
        BY Nodes_ DEF Shaped
      <4> QED  BY <1>1, <4>1
    <3> QED  BY <3>1, Nodes_
  <2>2. x.kids[k] \in Nodes(E, S)
    BY <1>2, <1>3, Nodes_ DEF IsSplit
  <2> QED  BY <2>1, <2>2, Nodes_
<1> HIDE DEF k, x, b, w
<1>6. Shaped(b)
  BY <1>2, <1>4, SplitShapes
<1>7. Gaps(b) = Gaps(x)
  BY <1>2, <1>4, SplitWalk
<1>8. ChildGaps(n, k + 1) = {Gap(x, k, j) : j \in (w + 1) + 1 .. c + 1}
  BY <1>2, <1>3, SplitGaps
<1>9. ChildGaps(b, k + 1) = {Gap(x, k, j) : j \in w + 1 .. c + 1}
  BY <1>2, <1>4, SplitGaps
<1> HIDE DEF c
<1>10. (w + 1) + 1 .. c + 1 \subseteq w + 1 .. c + 1
  BY <1>5
<1>11. ChildGaps(n, i) \subseteq ChildGaps(b, i)
  BY <1>1, <1>8, <1>9, <1>10
<1> QED  BY <1>2, <1>4, <1>6, <1>7, <1>11 DEF b

LEMMA BorrowRightWalk ==
    ASSUME NEW E, NEW S, NEW n \in Nodes(E, Nodes(E, S)), Shaped(n),
           NEW i \in 1 .. Count(n), Count(n.kids[i + 1]) >= 1
    PROVE  /\ BorrowRight(n, i) \in Nodes(E, Nodes(E, S)) /\ Shaped(BorrowRight(n, i))
           /\ Gaps(BorrowRight(n, i)) = Gaps(n)
           /\ ChildGaps(n, i) \subseteq ChildGaps(BorrowRight(n, i), i)
<1> DEFINE x == Merge(n, i)
           b == BorrowRight(n, i)
           v == Count(n.kids[i])
<1>1. /\ x \in Nodes(E, Nodes(E, S)) /\ Shaped(x) /\ Gaps(x) = Gaps(n)
  BY MergeKeepsWalk
<1>2. /\ IsSplit(x, n, i, v + 1)
  BY MergeIs
<1>3. /\ b \in Nodes(E, Nodes(E, S)) /\ IsSplit(x, b, i, v + 2)
  BY BorrowRightIs
<1>4. v \in Nat
  <2>1. n.kids[i] \in Nodes(E, S)
    <3>1. i \in DOMAIN n.kids
      <4>1. n.kids \in Seq(Nodes(E, S)) /\ Len(n.kids) = Count(n) + 1 /\ Count(n) \in Nat
        BY Nodes_ DEF Shaped
      <4> QED  BY <4>1
    <3> QED  BY <3>1, Nodes_
  <2> QED  BY <2>1, Nodes_
<1> HIDE DEF x, b, v
<1>5. Shaped(b)
  BY <1>1, <1>3, SplitShapes
<1>6. Gaps(b) = Gaps(x)
  BY <1>1, <1>3, SplitWalk
<1>7. ChildGaps(n, i) = {Gap(x, i, j) : j \in 1 .. v + 1}
  BY <1>1, <1>2, SplitGaps
<1>8. ChildGaps(b, i) = {Gap(x, i, j) : j \in 1 .. v + 2}
  BY <1>1, <1>3, SplitGaps
<1>9. 1 .. v + 1 \subseteq 1 .. v + 2
  BY <1>4
<1>10. ChildGaps(n, i) \subseteq ChildGaps(b, i)
  BY <1>7, <1>8, <1>9
<1> QED  BY <1>1, <1>3, <1>5, <1>6, <1>10 DEF b

-----------------------------------------------------------------------------
(* Before a deletion goes down                                               *)

LEMMA RefillCases ==
    ASSUME Order, NEW E, NEW S, NEW n \in Nodes(E, Nodes(E, S)), Shaped(n), Count(n) >= 1,
           NEW i \in DOMAIN n.kids
    PROVE  \/ /\ Count(n.kids[i]) # MinKeys
              /\ Refill(n, i) = [node |-> n, at |-> i]
           \/ /\ Count(n.kids[i]) = MinKeys
              /\ i \in 2 .. Count(n) + 1 /\ Count(n.kids[i - 1]) > MinKeys
              /\ Refill(n, i) = [node |-> BorrowLeft(n, i), at |-> i]
           \/ /\ Count(n.kids[i]) = MinKeys
              /\ i \in 1 .. Count(n) /\ Count(n.kids[i + 1]) > MinKeys
              /\ Refill(n, i) = [node |-> BorrowRight(n, i), at |-> i]
           \/ \E j \in 1 .. Count(n) :
                 /\ i \in {j, j + 1}
                 /\ Count(n.kids[i]) = MinKeys
                 /\ ~ Count(n.kids[j]) > MinKeys /\ ~ Count(n.kids[j + 1]) > MinKeys
                 /\ Refill(n, i) = [node |-> Merge(n, j), at |-> j]
<1>1. Count(n) \in Nat /\ i \in 1 .. Count(n) + 1
  <2>1. n.kids \in Seq(Nodes(E, S)) /\ Len(n.kids) = Count(n) + 1 /\ Count(n) \in Nat
    BY Nodes_ DEF Shaped
  <2> QED  BY <2>1
<1>2. MinKeys \in Nat
  BY Bounds
<1> DEFINE C(a) == Count(n.kids[a])
<1>3. CASE C(i) # MinKeys
  BY <1>3 DEF Refill
<1>4. CASE C(i) = MinKeys /\ i > 1 /\ C(i - 1) > MinKeys
  <2>1. i \in 2 .. Count(n) + 1
    BY <1>1, <1>4
  <2> QED  BY <1>4, <2>1 DEF Refill
<1>5. CASE C(i) = MinKeys /\ ~(i > 1 /\ C(i - 1) > MinKeys) /\ i <= Count(n) /\ C(i + 1) > MinKeys
  <2>1. i \in 1 .. Count(n)
    BY <1>1, <1>5
  <2> QED  BY <1>5, <2>1 DEF Refill
<1>6. CASE /\ C(i) = MinKeys /\ ~(i > 1 /\ C(i - 1) > MinKeys)
           /\ ~(i <= Count(n) /\ C(i + 1) > MinKeys)
  <2> DEFINE j == IF i <= Count(n) THEN i ELSE i - 1
  <2>1. Refill(n, i) = [node |-> Merge(n, j), at |-> j]
    BY <1>6 DEF Refill
  <2>2. ~ C(i) > MinKeys
    BY <1>2, <1>6
  <2>3. CASE i <= Count(n)
    <3>1. i \in 1 .. Count(n) /\ j = i
      BY <1>1, <2>3
    <3> QED  BY <1>6, <2>1, <2>2, <3>1
  <2>4. CASE ~(i <= Count(n))
    <3>1. i - 1 \in 1 .. Count(n) /\ j = i - 1 /\ (i - 1) + 1 = i /\ i > 1
      BY <1>1, <2>4
    <3> QED  BY <1>6, <2>1, <2>2, <3>1
  <2> QED  BY <2>3, <2>4
<1> QED  BY <1>3, <1>4, <1>5, <1>6

\* btree_delete_node: whichever way the child is given an entry to spare, the node
\* and what is below it stays, in its order, and the deletion goes on with a
\* child that holds all that was below the child it was going to.
THEOREM RefillKeepsWalk ==
    ASSUME Order, NEW E, NEW S, NEW n \in Nodes(E, Nodes(E, S)), Shaped(n), Count(n) >= 1,
           NEW i \in DOMAIN n.kids
    PROVE  /\ Refill(n, i).node \in Nodes(E, Nodes(E, S)) /\ Shaped(Refill(n, i).node)
           /\ Gaps(Refill(n, i).node) = Gaps(n)
           /\ ChildGaps(n, i) \subseteq ChildGaps(Refill(n, i).node, Refill(n, i).at)
<1> DEFINE Kept(m, a) == /\ m \in Nodes(E, Nodes(E, S)) /\ Shaped(m)
                         /\ Gaps(m) = Gaps(n)
                         /\ ChildGaps(n, i) \subseteq ChildGaps(m, a)
<1>1. MinKeys \in Nat /\ MinKeys >= 1
  BY Bounds
<1>2. ASSUME i \in 2 .. Count(n) + 1, Count(n.kids[i - 1]) > MinKeys
      PROVE  Kept(BorrowLeft(n, i), i)
  <2>1. i - 1 \in DOMAIN n.kids
    <3>1. n.kids \in Seq(Nodes(E, S)) /\ Len(n.kids) = Count(n) + 1 /\ Count(n) \in Nat
      BY Nodes_ DEF Shaped
    <3> QED  BY <1>2, <3>1
  <2>2. Count(n.kids[i - 1]) \in Nat
    BY <2>1, Nodes_
  <2>3. Count(n.kids[i - 1]) >= 1
    BY <1>1, <1>2, <2>2
  <2> QED  BY <1>2, <2>3, BorrowLeftWalk
<1>3. ASSUME i \in 1 .. Count(n), Count(n.kids[i + 1]) > MinKeys
      PROVE  Kept(BorrowRight(n, i), i)
  <2>1. i + 1 \in DOMAIN n.kids
    <3>1. n.kids \in Seq(Nodes(E, S)) /\ Len(n.kids) = Count(n) + 1 /\ Count(n) \in Nat
      BY Nodes_ DEF Shaped
    <3> QED  BY <1>3, <3>1
  <2>2. Count(n.kids[i + 1]) \in Nat
    BY <2>1, Nodes_
  <2>3. Count(n.kids[i + 1]) >= 1
    BY <1>1, <1>3, <2>2
  <2> QED  BY <1>3, <2>3, BorrowRightWalk
<1>4. ASSUME NEW j \in 1 .. Count(n), i \in {j, j + 1}
      PROVE  Kept(Merge(n, j), j)
  BY <1>4, MergeKeepsWalk
<1> HIDE DEF Kept
<1>5. Kept(Refill(n, i).node, Refill(n, i).at)
  <2>1. CASE Refill(n, i) = [node |-> n, at |-> i]
    BY <2>1 DEF Kept
  <2> QED  BY <1>2, <1>3, <1>4, <2>1, RefillCases
<1> QED  BY <1>5 DEF Kept

\* A node all of whose children keep to the bounds of the tree.
Bounded(n) == \A a \in DOMAIN n.kids : Count(n.kids[a]) \in MinKeys .. MaxKeys

LEMMA MergeSizes ==
    ASSUME NEW E, NEW S, NEW n \in Nodes(E, Nodes(E, S)), Shaped(n), NEW j \in 1 .. Count(n)
    PROVE  /\ Count(Merge(n, j)) = Count(n) - 1
           /\ j \in DOMAIN Merge(n, j).kids
           /\ Count(Merge(n, j).kids[j]) = Count(n.kids[j]) + 1 + Count(n.kids[j + 1])
           /\ \A a \in DOMAIN Merge(n, j).kids : a < j => Merge(n, j).kids[a] = n.kids[a]
           /\ \A a \in DOMAIN Merge(n, j).kids : a > j => Merge(n, j).kids[a] = n.kids[a + 1]
           /\ \A a \in DOMAIN Merge(n, j).kids : a \in DOMAIN n.kids /\ a + 1 \in DOMAIN n.kids
<1> DEFINE x == Merge(n, j)
<1>1. /\ x \in Nodes(E, Nodes(E, S)) /\ IsSplit(x, n, j, Count(n.kids[j]) + 1)
      /\ Count(x.kids[j]) = Count(n.kids[j]) + 1 + Count(n.kids[j + 1])
  BY MergeIs
<1> HIDE DEF x
<1>2. /\ Count(n) = Count(x) + 1 /\ Len(n.kids) = Len(x.kids) + 1 /\ j \in DOMAIN x.kids
      /\ \A a \in DOMAIN x.kids : a < j => n.kids[a] = x.kids[a]
      /\ \A a \in DOMAIN x.kids : a > j => n.kids[a + 1] = x.kids[a]
  BY <1>1 DEF IsSplit, Count
<1>3. Count(x) \in Nat /\ x.kids \in Seq(Nodes(E, S)) /\ n.kids \in Seq(Nodes(E, S))
  BY <1>1, Nodes_
<1>4. /\ \A a \in DOMAIN x.kids : a \in DOMAIN n.kids /\ a + 1 \in DOMAIN n.kids
      /\ Count(x) = Count(n) - 1
  BY <1>2, <1>3
<1> QED  BY <1>1, <1>2, <1>4 DEF x

\* btree_delete_node, in a tree of even order: the child the deletion goes on with
\* has more entries than it needs, so one can be taken from below it, every
\* child still keeps to the bounds, and the node has lost at most one entry
\* itself, which its own parent has spared it in the same way.
THEOREM RefillLeavesRoom ==
    ASSUME Order, MaxChildren % 2 = 0,
           NEW E, NEW S, NEW n \in Nodes(E, Nodes(E, S)), Shaped(n), Count(n) >= 1,
           Bounded(n), NEW i \in DOMAIN n.kids
    PROVE  /\ Refill(n, i).at \in DOMAIN Refill(n, i).node.kids
           /\ Count(Refill(n, i).node.kids[Refill(n, i).at]) > MinKeys
           /\ Bounded(Refill(n, i).node)
           /\ Count(Refill(n, i).node) \in {Count(n), Count(n) - 1}
<1>1. /\ MinKeys \in Nat /\ MinKeys >= 1 /\ MaxKeys \in Nat /\ MaxKeys = 2 * MinKeys + 1
  BY Bounds
<1>2. /\ n.kids \in Seq(Nodes(E, S)) /\ Count(n) \in Nat /\ Len(n.kids) = Count(n) + 1
      /\ DOMAIN n.kids = 1 .. Count(n) + 1 /\ i \in 1 .. Count(n) + 1
  <2>1. n.kids \in Seq(Nodes(E, S)) /\ Len(n.kids) = Count(n) + 1 /\ Count(n) \in Nat
    BY Nodes_ DEF Shaped
  <2> QED  BY <2>1
<1> DEFINE Roomy(m, a) == /\ a \in DOMAIN m.kids /\ Count(m.kids[a]) > MinKeys
                          /\ Bounded(m)
                          /\ Count(m) \in {Count(n), Count(n) - 1}
<1>3. \A a \in 1 .. Count(n) + 1 : Count(n.kids[a]) \in MinKeys .. MaxKeys
  BY <1>2 DEF Bounded
<1>4. ASSUME Count(n.kids[i]) # MinKeys PROVE Roomy(n, i)
  BY <1>1, <1>2, <1>3, <1>4
<1>5. ASSUME Count(n.kids[i]) = MinKeys,
             i \in 2 .. Count(n) + 1, Count(n.kids[i - 1]) > MinKeys
      PROVE  Roomy(BorrowLeft(n, i), i)
  <2> DEFINE b == BorrowLeft(n, i)
  <2>1. i - 1 \in 1 .. Count(n) + 1
    BY <1>2, <1>5
  <2>2. Count(n.kids[i - 1]) \in MinKeys .. MaxKeys
    BY <1>3, <2>1
  <2>3. Count(n.kids[i - 1]) >= 1
    BY <1>1, <1>5, <2>2
  <2>4. /\ b \in Nodes(E, Nodes(E, S)) /\ Count(b) = Count(n) /\ Len(b.kids) = Len(n.kids)
        /\ Count(b.kids[i - 1]) = Count(n.kids[i - 1]) - 1
        /\ Count(b.kids[i]) = Count(n.kids[i]) + 1
        /\ \A j \in DOMAIN n.kids : j # i /\ j # i - 1 => b.kids[j] = n.kids[j]
    BY <1>5, <2>3, BorrowLeftIs
  <2> HIDE DEF b
  <2>5. DOMAIN b.kids = 1 .. Count(n) + 1
    <3>1. b.kids \in Seq(Nodes(E, S))
      BY <2>4, Nodes_
    <3> QED  BY <1>2, <2>4, <3>1
  <2>6. Count(b.kids[i]) \in MinKeys .. MaxKeys /\ Count(b.kids[i]) > MinKeys
    <3>1. Count(b.kids[i]) = MinKeys + 1
      BY <1>5, <2>4
    <3>2. MinKeys + 1 \in MinKeys .. MaxKeys /\ MinKeys + 1 > MinKeys
      BY <1>1
    <3> QED  BY <3>1, <3>2
  <2>7. Count(b.kids[i - 1]) \in MinKeys .. MaxKeys
    <3>1. PICK p \in MinKeys .. MaxKeys : p = Count(n.kids[i - 1]) /\ p > MinKeys
      BY <1>5, <2>2
    <3>2. p - 1 \in MinKeys .. MaxKeys
      BY <1>1, <3>1
    <3> QED  BY <2>4, <3>1, <3>2
  <2>8. Bounded(b)
    BY <1>2, <1>3, <2>4, <2>5, <2>6, <2>7 DEF Bounded
  <2> QED  BY <1>2, <2>4, <2>5, <2>6, <2>8 DEF b
<1>6. ASSUME Count(n.kids[i]) = MinKeys,
             i \in 1 .. Count(n), Count(n.kids[i + 1]) > MinKeys
      PROVE  Roomy(BorrowRight(n, i), i)
  <2> DEFINE b == BorrowRight(n, i)
  <2>1. i + 1 \in 1 .. Count(n) + 1
    BY <1>2, <1>6
  <2>2. Count(n.kids[i + 1]) \in MinKeys .. MaxKeys
    BY <1>3, <2>1
  <2>3. Count(n.kids[i + 1]) >= 1
    BY <1>1, <1>6, <2>2
  <2>4. /\ b \in Nodes(E, Nodes(E, S)) /\ Count(b) = Count(n) /\ Len(b.kids) = Len(n.kids)
        /\ Count(b.kids[i + 1]) = Count(n.kids[i + 1]) - 1
        /\ Count(b.kids[i]) = Count(n.kids[i]) + 1
        /\ \A j \in DOMAIN n.kids : j # i /\ j # i + 1 => b.kids[j] = n.kids[j]
    BY <1>6, <2>3, BorrowRightIs
  <2> HIDE DEF b
  <2>5. DOMAIN b.kids = 1 .. Count(n) + 1
    <3>1. b.kids \in Seq(Nodes(E, S))
      BY <2>4, Nodes_
    <3> QED  BY <1>2, <2>4, <3>1
  <2>6. Count(b.kids[i]) \in MinKeys .. MaxKeys /\ Count(b.kids[i]) > MinKeys
    <3>1. Count(b.kids[i]) = MinKeys + 1
      BY <1>6, <2>4
    <3>2. MinKeys + 1 \in MinKeys .. MaxKeys /\ MinKeys + 1 > MinKeys
      BY <1>1
    <3> QED  BY <3>1, <3>2
  <2>7. Count(b.kids[i + 1]) \in MinKeys .. MaxKeys
    <3>1. PICK p \in MinKeys .. MaxKeys : p = Count(n.kids[i + 1]) /\ p > MinKeys
      BY <1>6, <2>2
    <3>2. p - 1 \in MinKeys .. MaxKeys
      BY <1>1, <3>1
    <3> QED  BY <2>4, <3>1, <3>2
  <2>8. Bounded(b)
    BY <1>2, <1>3, <2>4, <2>5, <2>6, <2>7 DEF Bounded
  <2> QED  BY <1>2, <2>4, <2>5, <2>6, <2>8 DEF b
<1>7. ASSUME NEW j \in 1 .. Count(n),
             ~ Count(n.kids[j]) > MinKeys, ~ Count(n.kids[j + 1]) > MinKeys
      PROVE  Roomy(Merge(n, j), j)
  <2> DEFINE x == Merge(n, j)
  <2>1. /\ Count(x) = Count(n) - 1 /\ j \in DOMAIN x.kids
        /\ Count(x.kids[j]) = Count(n.kids[j]) + 1 + Count(n.kids[j + 1])
        /\ \A a \in DOMAIN x.kids : a < j => x.kids[a] = n.kids[a]
        /\ \A a \in DOMAIN x.kids : a > j => x.kids[a] = n.kids[a + 1]
        /\ \A a \in DOMAIN x.kids : a \in DOMAIN n.kids /\ a + 1 \in DOMAIN n.kids
    BY MergeSizes
  <2>2. DOMAIN x.kids \subseteq Nat
    <3>1. x \in Nodes(E, Nodes(E, S))
      BY MergeKeepsWalk
    <3>2. x.kids \in Seq(Nodes(E, S))
      BY <3>1, Nodes_
    <3> QED  BY <3>2
  <2> HIDE DEF x
  <2>3. j + 1 \in 1 .. Count(n) + 1 /\ j \in 1 .. Count(n) + 1 /\ j \in Nat
    BY <1>2
  <2>4. Count(n.kids[j]) \in MinKeys .. MaxKeys /\ Count(n.kids[j + 1]) \in MinKeys .. MaxKeys
    BY <1>3, <2>3
  <2>5. Count(n.kids[j]) = MinKeys /\ Count(n.kids[j + 1]) = MinKeys
    BY <1>1, <1>7, <2>4
  <2>6. Count(x.kids[j]) = MaxKeys /\ MaxKeys \in MinKeys .. MaxKeys /\ MaxKeys > MinKeys
    BY <1>1, <2>1, <2>5
  <2>7. ASSUME NEW a \in DOMAIN x.kids PROVE Count(x.kids[a]) \in MinKeys .. MaxKeys
    <3>1. a < j \/ a = j \/ a > j
      BY <2>2, <2>3
    <3>2. a \in 1 .. Count(n) + 1 /\ a + 1 \in 1 .. Count(n) + 1
      BY <1>2, <2>1
    <3> QED  BY <1>3, <2>1, <2>6, <3>1, <3>2
  <2>8. Bounded(x)
    BY <2>7 DEF Bounded
  <2> QED  BY <2>1, <2>6, <2>8 DEF x
<1> HIDE DEF Roomy
<1>8. Roomy(Refill(n, i).node, Refill(n, i).at)
  <2>1. \/ /\ Count(n.kids[i]) # MinKeys
           /\ Refill(n, i).node = n /\ Refill(n, i).at = i
        \/ /\ Count(n.kids[i]) = MinKeys
           /\ i \in 2 .. Count(n) + 1 /\ Count(n.kids[i - 1]) > MinKeys
           /\ Refill(n, i).node = BorrowLeft(n, i) /\ Refill(n, i).at = i
        \/ /\ Count(n.kids[i]) = MinKeys
           /\ i \in 1 .. Count(n) /\ Count(n.kids[i + 1]) > MinKeys
           /\ Refill(n, i).node = BorrowRight(n, i) /\ Refill(n, i).at = i
        \/ \E j \in 1 .. Count(n) :
              /\ ~ Count(n.kids[j]) > MinKeys /\ ~ Count(n.kids[j + 1]) > MinKeys
              /\ Refill(n, i).node = Merge(n, j) /\ Refill(n, i).at = j
    BY RefillCases
  <2> QED  BY <1>4, <1>5, <1>6, <1>7, <2>1
<1> QED  BY <1>8 DEF Roomy

\* node_split_child, in a tree of even order: the halves are as small as a node
\* may be, so that the insertion, which goes on with one of them, finds room, and
\* no child is out of its bounds.
THEOREM SplitKeepsBounds ==
    ASSUME Order, MaxChildren % 2 = 0,
           NEW E, NEW S, NEW n \in Nodes(E, Nodes(E, S)), Shaped(n), Bounded(n),
           NEW i \in DOMAIN n.kids, Count(n.kids[i]) = MaxKeys
    PROVE  /\ Bounded(SplitChild(n, i))
           /\ Count(SplitChild(n, i)) = Count(n) + 1
           /\ Count(SplitChild(n, i).kids[i]) = MinKeys
           /\ Count(SplitChild(n, i).kids[i + 1]) = MinKeys
<1> DEFINE m == SplitChild(n, i)
<1>1. /\ MinKeys \in Nat /\ MaxKeys \in Nat /\ MaxKeys = 2 * MinKeys + 1
      /\ SplitIndex = MinKeys
  BY Bounds
<1>2. m \in Nodes(E, Nodes(E, S)) /\ IsSplit(n, m, i, SplitIndex + 1)
  BY SplitIs
<1> HIDE DEF m
<1>3. /\ Count(m) = Count(n) + 1 /\ Len(m.kids) = Len(n.kids) + 1
      /\ Count(m.kids[i]) = (MinKeys + 1) - 1
      /\ Count(m.kids[i + 1]) = MaxKeys - (MinKeys + 1)
      /\ \A j \in DOMAIN n.kids : j < i => m.kids[j] = n.kids[j]
      /\ \A j \in DOMAIN n.kids : j > i => m.kids[j + 1] = n.kids[j]
  BY <1>1, <1>2 DEF IsSplit, Count
<1>4. Count(m.kids[i]) = MinKeys /\ Count(m.kids[i + 1]) = MinKeys
  <2>1. (MinKeys + 1) - 1 = MinKeys /\ MaxKeys - (MinKeys + 1) = MinKeys
    BY <1>1
  <2> QED  BY <1>3, <2>1
<1>5. PICK l \in Nat : /\ DOMAIN n.kids = 1 .. l /\ DOMAIN m.kids = 1 .. l + 1
                       /\ i \in 1 .. l
  <2>1. n.kids \in Seq(Nodes(E, S)) /\ m.kids \in Seq(Nodes(E, S))
    BY <1>2, Nodes_
  <2>2. /\ Len(n.kids) \in Nat /\ DOMAIN n.kids = 1 .. Len(n.kids)
        /\ DOMAIN m.kids = 1 .. Len(m.kids)
    BY <2>1
  <2> QED  BY <1>3, <2>2
<1>6. ASSUME NEW a \in 1 .. l + 1 PROVE Count(m.kids[a]) \in MinKeys .. MaxKeys
  <2>1. CASE a < i
    <3>1. a \in DOMAIN n.kids
      BY <1>5, <2>1
    <3> QED  BY <1>3, <2>1, <3>1 DEF Bounded
  <2>2. CASE a = i \/ a = i + 1
    <3>1. MinKeys \in MinKeys .. MaxKeys
      BY <1>1
    <3> QED  BY <1>4, <2>2, <3>1
  <2>3. CASE a > i + 1
    <3>1. a - 1 \in DOMAIN n.kids /\ a - 1 > i /\ (a - 1) + 1 = a
      BY <1>5, <2>3
    <3> QED  BY <1>3, <3>1 DEF Bounded
  <2> QED  BY <1>5, <2>1, <2>2, <2>3
<1>7. Bounded(m)
  BY <1>5, <1>6 DEF Bounded
<1> QED  BY <1>3, <1>4, <1>7 DEF m

\* In a tree of odd order the halves cannot both keep to the bound: the new node
\* is made one entry short of what a deletion counts on (btree.c:55, :265).
THEOREM OddSplitUnderflows ==
    ASSUME Order, MaxChildren % 2 = 1,
           NEW E, NEW S, NEW n \in Nodes(E, Nodes(E, S)), Shaped(n),
           NEW i \in DOMAIN n.kids, Count(n.kids[i]) = MaxKeys
    PROVE  Count(SplitChild(n, i).kids[i + 1]) = MinKeys - 1
<1>1. /\ MinKeys \in Nat /\ MaxKeys \in Nat /\ MaxKeys = 2 * MinKeys
      /\ SplitIndex = MinKeys
  BY Bounds
<1>2. IsSplit(n, SplitChild(n, i), i, SplitIndex + 1)
  BY SplitIs
<1>3. Count(SplitChild(n, i).kids[i + 1]) = MaxKeys - (MinKeys + 1)
  BY <1>1, <1>2 DEF IsSplit, Count
<1>4. MaxKeys - (MinKeys + 1) = MinKeys - 1
  BY <1>1
<1> QED  BY <1>3, <1>4

\* ... and two children that are as small as they may be, merged with the entry
\* between them, are one entry more than a node has room for (btree.c:265).
THEOREM OddMergeOverflows ==
    ASSUME Order, MaxChildren % 2 = 1,
           NEW E, NEW S, NEW n \in Nodes(E, Nodes(E, S)), Shaped(n),
           NEW i \in 1 .. Count(n),
           Count(n.kids[i]) = MinKeys, Count(n.kids[i + 1]) = MinKeys
    PROVE  Count(Merge(n, i).kids[i]) = MaxKeys + 1
<1>1. MinKeys \in Nat /\ MaxKeys = 2 * MinKeys
  BY Bounds
<1>2. MinKeys + 1 + MinKeys = MaxKeys + 1
  BY <1>1
<1>3. Count(Merge(n, i).kids[i]) = Count(n.kids[i]) + 1 + Count(n.kids[i + 1])
  BY MergeIs
<1> QED  BY <1>2, <1>3

-----------------------------------------------------------------------------
(* The scans over a node's keys                                              *)

\* The keys of a node increase.
Entries(V) == [key : Nat, val : V]
Rising(s)  == \A a, b \in DOMAIN s : a < b => s[a].key < s[b].key

LEMMA NotGreaterStops ==
    ASSUME NEW E, NEW S, NEW n \in Nodes(E, S), NEW k
    PROVE  /\ NotGreater(n, k) \in 0 .. Count(n)
           /\ NotGreater(n, k) # 0 => n.ents[NotGreater(n, k)].key <= k
           /\ \A j \in DOMAIN n.ents : j > NotGreater(n, k) => ~(n.ents[j].key <= k)
<1>1. Count(n) \in Nat /\ DOMAIN n.ents = 1 .. Count(n)
  BY Nodes_
<1> DEFINE low == {j \in DOMAIN n.ents : n.ents[j].key <= k} \cup {0}
           c   == Count(n)
<1>2. low \subseteq 0 .. c /\ 0 \in low
  BY <1>1
<1>3. \A j \in DOMAIN n.ents : j \in low <=> n.ents[j].key <= k
  BY <1>1
<1>4. NotGreater(n, k) = Max(low)
  BY DEF NotGreater
<1> HIDE DEF low
<1>5. \E x \in low : \A y \in low : x >= y
  <2> DEFINE T == {j \in Nat : c - j \in low}
  <2>1. T \subseteq Nat /\ c \in T
    BY <1>1, <1>2
  <2>2. PICK m \in T : \A y \in T : m <= y
    <3> HIDE DEF T
    <3> QED  BY <2>1, LeastNat
  <2>3. m \in Nat /\ c - m \in low
    BY <2>2
  <2>4. ASSUME NEW y \in low PROVE c - m >= y
    <3>1. y \in 0 .. c /\ c - (c - y) = y /\ c - y \in Nat
      BY <1>1, <1>2
    <3>2. c - y \in T
      BY <3>1
    <3> HIDE DEF T, c
    <3>3. m <= c - y /\ c \in Nat
      BY <1>1, <2>2, <3>2 DEF c
    <3> QED  BY <2>3, <3>1, <3>3
  <2> QED  BY <2>3, <2>4
<1>6. Max(low) \in low /\ \A y \in low : Max(low) >= y
  BY <1>5 DEF Max
<1> DEFINE i == NotGreater(n, k)
<1>7. i \in low /\ i \in 0 .. c /\ \A y \in low : i >= y
  BY <1>2, <1>4, <1>6
<1> HIDE DEF i
<1>8. i # 0 => n.ents[i].key <= k
  BY <1>1, <1>3, <1>7
<1>9. ASSUME NEW j \in DOMAIN n.ents, j > i PROVE ~(n.ents[j].key <= k)
  BY <1>1, <1>3, <1>7, <1>9
<1> QED  BY <1>7, <1>8, <1>9 DEF i

LEMMA NotGreaterIs ==
    ASSUME NEW V, NEW S, NEW n \in Nodes(Entries(V), S), Rising(n.ents), NEW k \in Nat
    PROVE  /\ NotGreater(n, k) \in 0 .. Count(n)
           /\ \A j \in DOMAIN n.ents : j <= NotGreater(n, k) => n.ents[j].key <= k
           /\ \A j \in DOMAIN n.ents : j > NotGreater(n, k) => n.ents[j].key > k
<1>1. /\ Count(n) \in Nat /\ DOMAIN n.ents = 1 .. Count(n)
      /\ \A j \in DOMAIN n.ents : n.ents[j].key \in Nat
  <2>1. n.ents \in Seq(Entries(V)) /\ Count(n) \in Nat /\ DOMAIN n.ents = 1 .. Count(n)
    BY Nodes_
  <2>2. \A j \in DOMAIN n.ents : n.ents[j] \in Entries(V)
    BY <2>1
  <2> QED  BY <2>1, <2>2 DEF Entries
<1>2. PICK i : i = NotGreater(n, k)
  OBVIOUS
<1>3. /\ i \in 0 .. Count(n) /\ (i # 0 => n.ents[i].key <= k)
      /\ \A j \in DOMAIN n.ents : j > i => ~(n.ents[j].key <= k)
  BY <1>2, NotGreaterStops
<1>4. ASSUME NEW j \in DOMAIN n.ents, j <= i PROVE n.ents[j].key <= k
  <2>1. i \in DOMAIN n.ents /\ j \in Nat /\ i \in Nat
    BY <1>1, <1>3, <1>4
  <2>2. n.ents[i].key <= k
    BY <1>1, <1>3, <2>1
  <2>3. j = i \/ n.ents[j].key < n.ents[i].key
    BY <1>4, <2>1 DEF Rising
  <2> QED  BY <1>1, <2>1, <2>2, <2>3
<1>5. ASSUME NEW j \in DOMAIN n.ents, j > i PROVE n.ents[j].key > k
  BY <1>1, <1>3, <1>5
<1> QED  BY <1>2, <1>3, <1>4, <1>5

LEMMA NotLessStops ==
    ASSUME NEW E, NEW S, NEW n \in Nodes(E, S), NEW k
    PROVE  /\ NotLess(n, k) \in 1 .. Count(n) + 1
           /\ NotLess(n, k) # Count(n) + 1 => n.ents[NotLess(n, k)].key >= k
           /\ \A j \in DOMAIN n.ents : j < NotLess(n, k) => ~(n.ents[j].key >= k)
<1>1. Count(n) \in Nat /\ DOMAIN n.ents = 1 .. Count(n)
  BY Nodes_
<1> DEFINE high == {j \in DOMAIN n.ents : n.ents[j].key >= k} \cup {Count(n) + 1}
           c    == Count(n)
<1>2. high \subseteq 1 .. c + 1 /\ high \subseteq Nat /\ c + 1 \in high
  BY <1>1
<1>3. \A j \in DOMAIN n.ents : j \in high <=> n.ents[j].key >= k
  BY <1>1
<1>4. NotLess(n, k) = Min(high)
  BY DEF NotLess
<1> HIDE DEF high
<1>5. \E x \in high : \A y \in high : x <= y
  BY <1>2, LeastNat
<1>6. Min(high) \in high /\ \A y \in high : Min(high) <= y
  BY <1>5 DEF Min
<1> DEFINE i == NotLess(n, k)
<1>7. i \in high /\ i \in 1 .. c + 1 /\ \A y \in high : i <= y
  BY <1>2, <1>4, <1>6
<1> HIDE DEF i
<1>8. i # c + 1 => n.ents[i].key >= k
  BY <1>1, <1>3, <1>7
<1>9. ASSUME NEW j \in DOMAIN n.ents, j < i PROVE ~(n.ents[j].key >= k)
  BY <1>1, <1>3, <1>7, <1>9
<1> QED  BY <1>7, <1>8, <1>9 DEF i

LEMMA NotLessIs ==
    ASSUME NEW V, NEW S, NEW n \in Nodes(Entries(V), S), Rising(n.ents), NEW k \in Nat
    PROVE  /\ NotLess(n, k) \in 1 .. Count(n) + 1
           /\ \A j \in DOMAIN n.ents : j < NotLess(n, k) => n.ents[j].key < k
           /\ \A j \in DOMAIN n.ents : j >= NotLess(n, k) => n.ents[j].key >= k
<1>1. /\ Count(n) \in Nat /\ DOMAIN n.ents = 1 .. Count(n)
      /\ \A j \in DOMAIN n.ents : n.ents[j].key \in Nat
  <2>1. n.ents \in Seq(Entries(V)) /\ Count(n) \in Nat /\ DOMAIN n.ents = 1 .. Count(n)
    BY Nodes_
  <2>2. \A j \in DOMAIN n.ents : n.ents[j] \in Entries(V)
    BY <2>1
  <2> QED  BY <2>1, <2>2 DEF Entries
<1>2. PICK i : i = NotLess(n, k)
  OBVIOUS
<1>3. /\ i \in 1 .. Count(n) + 1 /\ (i # Count(n) + 1 => n.ents[i].key >= k)
      /\ \A j \in DOMAIN n.ents : j < i => ~(n.ents[j].key >= k)
  BY <1>2, NotLessStops
<1>4. ASSUME NEW j \in DOMAIN n.ents, j < i PROVE n.ents[j].key < k
  BY <1>1, <1>3, <1>4
<1>5. ASSUME NEW j \in DOMAIN n.ents, j >= i PROVE n.ents[j].key >= k
  <2>1. i \in DOMAIN n.ents /\ j \in Nat /\ i \in Nat
    BY <1>1, <1>3, <1>5
  <2>2. n.ents[i].key >= k
    BY <1>1, <1>3, <2>1
  <2>3. j = i \/ n.ents[i].key < n.ents[j].key
    BY <1>5, <2>1 DEF Rising
  <2> QED  BY <1>1, <2>1, <2>2, <2>3
<1> QED  BY <1>2, <1>3, <1>4, <1>5

\* btree_search_node, btree_update and btree_delete_node: the scan stops at the
\* key if the node has it; if not, at the child that lies between the greatest
\* lesser and the least greater key.
THEOREM ScanFindsKey ==
    ASSUME NEW V, NEW S, NEW n \in Nodes(Entries(V), S), Rising(n.ents), NEW k \in Nat
    PROVE  /\ Holds(n, NotLess(n, k), k) <=> \E j \in DOMAIN n.ents : n.ents[j].key = k
           /\ ~Holds(n, NotLess(n, k), k) =>
                 \A j \in DOMAIN n.ents : IF j < NotLess(n, k) THEN n.ents[j].key < k
                                         ELSE n.ents[j].key > k
<1>1. /\ Count(n) \in Nat /\ DOMAIN n.ents = 1 .. Count(n)
      /\ \A j \in DOMAIN n.ents : n.ents[j].key \in Nat
  <2>1. n.ents \in Seq(Entries(V)) /\ Count(n) \in Nat /\ DOMAIN n.ents = 1 .. Count(n)
    BY Nodes_
  <2>2. \A j \in DOMAIN n.ents : n.ents[j] \in Entries(V)
    BY <2>1
  <2> QED  BY <2>1, <2>2 DEF Entries
<1>2. PICK i \in 1 .. Count(n) + 1 :
         /\ i = NotLess(n, k)
         /\ \A j \in DOMAIN n.ents : j < i => n.ents[j].key < k
         /\ \A j \in DOMAIN n.ents : j >= i => n.ents[j].key >= k
  BY NotLessIs
<1>3. ASSUME NEW j \in DOMAIN n.ents, n.ents[j].key = k PROVE Holds(n, i, k)
  <2>1. j >= i /\ i \in DOMAIN n.ents /\ j \in Nat /\ i \in Nat
    BY <1>1, <1>2, <1>3
  <2>2. n.ents[i].key >= k
    BY <1>2, <2>1
  <2>3. j = i \/ n.ents[i].key < n.ents[j].key
    BY <2>1 DEF Rising
  <2>4. j = i
    BY <1>1, <1>3, <2>1, <2>2, <2>3
  <2> QED  BY <1>3, <2>4 DEF Holds
<1>4. ASSUME NEW j \in DOMAIN n.ents, ~Holds(n, i, k), ~(j < i) PROVE n.ents[j].key > k
  <2>1. j >= i /\ n.ents[j].key # k
    BY <1>1, <1>2, <1>3, <1>4
  <2> QED  BY <1>1, <1>2, <2>1
<1>5. Holds(n, i, k) <=> \E j \in DOMAIN n.ents : n.ents[j].key = k
  BY <1>3 DEF Holds
<1> QED  BY <1>2, <1>4, <1>5

\* btree_insert_non_full: a key that the leaf does not hold goes to its place,
\* and the other entries stay.
THEOREM LeafInsertKeepsOrder ==
    ASSUME NEW V, NEW S, NEW n \in Nodes(Entries(V), S), Rising(n.ents),
           NEW k \in Nat, NEW v \in V, \A j \in DOMAIN n.ents : n.ents[j].key # k
    PROVE  LET s == LeafInsert(n.ents, NotGreater(n, k), k, v)
           IN  /\ s \in Seq(Entries(V)) /\ Len(s) = Count(n) + 1
               /\ Rising(s)
               /\ {s[j] : j \in DOMAIN s}
                     = {n.ents[j] : j \in DOMAIN n.ents} \cup {Entry(k, v)}
<1> DEFINE t == n.ents
           e == Entry(k, v)
           s == LeafInsert(n.ents, NotGreater(n, k), k, v)
           c == Count(n)
<1>1. /\ t \in Seq(Entries(V)) /\ c \in Nat /\ DOMAIN t = 1 .. c /\ Len(t) = c
      /\ \A j \in DOMAIN t : t[j].key \in Nat
  <2>1. t \in Seq(Entries(V)) /\ c \in Nat /\ DOMAIN t = 1 .. c /\ Len(t) = c
    BY Nodes_ DEF Count
  <2>2. \A j \in DOMAIN t : t[j] \in Entries(V)
    BY <2>1
  <2> QED  BY <2>1, <2>2 DEF Entries
<1>2. e \in Entries(V) /\ e.key = k
  BY DEF Entries, Entry
<1>3. PICK i \in 0 .. c :
         /\ i = NotGreater(n, k)
         /\ \A j \in DOMAIN t : j <= i => t[j].key <= k
         /\ \A j \in DOMAIN t : j > i => t[j].key > k
  BY NotGreaterIs
<1>4. s = InsertAt(t, i + 1, e)
  BY <1>3 DEF LeafInsert
<1> HIDE DEF t, e, s, c
<1>5. /\ s \in Seq(Entries(V)) /\ Len(s) = c + 1
      /\ \A j \in 1 .. i : s[j] = t[j]
      /\ s[i + 1] = e
      /\ \A j \in i + 1 .. c : s[j + 1] = t[j]
  <2>1. PICK p \in 1 .. Len(t) + 1 : p = i + 1 /\ p - 1 = i
    BY <1>1
  <2>2. /\ InsertAt(t, p, e) \in Seq(Entries(V)) /\ Len(InsertAt(t, p, e)) = Len(t) + 1
        /\ \A j \in 1 .. p - 1 : InsertAt(t, p, e)[j] = t[j]
        /\ InsertAt(t, p, e)[p] = e
        /\ \A j \in p .. Len(t) : InsertAt(t, p, e)[j + 1] = t[j]
    <3> DEFINE T == Entries(V)
    <3>1. t \in Seq(T) /\ e \in T
      BY <1>1, <1>2
    <3> HIDE DEF T
    <3>2. \A x \in Seq(T) : \A q \in 1 .. Len(x) + 1 : \A f \in T :
             /\ InsertAt(x, q, f) \in Seq(T) /\ Len(InsertAt(x, q, f)) = Len(x) + 1
             /\ \A j \in 1 .. q - 1 : InsertAt(x, q, f)[j] = x[j]
             /\ InsertAt(x, q, f)[q] = f
             /\ \A j \in q .. Len(x) : InsertAt(x, q, f)[j + 1] = x[j]
      BY Inserted
    <3>3. /\ InsertAt(t, p, e) \in Seq(T) /\ Len(InsertAt(t, p, e)) = Len(t) + 1
          /\ \A j \in 1 .. p - 1 : InsertAt(t, p, e)[j] = t[j]
          /\ InsertAt(t, p, e)[p] = e
          /\ \A j \in p .. Len(t) : InsertAt(t, p, e)[j + 1] = t[j]
      BY <2>1, <3>1, <3>2
    <3> QED  BY <3>3 DEF T
  <2>3. InsertAt(t, p, e) = s
    BY <1>4, <2>1
  <2> HIDE DEF Count
  <2> QED  BY <1>1, <2>1, <2>2, <2>3
<1>6. DOMAIN s = 1 .. c + 1
  BY <1>1, <1>5
<1>7. ASSUME NEW a \in DOMAIN s
      PROVE  \/ a \in 1 .. i /\ a \in DOMAIN t /\ s[a] = t[a] /\ t[a].key < k
             \/ a = i + 1 /\ s[a] = e
             \/ /\ a > i + 1 /\ a - 1 \in DOMAIN t /\ a - 1 > i
                /\ s[a] = t[a - 1] /\ t[a - 1].key > k
  <2>1. CASE a \in 1 .. i
    <3>1. a \in DOMAIN t /\ a <= i
      BY <1>1, <2>1
    <3>2. t[a].key <= k /\ t[a].key # k
      BY <1>3, <3>1 DEF t
    <3> QED  BY <1>1, <1>5, <2>1, <3>1, <3>2
  <2>2. CASE a = i + 1
    BY <1>5, <2>2
  <2>3. CASE a > i + 1
    <3>1. a - 1 \in i + 1 .. c /\ a - 1 \in DOMAIN t /\ a - 1 > i /\ (a - 1) + 1 = a
      BY <1>1, <1>6, <2>3
    <3>2. s[(a - 1) + 1] = t[a - 1]
      BY <1>5, <3>1
    <3>3. t[a - 1].key > k
      BY <1>3, <3>1
    <3> QED  BY <2>3, <3>1, <3>2, <3>3
  <2> QED  BY <1>1, <1>6, <2>1, <2>2, <2>3
<1>8. ASSUME NEW a \in DOMAIN s, NEW b \in DOMAIN s, a < b PROVE s[a].key < s[b].key
  <2>1. a \in Nat /\ b \in Nat /\ i \in Nat
    BY <1>1, <1>6
  <2>2. CASE a \in 1 .. i
    <3>1. a \in DOMAIN t /\ s[a] = t[a] /\ t[a].key < k
      BY <1>7, <2>1, <2>2
    <3>2. CASE b \in 1 .. i
      <4>1. b \in DOMAIN t /\ s[b] = t[b]
        BY <1>7, <2>1, <3>2
      <4> QED  BY <1>8, <3>1, <4>1 DEF Rising, t
    <3>3. CASE b = i + 1
      BY <1>2, <1>5, <3>1, <3>3
    <3>4. CASE b > i + 1
      <4>1. s[b] = t[b - 1] /\ t[b - 1].key > k /\ b - 1 \in DOMAIN t
        BY <1>7, <2>1, <3>4
      <4> QED  BY <1>1, <3>1, <4>1
    <3> QED  BY <1>6, <2>1, <3>2, <3>3, <3>4
  <2>3. CASE a = i + 1
    <3>1. s[b] = t[b - 1] /\ t[b - 1].key > k
      BY <1>7, <1>8, <2>1, <2>3
    <3> QED  BY <1>2, <1>5, <2>3, <3>1
  <2>4. CASE a > i + 1
    <3>1. /\ s[a] = t[a - 1] /\ a - 1 \in DOMAIN t
      BY <1>7, <2>1, <2>4
    <3>2. s[b] = t[b - 1] /\ b - 1 \in DOMAIN t
      BY <1>7, <1>8, <2>1, <2>4
    <3>3. a - 1 < b - 1
      BY <1>8, <2>1
    <3> QED  BY <3>1, <3>2, <3>3 DEF Rising, t
  <2> QED  BY <1>6, <1>7, <2>1, <2>2, <2>3, <2>4
<1>9. {s[j] : j \in DOMAIN s} = {t[j] : j \in DOMAIN t} \cup {e}
  <2>1. \A j \in DOMAIN s : s[j] \in {t[l] : l \in DOMAIN t} \cup {e}
    BY <1>7
  <2>2. i + 1 \in DOMAIN s /\ e = s[i + 1]
    BY <1>1, <1>5, <1>6
  <2>3. ASSUME NEW j \in DOMAIN t PROVE t[j] \in {s[l] : l \in DOMAIN s}
    <3>1. CASE j <= i
      <4>1. j \in 1 .. i /\ j \in DOMAIN s
        BY <1>1, <1>6, <3>1
      <4> QED  BY <1>5, <4>1
    <3>2. CASE j > i
      <4>1. j \in i + 1 .. c /\ j + 1 \in DOMAIN s
        BY <1>1, <1>6, <3>2
      <4> QED  BY <1>5, <4>1
    <3> QED  BY <1>1, <3>1, <3>2
  <2> QED  BY <2>1, <2>2, <2>3
<1> QED  BY <1>5, <1>8, <1>9 DEF Rising, s, t, e, c

\* ... but a key it holds, with more than one greater key after it, leaves the
\* next key in the node twice: the scan has moved the greater entries up, and
\* nothing fills or closes the place (btree.c:104, :112).
THEOREM ReinsertDuplicates ==
    ASSUME NEW V, NEW S, NEW n \in Nodes(Entries(V), S), Rising(n.ents), NEW v \in V,
           NEW i \in 1 .. Count(n) - 2
    PROVE  LET k == n.ents[i].key
               s == LeafInsert(n.ents, NotGreater(n, k), k, v)
           IN  Len(s) = Count(n) /\ s[i + 2] = s[i + 1] /\ ~Rising(s)
<1> DEFINE k == n.ents[i].key
           s == LeafInsert(n.ents, NotGreater(n, k), k, v)
           c == Count(n)
<1>1. /\ c \in Nat /\ DOMAIN n.ents = 1 .. c /\ Len(n.ents) = c
      /\ \A j \in DOMAIN n.ents : n.ents[j] \in Entries(V) /\ n.ents[j].key \in Nat
  <2>1. /\ n.ents \in Seq(Entries(V)) /\ c \in Nat /\ DOMAIN n.ents = 1 .. c
        /\ Len(n.ents) = c
    BY Nodes_ DEF Count
  <2>2. \A j \in DOMAIN n.ents : n.ents[j] \in Entries(V)
    BY <2>1
  <2> QED  BY <2>1, <2>2 DEF Entries
<1>2. i \in DOMAIN n.ents /\ i + 1 \in DOMAIN n.ents /\ i + 2 \in DOMAIN n.ents /\ i \in Nat
  BY <1>1
<1>3. k \in Nat
  BY <1>1, <1>2
<1>4. NotGreater(n, k) = i
  <2>1. PICK p \in 0 .. c :
           /\ p = NotGreater(n, k)
           /\ \A j \in DOMAIN n.ents : j <= p => n.ents[j].key <= k
           /\ \A j \in DOMAIN n.ents : j > p => n.ents[j].key > k
    BY <1>3, NotGreaterIs
  <2>2. i <= p
    BY <1>2, <1>3, <2>1
  <2>3. ~(i < p)
    <3>1. SUFFICES ASSUME i < p PROVE FALSE
      OBVIOUS
    <3>2. p \in DOMAIN n.ents
      BY <1>1, <1>2, <3>1
    <3>3. n.ents[i].key < n.ents[p].key /\ n.ents[p].key <= k
      BY <1>2, <2>1, <3>1, <3>2 DEF Rising
    <3> QED  BY <1>1, <1>3, <3>2, <3>3
  <2> QED  BY <1>2, <2>1, <2>2, <2>3
<1>5. s = [j \in DOMAIN n.ents |-> IF j = i THEN Entry(k, v)
                                  ELSE IF j > i + 1 THEN n.ents[j - 1] ELSE n.ents[j]]
  BY <1>2, <1>4 DEF LeafInsert
<1> HIDE DEF s, c
<1>6. s[i + 1] = n.ents[i + 1] /\ s[i + 2] = n.ents[i + 1]
  <2>1. i + 1 # i /\ ~(i + 1 > i + 1) /\ i + 2 # i /\ i + 2 > i + 1 /\ (i + 2) - 1 = i + 1
    BY <1>2
  <2> QED  BY <1>2, <1>5, <2>1
<1>7. DOMAIN s = 1 .. c
  BY <1>1, <1>5
<1>8. Len(s) = c
  BY <1>1, <1>7
<1>9. ~Rising(s)
  <2>1. i + 1 \in DOMAIN s /\ i + 2 \in DOMAIN s /\ i + 1 < i + 2
    BY <1>1, <1>2, <1>7
  <2>2. s[i + 1].key \in Nat /\ s[i + 1].key = s[i + 2].key
    BY <1>1, <1>2, <1>6
  <2>3. ~(s[i + 1].key < s[i + 2].key)
    BY <2>2
  <2> QED  BY <2>1, <2>3 DEF Rising
<1> QED  BY <1>6, <1>8, <1>9 DEF s, c

\* A key that is the median of the full child an insertion is to go down to is in
\* the node itself once the child is split.  The insertion has compared it with the
\* node's keys before, goes on into the left half, as the key is not greater than
\* the one that has come up (btree.c:146), and meets smaller keys only: it
\* stores the key again.
THEOREM SplitHidesMedian ==
    ASSUME Order, NEW V, NEW S, NEW n \in Nodes(Entries(V), Nodes(Entries(V), S)), Shaped(n),
           NEW i \in DOMAIN n.kids, Count(n.kids[i]) = MaxKeys, Rising(n.kids[i].ents)
    PROVE  LET k == n.kids[i].ents[SplitIndex + 1].key
               m == SplitChild(n, i)
           IN  m.ents[i].key = k /\ \A j \in DOMAIN m.kids[i].ents : m.kids[i].ents[j].key < k
<1> DEFINE k == n.kids[i].ents[SplitIndex + 1].key
           m == SplitChild(n, i)
<1>1. m \in Nodes(Entries(V), Nodes(Entries(V), S)) /\ IsSplit(n, m, i, SplitIndex + 1)
  BY SplitIs
<1>2. /\ MaxKeys \in Nat /\ SplitIndex \in Nat /\ SplitIndex + 1 \in 1 .. MaxKeys
      /\ n.kids[i].ents \in Seq(Entries(V)) /\ DOMAIN n.kids[i].ents = 1 .. MaxKeys
  <2>1. n.kids[i] \in Nodes(Entries(V), S)
    BY Nodes_
  <2>2. n.kids[i].ents \in Seq(Entries(V))
    BY <2>1, Nodes_
  <2> QED  BY <2>2, Bounds DEF Count
<1> HIDE DEF m
<1>3. m.ents[i].key = k
  BY <1>1 DEF IsSplit
<1>4. ASSUME NEW j \in DOMAIN m.kids[i].ents PROVE m.kids[i].ents[j].key < k
  <2>1. m.kids[i].ents \in Seq(Entries(V))
    <3>1. m.kids \in Seq(Nodes(Entries(V), S)) /\ n.kids \in Seq(Nodes(Entries(V), S))
      BY <1>1, Nodes_
    <3>2. i \in DOMAIN m.kids
      BY <1>1, <3>1 DEF IsSplit
    <3>3. m.kids[i] \in Nodes(Entries(V), S)
      BY <3>1, <3>2
    <3> QED  BY <3>3, Nodes_
  <2>2. Len(m.kids[i].ents) = SplitIndex
    BY <1>1, <1>2 DEF IsSplit
  <2>3. j \in 1 .. SplitIndex
    BY <2>1, <2>2
  <2>4. m.kids[i].ents[j] = n.kids[i].ents[j]
    <3>1. \A p \in 1 .. (SplitIndex + 1) - 1 : m.kids[i].ents[p] = n.kids[i].ents[p]
      BY <1>1 DEF IsSplit
    <3>2. (SplitIndex + 1) - 1 = SplitIndex
      BY <1>2
    <3> QED  BY <2>3, <3>1, <3>2
  <2>5. j \in DOMAIN n.kids[i].ents /\ SplitIndex + 1 \in DOMAIN n.kids[i].ents /\ j < SplitIndex + 1
    BY <1>2, <2>3
  <2> QED  BY <2>4, <2>5 DEF Rising
<1> QED  BY <1>3, <1>4 DEF m

LEMMA LeafInsertIs ==
    ASSUME NEW V, NEW s \in Seq(Entries(V)), NEW i \in 0 .. Len(s), NEW k \in Nat, NEW v \in V
    PROVE  LET t == LeafInsert(s, i, k, v)
           IN  /\ t \in Seq(Entries(V))
               /\ Len(t) = IF i \in DOMAIN s /\ s[i].key = k THEN Len(s) ELSE Len(s) + 1
<1>1. Entry(k, v) \in Entries(V)
  BY DEF Entry, Entries
<1>2. PICK E : E = Entries(V) /\ s \in Seq(E)
  OBVIOUS
<1>3. PICK e \in E : e = Entry(k, v)
  BY <1>1, <1>2
<1>4. PICK n \in Nat : n = Len(s) /\ DOMAIN s = 1 .. n /\ \A j \in 1 .. n : s[j] \in E
  BY <1>2
<1>5. CASE i \in DOMAIN s /\ s[i].key = k
  <2> DEFINE f == [j \in 1 .. n |-> IF j = i THEN e ELSE IF j > i + 1 THEN s[j - 1] ELSE s[j]]
  <2>1. LeafInsert(s, i, k, v) = f
    BY <1>3, <1>4, <1>5 DEF LeafInsert
  <2>2. ASSUME NEW j \in 1 .. n
        PROVE  (IF j = i THEN e ELSE IF j > i + 1 THEN s[j - 1] ELSE s[j]) \in E
    <3>1. j > i + 1 => j - 1 \in 1 .. n
      BY <1>4, <1>5
    <3> QED  BY <3>1, <1>4
  <2>3. f \in [1 .. n -> E]
    BY <2>2
  <2> HIDE DEF f
  <2>4. f \in Seq(E) /\ Len(f) = n
    BY <2>3, FunctionIsSeq
  <2> QED  BY <2>1, <2>4, <1>2, <1>4, <1>5
<1>6. CASE ~(i \in DOMAIN s /\ s[i].key = k)
  <2>1. LeafInsert(s, i, k, v) = InsertAt(s, i + 1, e)
    BY <1>3, <1>6 DEF LeafInsert
  <2>2. i + 1 \in 1 .. Len(s) + 1
    BY <1>4
  <2>3. PICK j \in 1 .. Len(s) + 1 : j = i + 1
    BY <2>2
  <2>4. InsertAt(s, j, e) \in Seq(E) /\ Len(InsertAt(s, j, e)) = Len(s) + 1
    BY <1>2, Inserted
  <2> QED  BY <2>1, <2>3, <2>4, <1>2, <1>6
<1> QED  BY <1>5, <1>6

-----------------------------------------------------------------------------
(* Ranges of keys: a node's entries part its own into those of its children  *)

\* A range of keys, without its ends, and the one between two entries of a node
\* with range w, where a child or, in a leaf, nothing is.
Spans      == [lo : Int, hi : Int]
Strict(w)  == w.lo < w.hi
In(k, w)   == w.lo < k /\ k < w.hi
Between(s, i, w) == [lo |-> IF i > 1 THEN s[i - 1].key ELSE w.lo,
                     hi |-> IF i <= Len(s) THEN s[i].key ELSE w.hi]

\* The entries of a node increase within its range.
Within(s, w) == Rising(s) /\ Strict(w) /\ \A i \in DOMAIN s : In(s[i].key, w)

LEMMA Adjacent ==
    ASSUME NEW n \in Nat, NEW k \in [0 .. n -> Int], \A i \in 1 .. n : k[i - 1] < k[i]
    PROVE  \A i, j \in 0 .. n : i < j => k[i] < k[j]
<1> SUFFICES ASSUME NEW i \in 0 .. n, NEW z \in 0 .. n, i < z, ~(k[i] < k[z])
             PROVE  FALSE
  OBVIOUS
<1> DEFINE T == {j \in 0 .. n : i < j /\ ~(k[i] < k[j])}
<1>1. T \subseteq Nat /\ T # {}
  <2>1. z \in T
    OBVIOUS
  <2>2. 0 .. n \subseteq Nat
    OBVIOUS
  <2> QED  BY <2>1, <2>2
<1>2. PICK j \in T : \A y \in T : j <= y
  <2> HIDE DEF T
  <2> QED  BY <1>1, LeastNat
<1>3. j \in 0 .. n /\ i < j /\ ~(k[i] < k[j])
  BY <1>2
<1>4. j \in 1 .. n /\ j - 1 \in 0 .. n /\ k[j - 1] < k[j]
  BY <1>3
<1>5. k[i] \in Int /\ k[j] \in Int /\ k[j - 1] \in Int
  BY <1>3, <1>4
<1>6. j - 1 # i
  BY <1>3, <1>4
<1>7. i < j - 1 /\ ~(k[i] < k[j - 1])
  BY <1>3, <1>4, <1>5, <1>6
<1>8. j - 1 \in T
  BY <1>4, <1>7
<1> HIDE DEF T
<1> QED  BY <1>2, <1>3, <1>8

LEMMA KeysAre ==
    ASSUME NEW V, NEW s \in Seq(Entries(V))
    PROVE  /\ Len(s) \in Nat /\ DOMAIN s = 1 .. Len(s)
           /\ \A j \in 1 .. Len(s) : s[j] \in Entries(V) /\ s[j].key \in Nat /\ s[j].val \in V
<1>1. \A j \in 1 .. Len(s) : s[j] \in Entries(V)
  OBVIOUS
<1> QED  BY <1>1 DEF Entries

LEMMA BetweenSpan ==
    ASSUME NEW V, NEW s \in Seq(Entries(V)), NEW w \in Spans, NEW i \in 1 .. Len(s) + 1
    PROVE  Between(s, i, w) \in Spans
<1>1. Len(s) \in Nat /\ \A j \in 1 .. Len(s) : s[j].key \in Nat
  BY KeysAre
<1>2. i > 1 => s[i - 1].key \in Int
  BY <1>1
<1>3. i <= Len(s) => s[i].key \in Int
  BY <1>1
<1> QED  BY <1>2, <1>3 DEF Between, Spans

LEMMA Chain ==
    ASSUME NEW V, NEW s \in Seq(Entries(V)), NEW w \in Spans,
           \A i \in 1 .. Len(s) + 1 : Strict(Between(s, i, w))
    PROVE  Within(s, w)
<1> DEFINE l == Len(s)
           k == [i \in 0 .. l + 1 |-> IF i = 0 THEN w.lo ELSE IF i = l + 1 THEN w.hi ELSE s[i].key]
<1>1. l \in Nat /\ DOMAIN s = 1 .. l /\ \A j \in 1 .. l : s[j].key \in Int
  BY KeysAre
<1>2. w.lo \in Int /\ w.hi \in Int
  BY DEF Spans
<1> HIDE DEF l
<1>3. k \in [0 .. l + 1 -> Int]
  BY <1>1, <1>2
<1>4. \A j \in 1 .. l : k[j] = s[j].key /\ j \in 0 .. l + 1
  BY <1>1
<1>5. k[0] = w.lo /\ k[l + 1] = w.hi /\ 0 \in 0 .. l + 1 /\ l + 1 \in 0 .. l + 1
  BY <1>1
<1> HIDE DEF k
<1>6. ASSUME NEW i \in 1 .. l + 1 PROVE k[i - 1] < k[i]
  <2>1. (IF i > 1 THEN s[i - 1].key ELSE w.lo) < (IF i <= l THEN s[i].key ELSE w.hi)
    BY DEF Strict, Between, l
  <2>2. (IF i > 1 THEN s[i - 1].key ELSE w.lo) = k[i - 1]
    <3>1. i > 1 => i - 1 \in 1 .. l
      BY <1>1
    <3>2. ~(i > 1) => i - 1 = 0
      BY <1>1
    <3> QED  BY <1>4, <1>5, <3>1, <3>2
  <2>3. (IF i <= l THEN s[i].key ELSE w.hi) = k[i]
    <3>1. i <= l => i \in 1 .. l
      BY <1>1
    <3>2. ~(i <= l) => i = l + 1
      BY <1>1
    <3> QED  BY <1>4, <1>5, <3>1, <3>2
  <2> QED  BY <2>1, <2>2, <2>3
<1>7. l + 1 \in Nat
  BY <1>1
<1>8. PICK n \in Nat : n = l + 1
  BY <1>7
<1>9. \A i, j \in 0 .. n : i < j => k[i] < k[j]
  BY <1>3, <1>6, <1>8, Adjacent
<1>10. Rising(s)
  <2> SUFFICES ASSUME NEW x \in 1 .. l, NEW y \in 1 .. l, x < y PROVE s[x].key < s[y].key
    BY <1>1 DEF Rising
  <2> QED  BY <1>4, <1>8, <1>9
<1>11. Strict(w)
  <2>1. 0 < l + 1
    BY <1>1
  <2> QED  BY <2>1, <1>5, <1>8, <1>9 DEF Strict
<1>12. ASSUME NEW x \in 1 .. l PROVE In(s[x].key, w)
  <2>1. 0 < x /\ x < l + 1
    BY <1>1
  <2> QED  BY <2>1, <1>4, <1>5, <1>8, <1>9 DEF In
<1> QED  BY <1>1, <1>10, <1>11, <1>12 DEF Within

\* A key between two entries of a node is in the node's range, and none of its keys.
LEMMA Narrow ==
    ASSUME NEW V, NEW s \in Seq(Entries(V)), NEW w \in Spans, Within(s, w),
           NEW i \in 1 .. Len(s) + 1, NEW k \in Int, In(k, Between(s, i, w))
    PROVE  /\ In(k, w)
           /\ \A j \in 1 .. Len(s) : IF j < i THEN s[j].key < k ELSE k < s[j].key
<1>1. Len(s) \in Nat /\ DOMAIN s = 1 .. Len(s) /\ \A j \in 1 .. Len(s) : s[j].key \in Int
  BY KeysAre
<1>2. w.lo \in Int /\ w.hi \in Int
  BY DEF Spans
<1>3. /\ (IF i > 1 THEN s[i - 1].key ELSE w.lo) < k
      /\ k < (IF i <= Len(s) THEN s[i].key ELSE w.hi)
  BY DEF In, Between
<1>4. \A j \in 1 .. Len(s) : w.lo < s[j].key /\ s[j].key < w.hi
  BY <1>1 DEF Within, In
<1>5. \A x, y \in 1 .. Len(s) : x < y => s[x].key < s[y].key
  BY <1>1 DEF Within, Rising
<1>6. PICK l \in Nat : l = Len(s)
  BY <1>1
<1>7. PICK key \in [1 .. l -> Int] : \A j \in 1 .. l : key[j] = s[j].key
  <2>1. [j \in 1 .. l |-> s[j].key] \in [1 .. l -> Int]
    BY <1>1, <1>6
  <2> QED  BY <2>1
<1>8. w.lo < k
  <2>1. CASE i > 1
    <3>1. i - 1 \in 1 .. Len(s)
      BY <1>6, <2>1
    <3>2. s[i - 1].key < k /\ w.lo < s[i - 1].key
      BY <1>3, <1>4, <2>1, <3>1
    <3>3. s[i - 1].key \in Int
      BY <1>1, <3>1
    <3> QED  BY <1>2, <3>2, <3>3
  <2>2. CASE ~(i > 1)
    BY <1>3, <2>2
  <2> QED  BY <2>1, <2>2
<1>9. k < w.hi
  <2>1. CASE i <= Len(s)
    <3>1. i \in 1 .. Len(s)
      BY <1>6, <2>1
    <3>2. k < s[i].key /\ s[i].key < w.hi
      BY <1>3, <1>4, <2>1, <3>1
    <3> QED  BY <1>1, <1>2, <3>1, <3>2
  <2> QED  BY <1>3, <2>1
<1>10. ASSUME NEW j \in 1 .. Len(s), j < i PROVE s[j].key < k
  <2>1. i > 1 /\ i - 1 \in 1 .. Len(s) /\ (j = i - 1 \/ j < i - 1)
    BY <1>6, <1>10
  <2>2. s[i - 1].key < k
    BY <1>3, <2>1
  <2>3. j < i - 1 => s[j].key < s[i - 1].key
    BY <1>5, <2>1
  <2> QED  BY SMTT(40), <1>1, <2>1, <2>2, <2>3
<1>11. ASSUME NEW j \in 1 .. Len(s), ~(j < i) PROVE k < s[j].key
  <2>1. i <= Len(s) /\ i \in 1 .. Len(s) /\ (j = i \/ i < j)
    BY <1>6, <1>11
  <2>2. k < s[i].key
    BY <1>3, <2>1
  <2>3. i < j => s[i].key < s[j].key
    BY <1>5, <2>1
  <2> QED  BY <1>1, <2>1, <2>2, <2>3
<1> QED  BY <1>8, <1>9, <1>10, <1>11 DEF In

LEMMA Pass ==
    ASSUME NEW V, NEW s \in Seq(Entries(V)), NEW w \in Spans, NEW i \in 1 .. Len(s) + 1,
           NEW k \in Int, In(k, w),
           \A j \in 1 .. Len(s) : IF j < i THEN s[j].key < k ELSE k < s[j].key
    PROVE  In(k, Between(s, i, w))
<1>1. PICK l \in Nat : l = Len(s)
  BY KeysAre
<1>2. (IF i > 1 THEN s[i - 1].key ELSE w.lo) < k
  <2>1. CASE i > 1
    <3>1. i - 1 \in 1 .. Len(s) /\ i - 1 < i
      BY <1>1, <2>1
    <3>2. s[i - 1].key < k
      BY <3>1
    <3> QED  BY <2>1, <3>2
  <2> QED  BY <2>1 DEF In
<1>3. k < (IF i <= Len(s) THEN s[i].key ELSE w.hi)
  <2>1. CASE i <= Len(s)
    <3>1. i \in 1 .. Len(s) /\ ~(i < i)
      BY <1>1, <2>1
    <3>2. k < s[i].key
      BY <3>1
    <3> QED  BY <2>1, <3>2
  <2> QED  BY <2>1 DEF In
<1> QED  BY <1>2, <1>3 DEF In, Between

\* The keys that can be at a place of the walk of a node with range w.
RangeAt(t, w) == [lo |-> IF t[1] = NoEntry THEN w.lo ELSE t[1].key,
                  hi |-> IF t[3] = NoEntry THEN w.hi ELSE t[3].key]

LEMMA Real ==
    ASSUME NEW V, NEW e \in Entries(V)
    PROVE  e # NoEntry
<1>1. DOMAIN e = {"key", "val"} /\ DOMAIN NoEntry = {"entry"}
  BY DEF Entries, NoEntry
<1>2. "key" # "entry"
  OBVIOUS
<1>3. "key" \in DOMAIN e /\ "key" \notin DOMAIN NoEntry
  BY <1>1, <1>2
<1> QED  BY <1>3

LEMMA PlaceRange ==
    ASSUME NEW V, NEW S, NEW n \in Nodes(Entries(V), Nodes(Entries(V), S)),
           Len(n.kids) = Count(n) + 1,
           NEW i \in DOMAIN n.kids, NEW j \in Places(n, i), NEW w \in Spans
    PROVE  Between(n.kids[i].ents, j, Between(n.ents, i, w)) = RangeAt(Gap(n, i, j), w)
<1> DEFINE c == n.kids[i]
<1>1. /\ n.ents \in Seq(Entries(V)) /\ c \in Nodes(Entries(V), S)
      /\ n.kids \in Seq(Nodes(Entries(V), S)) /\ Count(n) = Len(n.ents)
  BY Nodes_ DEF Count
<1>2. c.ents \in Seq(Entries(V)) /\ Count(c) = Len(c.ents)
  BY <1>1, Nodes_ DEF Count
<1>3. PICK s \in Seq(Entries(V)), t \in Seq(Entries(V)) : s = n.ents /\ t = c.ents
  BY <1>1, <1>2
<1>4. PICK l \in Nat, m \in Nat : l = Len(s) /\ m = Len(t)
  BY KeysAre
<1>5. i \in 1 .. l + 1 /\ j \in 1 .. m + 1
  BY <1>1, <1>2, <1>3, <1>4 DEF Places
<1>6. /\ \A x \in 1 .. l : s[x] \in Entries(V) /\ s[x] # NoEntry
      /\ \A x \in 1 .. m : t[x] \in Entries(V) /\ t[x] # NoEntry
  BY <1>4, KeysAre, Real
<1>7. /\ j > 1 => t[j - 1] # NoEntry
      /\ j <= m => t[j] # NoEntry
      /\ i > 1 => s[i - 1] # NoEntry
      /\ i <= l => s[i] # NoEntry
  <2>1. (j > 1 => j - 1 \in 1 .. m) /\ (j <= m => j \in 1 .. m)
        /\ (i > 1 => i - 1 \in 1 .. l) /\ (i <= l => i \in 1 .. l)
    BY <1>5
  <2> QED  BY <1>6, <2>1
<1>8. /\ Before(n, i, j) = IF j > 1 THEN t[j - 1] ELSE IF i > 1 THEN s[i - 1] ELSE NoEntry
      /\ After(n, i, j) = IF j <= m THEN t[j] ELSE IF i <= l THEN s[i] ELSE NoEntry
  BY <1>1, <1>2, <1>3, <1>4 DEF Before, After
<1>9. /\ Gap(n, i, j)[1] = Before(n, i, j) /\ Gap(n, i, j)[3] = After(n, i, j)
  BY DEF Gap
<1>10. /\ RangeAt(Gap(n, i, j), w).lo = IF j > 1 THEN t[j - 1].key
                                        ELSE IF i > 1 THEN s[i - 1].key ELSE w.lo
       /\ RangeAt(Gap(n, i, j), w).hi = IF j <= m THEN t[j].key
                                        ELSE IF i <= l THEN s[i].key ELSE w.hi
  BY <1>7, <1>8, <1>9 DEF RangeAt
<1>11. Between(t, j, Between(s, i, w)) =
          [lo |-> IF j > 1 THEN t[j - 1].key ELSE IF i > 1 THEN s[i - 1].key ELSE w.lo,
           hi |-> IF j <= m THEN t[j].key ELSE IF i <= l THEN s[i].key ELSE w.hi]
  BY <1>4 DEF Between
<1>12. RangeAt(Gap(n, i, j), w) =
          [lo |-> RangeAt(Gap(n, i, j), w).lo, hi |-> RangeAt(Gap(n, i, j), w).hi]
  BY DEF RangeAt
<1> QED  BY <1>3, <1>10, <1>11, <1>12

\* What is between two entries is in the node's range.
LEMMA Wider ==
    ASSUME NEW V, NEW s \in Seq(Entries(V)), NEW w \in Spans, Within(s, w), NEW i \in 1 .. Len(s) + 1
    PROVE  Between(s, i, w).lo >= w.lo /\ Between(s, i, w).hi <= w.hi
<1>1. PICK n \in Nat : n = Len(s) /\ DOMAIN s = 1 .. n /\ \A j \in 1 .. n : s[j].key \in Nat
  BY KeysAre
<1>2. \A j \in 1 .. n : w.lo < s[j].key /\ s[j].key < w.hi
  BY <1>1 DEF Within, In
<1>3. w.lo \in Int /\ w.hi \in Int
  BY DEF Spans
<1>4. /\ Between(s, i, w).lo = IF i > 1 THEN s[i - 1].key ELSE w.lo
      /\ Between(s, i, w).hi = IF i <= n THEN s[i].key ELSE w.hi
  BY <1>1 DEF Between
<1>5. i > 1 => i - 1 \in 1 .. n
  BY <1>1
<1>6. i <= n => i \in 1 .. n
  BY <1>1
<1>7. Between(s, i, w).lo >= w.lo
  BY <1>1, <1>2, <1>3, <1>4, <1>5
<1>8. Between(s, i, w).hi <= w.hi
  BY <1>1, <1>2, <1>3, <1>4, <1>6
<1> QED  BY <1>7, <1>8

LEMMA InsertGaps ==
    ASSUME NEW V, NEW s \in Seq(Entries(V)), NEW w \in Spans,
           \A i \in 1 .. Len(s) + 1 : Strict(Between(s, i, w)),
           NEW c \in 1 .. Len(s) + 1, NEW e \in Entries(V), In(e.key, Between(s, c, w)),
           NEW t, t = InsertAt(s, c, e)
    PROVE  /\ t \in Seq(Entries(V)) /\ Len(t) = Len(s) + 1
           /\ \A i \in 1 .. Len(t) + 1 : Strict(Between(t, i, w))
<1>1. /\ t \in Seq(Entries(V)) /\ Len(t) = Len(s) + 1
      /\ \A j \in 1 .. c - 1 : t[j] = s[j]
      /\ t[c] = e
      /\ \A j \in c .. Len(s) : t[j + 1] = s[j]
  BY Inserted
<1>2. PICK n \in Nat : n = Len(s)
  BY KeysAre
<1>3. ASSUME NEW i \in 1 .. n + 2 PROVE Strict(Between(t, i, w))
  <2>1. /\ Between(t, i, w).lo = IF i > 1 THEN t[i - 1].key ELSE w.lo
        /\ Between(t, i, w).hi = IF i <= n + 1 THEN t[i].key ELSE w.hi
    BY <1>1, <1>2 DEF Between
  <2>2. \A j \in 1 .. n + 1 : /\ Between(s, j, w).lo = IF j > 1 THEN s[j - 1].key ELSE w.lo
                              /\ Between(s, j, w).hi = IF j <= n THEN s[j].key ELSE w.hi
                              /\ Between(s, j, w).lo < Between(s, j, w).hi
    BY <1>2 DEF Between, Strict
  <2>3. Between(s, c, w).lo < e.key /\ e.key < Between(s, c, w).hi
    BY DEF In
  <2>4. CASE i < c
    <3>1. i \in 1 .. n + 1 /\ i <= n /\ i <= n + 1 /\ i \in 1 .. c - 1
          /\ (i > 1 => i - 1 \in 1 .. c - 1)
      BY <2>4, <1>2
    <3>2. t[i] = s[i] /\ (i > 1 => t[i - 1] = s[i - 1])
      BY <3>1, <1>1
    <3>3. Between(t, i, w).lo = Between(s, i, w).lo /\ Between(t, i, w).hi = Between(s, i, w).hi
      BY <3>1, <3>2, <2>1, <2>2
    <3> QED  BY <3>1, <3>3, <2>2 DEF Strict
  <2>5. CASE i = c
    <3>1. i \in 1 .. n + 1 /\ (i > 1 => i - 1 \in 1 .. c - 1)
      BY <2>5, <1>2
    <3>2. t[i] = e /\ (i > 1 => t[i - 1] = s[i - 1])
      BY <2>5, <3>1, <1>1
    <3>3. Between(t, i, w).lo = Between(s, c, w).lo /\ Between(t, i, w).hi = e.key
      BY <3>1, <3>2, <2>1, <2>2, <2>5
    <3> QED  BY <3>3, <2>3 DEF Strict
  <2>6. CASE i = c + 1
    <3>1. c \in 1 .. n + 1 /\ i > 1 /\ i - 1 = c /\ (i <= n + 1 => c \in c .. n) /\ (i <= n + 1 <=> c <= n)
      BY <2>6, <1>2
    <3>2. t[i - 1] = e /\ (i <= n + 1 => t[i] = s[c])
      BY <2>6, <3>1, <1>1, <1>2
    <3>3. Between(t, i, w).lo = e.key /\ Between(t, i, w).hi = Between(s, c, w).hi
      BY <3>1, <3>2, <2>1, <2>2
    <3> QED  BY <3>3, <2>3 DEF Strict
  <2>7. CASE i > c + 1
    <3>1. PICK j \in 1 .. n + 1 : j = i - 1
      BY <2>7, <1>2
    <3>2. /\ i > 1 /\ j > 1 /\ j - 1 \in c .. n /\ (j - 1) + 1 = i - 1 /\ (i <= n + 1 <=> j <= n)
          /\ (i <= n + 1 => j \in c .. n /\ j + 1 = i)
      BY <2>7, <3>1, <1>2
    <3>3. t[i - 1] = s[j - 1] /\ (i <= n + 1 => t[i] = s[j])
      BY <3>2, <1>1, <1>2
    <3>4. Between(t, i, w).lo = Between(s, j, w).lo /\ Between(t, i, w).hi = Between(s, j, w).hi
      BY <3>1, <3>2, <3>3, <2>1, <2>2
    <3> QED  BY <3>1, <3>4, <2>2 DEF Strict
  <2> QED  BY <2>4, <2>5, <2>6, <2>7, <1>2
<1> QED  BY <1>1, <1>2, <1>3

LEMMA RemoveGaps ==
    ASSUME NEW V, NEW s \in Seq(Entries(V)), NEW w \in Spans,
           \A i \in 1 .. Len(s) + 1 : Strict(Between(s, i, w)),
           NEW c \in 1 .. Len(s), NEW t, t = RemoveAt(s, c)
    PROVE  /\ t \in Seq(Entries(V)) /\ Len(t) = Len(s) - 1
           /\ \A i \in 1 .. Len(t) + 1 : Strict(Between(t, i, w))
<1>1. /\ t \in Seq(Entries(V)) /\ Len(t) = Len(s) - 1
      /\ \A j \in 1 .. c - 1 : t[j] = s[j]
      /\ \A j \in c + 1 .. Len(s) : t[j - 1] = s[j]
  BY Removed
<1>2. PICK n \in Nat : n = Len(s) /\ \A j \in 1 .. n : s[j].key \in Nat
  BY KeysAre
<1>3. w.lo \in Int /\ w.hi \in Int
  BY DEF Spans
<1>4. ASSUME NEW i \in 1 .. n PROVE Strict(Between(t, i, w))
  <2>1. /\ Between(t, i, w).lo = IF i > 1 THEN t[i - 1].key ELSE w.lo
        /\ Between(t, i, w).hi = IF i <= n - 1 THEN t[i].key ELSE w.hi
    BY <1>1, <1>2 DEF Between
  <2>2. \A j \in 1 .. n + 1 : /\ Between(s, j, w).lo = IF j > 1 THEN s[j - 1].key ELSE w.lo
                              /\ Between(s, j, w).hi = IF j <= n THEN s[j].key ELSE w.hi
                              /\ Between(s, j, w).lo < Between(s, j, w).hi
    BY <1>2 DEF Between, Strict
  <2>3. CASE i < c
    <3>1. i \in 1 .. n + 1 /\ i <= n /\ i <= n - 1 /\ i \in 1 .. c - 1
          /\ (i > 1 => i - 1 \in 1 .. c - 1)
      BY <2>3, <1>2
    <3>2. t[i] = s[i] /\ (i > 1 => t[i - 1] = s[i - 1])
      BY <3>1, <1>1
    <3>3. Between(t, i, w).lo = Between(s, i, w).lo /\ Between(t, i, w).hi = Between(s, i, w).hi
      BY <3>1, <3>2, <2>1, <2>2
    <3> QED  BY <3>1, <3>3, <2>2 DEF Strict
  <2>4. CASE i = c
    <3>1. /\ c \in 1 .. n + 1 /\ c + 1 \in 1 .. n + 1 /\ (i > 1 => i - 1 \in 1 .. c - 1)
          /\ (i <= n - 1 => i + 1 \in c + 1 .. n /\ (i + 1) - 1 = i) /\ (i <= n - 1 <=> c + 1 <= n)
          /\ c + 1 > 1 /\ (c + 1) - 1 = c /\ c <= n
      BY <2>4, <1>2
    <3>2. (i <= n - 1 => t[i] = s[c + 1]) /\ (i > 1 => t[i - 1] = s[i - 1])
      BY <2>4, <3>1, <1>1, <1>2
    <3>3. Between(t, i, w).lo = Between(s, c, w).lo /\ Between(t, i, w).hi = Between(s, c + 1, w).hi
      BY <3>1, <3>2, <2>1, <2>2, <2>4
    <3>4. /\ Between(s, c, w).lo < Between(s, c, w).hi /\ Between(s, c, w).hi = s[c].key
          /\ Between(s, c + 1, w).lo < Between(s, c + 1, w).hi
          /\ Between(s, c + 1, w).lo = s[c].key
      BY <3>1, <2>2
    <3>5. Between(s, c, w) \in Spans /\ Between(s, c + 1, w) \in Spans
      BY <3>1, <1>2, BetweenSpan
    <3>6. PICK x \in Int, y \in Int, z \in Int :
             x = Between(s, c, w).lo /\ y = s[c].key /\ z = Between(s, c + 1, w).hi
      BY <3>5, <1>2 DEF Spans
    <3>7. x < z
      BY <3>4, <3>6
    <3> QED  BY <3>3, <3>6, <3>7 DEF Strict
  <2>5. CASE i > c
    <3>1. PICK j \in 1 .. n + 1 : j = i + 1
      BY <2>5, <1>2
    <3>2. /\ i > 1 /\ j > 1 /\ j - 1 = i /\ i \in c + 1 .. n /\ (i <= n - 1 <=> j <= n)
          /\ (i <= n - 1 => j \in c + 1 .. n)
      BY <2>5, <3>1, <1>2
    <3>3. t[i - 1] = s[j - 1] /\ (i <= n - 1 => t[i] = s[j])
      BY <3>2, <1>1, <1>2
    <3>4. Between(t, i, w).lo = Between(s, j, w).lo /\ Between(t, i, w).hi = Between(s, j, w).hi
      BY <3>1, <3>2, <3>3, <2>1, <2>2
    <3> QED  BY <3>1, <3>4, <2>2 DEF Strict
  <2> QED  BY <2>3, <2>4, <2>5
<1> QED  BY <1>1, <1>2, <1>4

\* What a wider range does to the places of a leaf.
LEMMA Loosened ==
    ASSUME NEW V, NEW s \in Seq(Entries(V)), NEW v \in Spans, NEW w \in Spans,
           \A i \in 1 .. Len(s) + 1 : Strict(Between(s, i, v)), w.lo <= v.lo, v.hi <= w.hi
    PROVE  \A i \in 1 .. Len(s) + 1 : Strict(Between(s, i, w))
<1>1. PICK n \in Nat : n = Len(s) /\ \A j \in 1 .. n : s[j].key \in Nat
  BY KeysAre
<1> SUFFICES ASSUME NEW i \in 1 .. n + 1 PROVE Strict(Between(s, i, w))
  BY <1>1
<1>2. /\ Between(s, i, w).lo = IF i > 1 THEN s[i - 1].key ELSE w.lo
      /\ Between(s, i, w).hi = IF i <= n THEN s[i].key ELSE w.hi
      /\ Between(s, i, v).lo = IF i > 1 THEN s[i - 1].key ELSE v.lo
      /\ Between(s, i, v).hi = IF i <= n THEN s[i].key ELSE v.hi
  BY <1>1 DEF Between
<1>3. Between(s, i, v).lo < Between(s, i, v).hi
  BY <1>1 DEF Strict
<1>4. Between(s, i, w) \in Spans /\ Between(s, i, v) \in Spans
  BY <1>1, BetweenSpan
<1>5. PICK a \in Int, b \in Int, c \in Int, d \in Int :
         /\ a = Between(s, i, w).lo /\ b = Between(s, i, w).hi
         /\ c = Between(s, i, v).lo /\ d = Between(s, i, v).hi
  BY <1>4 DEF Spans
<1>6. a <= c /\ d <= b
  <2>1. v.lo \in Int /\ v.hi \in Int /\ w.lo \in Int /\ w.hi \in Int
    BY DEF Spans
  <2>2. a <= c
    <3>1. CASE i > 1
      BY <3>1, <1>2, <1>5
    <3>2. CASE ~(i > 1)
      BY <3>2, <1>2, <1>5
    <3> QED  BY <3>1, <3>2
  <2>3. d <= b
    <3>1. CASE i <= n
      BY <3>1, <1>2, <1>5
    <3>2. CASE ~(i <= n)
      BY <3>2, <1>2, <1>5
    <3> QED  BY <3>1, <3>2
  <2> QED  BY <2>2, <2>3
<1>7. a < b
  BY <1>3, <1>5, <1>6
<1> QED  BY <1>5, <1>7 DEF Strict

\* The last entry moves up as the end of the leaf, or the first as its beginning.
LEMMA LastUp ==
    ASSUME NEW V, NEW s \in Seq(Entries(V)), NEW v \in Spans, Len(s) >= 1,
           \A i \in 1 .. Len(s) + 1 : Strict(Between(s, i, v)),
           NEW w, w.lo = v.lo, w.hi = s[Len(s)].key, NEW t, t = RemoveAt(s, Len(s))
    PROVE  \A i \in 1 .. Len(t) + 1 : Strict(Between(t, i, w))
<1>1. PICK n \in Nat : n = Len(s)
  BY KeysAre
<1>2. Len(t) = n - 1 /\ \A j \in 1 .. n - 1 : t[j] = s[j]
  BY <1>1, Removed
<1>3. ASSUME NEW i \in 1 .. n PROVE Strict(Between(t, i, w))
  <2>1. /\ Between(t, i, w).lo = IF i > 1 THEN t[i - 1].key ELSE w.lo
        /\ Between(t, i, w).hi = IF i <= n - 1 THEN t[i].key ELSE w.hi
    BY <1>2 DEF Between
  <2>2. i \in 1 .. n + 1 /\ i <= n
    OBVIOUS
  <2>3. /\ Between(s, i, v).lo = IF i > 1 THEN s[i - 1].key ELSE v.lo
        /\ Between(s, i, v).hi = s[i].key
        /\ Between(s, i, v).lo < Between(s, i, v).hi
    BY <1>1, <2>2 DEF Between, Strict
  <2>4. (i > 1 => i - 1 \in 1 .. n - 1) /\ (i <= n - 1 => i \in 1 .. n - 1) /\ (~(i <= n - 1) => i = n)
    OBVIOUS
  <2>5. Between(t, i, w).lo = Between(s, i, v).lo
    BY <2>1, <2>3, <2>4, <1>2
  <2>6. Between(t, i, w).hi = Between(s, i, v).hi
    BY <2>1, <2>3, <2>4, <1>1, <1>2
  <2> QED  BY <2>3, <2>5, <2>6 DEF Strict
<1> QED  BY <1>1, <1>2, <1>3

LEMMA FirstUp ==
    ASSUME NEW V, NEW s \in Seq(Entries(V)), NEW v \in Spans, Len(s) >= 1,
           \A i \in 1 .. Len(s) + 1 : Strict(Between(s, i, v)),
           NEW w, w.lo = s[1].key, w.hi = v.hi, NEW t, t = RemoveAt(s, 1)
    PROVE  \A i \in 1 .. Len(t) + 1 : Strict(Between(t, i, w))
<1>1. PICK n \in Nat : n = Len(s)
  BY KeysAre
<1>2. 1 \in 1 .. Len(s)
  BY <1>1
<1>3. Len(t) = n - 1 /\ \A j \in 2 .. n : t[j - 1] = s[j]
  BY <1>1, <1>2, Removed
<1>4. ASSUME NEW i \in 1 .. n PROVE Strict(Between(t, i, w))
  <2>1. /\ Between(t, i, w).lo = IF i > 1 THEN t[i - 1].key ELSE w.lo
        /\ Between(t, i, w).hi = IF i <= n - 1 THEN t[i].key ELSE w.hi
    BY <1>3 DEF Between
  <2>2. PICK k \in 1 .. n + 1 : k = i + 1 /\ k > 1 /\ k - 1 = i
    OBVIOUS
  <2>3. /\ Between(s, k, v).lo = s[i].key
        /\ Between(s, k, v).hi = IF k <= n THEN s[k].key ELSE v.hi
        /\ Between(s, k, v).lo < Between(s, k, v).hi
    BY <1>1, <2>2 DEF Between, Strict
  <2>4. (i > 1 => i \in 2 .. n) /\ (~(i > 1) => i = 1) /\ (i <= n - 1 <=> k <= n) /\ (k <= n => k \in 2 .. n)
    BY <2>2
  <2>5. Between(t, i, w).lo = Between(s, k, v).lo
    BY <2>1, <2>3, <2>4, <1>3
  <2>6. Between(t, i, w).hi = Between(s, k, v).hi
    BY <2>1, <2>2, <2>3, <2>4, <1>3
  <2> QED  BY <2>3, <2>5, <2>6 DEF Strict
<1> QED  BY <1>1, <1>3, <1>4
=============================================================================
